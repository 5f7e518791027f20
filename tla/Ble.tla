--------------------------------- MODULE Ble ---------------------------------
(***************************************************************************)
(* Bluetooth on the baseband: arch/csr/ble.c and gatt.c with               *)
(* services/gatt_service.c.  One connection and one bond, as both devices  *)
(* are built (BLE_MAX_CONNECTIONS = BLE_MAX_BONDS = 1).                    *)
(*                                                                         *)
(* The firmware calls one handler at a time; between them hosts connect,   *)
(* pair, use attributes and leave, and the two timers expire.  Of time the *)
(* module keeps only which timer is running: either may expire at any      *)
(* moment while it runs.  What the firmware does is modelled from how the  *)
(* handlers use it:                                                        *)
(*   - a request to connect is answered or cancelled, a cancellation is    *)
(*     always confirmed, and before the end of a connection that won the   *)
(*     race against it;                                                    *)
(*   - the confirmation of a parameter update and the end of a pairing may *)
(*     come after the connection has been closed, all else comes before;   *)
(*   - the link manager reports the parameters of a connection while its   *)
(*     slot is open, after GATT_CONNECT_CFM and before the disconnection,  *)
(*     as ble_lm_connection_completed needs it;                            *)
(*   - a parameter update for a host that is not connected is refused, and *)
(*     so is the removal of an address that is not in the white list.      *)
(*                                                                         *)
(* The program knows a host by its address only.  A host with resolvable   *)
(* random addresses has several of them.                                   *)
(***************************************************************************)
EXTENDS Integers, FiniteSets

CONSTANTS
  Hosts, Addrs, None,
  Owner,           \* the host of each address
  Resolvable,      \* the resolvable random addresses
  MaxRequests,     \* BLE_MAX_NUM_CONN_PARAM_UPDATE_REQS
  WhiteListSize,   \* the addresses the controller's white list can hold
  MaxConnects,     \* bound on the connections of a run of the program
  MaxKeys,         \* bound on the keys distributed
  MaxBoots         \* bound on the boots

ASSUME HostsAssumption ==
  /\ None \notin Hosts /\ None \notin Addrs
  /\ Owner \in [Addrs -> Hosts] /\ Resolvable \subseteq Addrs
ASSUME BoundsAssumption ==
  /\ MaxRequests \in Nat \ {0}
  /\ {WhiteListSize, MaxConnects, MaxKeys, MaxBoots} \subseteq Nat

VARIABLES
  program,    \* "reset", "boot" (until the database is set up), "up", "hung"
  adv,        \* advMode, advTimer, and the firmware's open requests
  conn,       \* the fields of connections[0]; open: its id is valid
  connTimer,  \* its connUpdateReqTimer: "off", "running", or "looped": linked
              \* to itself in the list of timers
  connectionCount,
  bond,       \* bonds[0]; irk: the host whose identity key it holds
  nvm,        \* ... and its copy in the NVM
  link,       \* firmware: the address of the connected host
  white,      \* firmware: the white list
  updating,   \* firmware: addresses whose parameter update is not yet confirmed
  pairing,    \* firmware: the address of a pairing not yet completed
  connects, boots, keys,
  given,      \* history: the last diversifier distributed to each host
  void,       \* history: the diversifiers of keys the program has discarded
  approved,   \* history: the last diversifier approved for this connection
  sent,       \* history: parameter updates requested on this connection
  owed,       \* history: the bonded host is to learn that services changed
  bugCheck    \* history: whose event led to the last bug check before this boot

radio == <<link, white, updating, pairing>>
bounds == <<connects, boots, keys>>
history == <<given, void, approved, sent, owed, bugCheck>>
data == <<adv, conn, connTimer, connectionCount, bond, nvm>>
vars == <<program, data, radio, bounds, history>>

Bond == [valid: BOOLEAN, addr: Addrs \cup {None}, irk: Hosts \cup {None},
         div: 0 .. MaxKeys, config: BOOLEAN]

Adv == [mode: {"fast", "slow", "none"}, timer: BOOLEAN, requests: 0 .. 1,
        cancelling: BOOLEAN]

\* (The interval, latency and timeout are left out: they are read only where
\* gatt.c:309 has just set them to 0.)
Slot == [open: BOOLEAN, addr: Addrs \cup {None}, bonded: BOOLEAN, updates: Nat]

\* bleData after a reset, when all of it is 0: ble_adv_fast is 0, too.
ZeroAdv == [mode |-> "fast", timer |-> FALSE, requests |-> 0, cancelling |-> FALSE]

Closed == [open |-> FALSE, addr |-> None, bonded |-> FALSE, updates |-> 0]

\* ble_init_nvm has been called; it sets valid only.
Init ==
  /\ program = "reset"
  /\ adv = ZeroAdv /\ conn = Closed /\ connTimer = "off" /\ connectionCount = 0
  /\ bond = [valid |-> FALSE, addr |-> None, irk |-> None, div |-> 0, config |-> FALSE]
  /\ nvm = bond
  /\ link = None /\ white = {} /\ updating = {} /\ pairing = None
  /\ connects = 0 /\ boots = 0 /\ keys = 0
  /\ given = [h \in Hosts |-> 0] /\ void = {} /\ approved = 0
  /\ sent = 0 /\ owed = FALSE
  /\ bugCheck = "none"

Up == program = "up"

-----------------------------------------------------------------------------
(* Bug checks and timers.                                                  *)

\* bug_check resets the device.  All of the program's memory but the NVM is
\* lost, and the firmware forgets its connections.
Restart ==
  /\ program' = "reset"
  /\ adv' = ZeroAdv /\ conn' = Closed /\ connTimer' = "off"
  /\ connectionCount' = 0
  /\ link' = None /\ white' = {} /\ updating' = {} /\ pairing' = None
  /\ connects' = 0 /\ sent' = 0 /\ approved' = 0
  /\ UNCHANGED <<bond, nvm, boots, keys, given, void, owed>>

\* (a: the address that the event is about.)
BugCheck(a) ==
  Restart /\ bugCheck' = IF a = link THEN "open" ELSE "late"

\* A walk along a list that has become a loop does not end.
Hang == program' = "hung" /\ UNCHANGED <<data, radio, bounds, history>>

\* CREATE_TIMER and timer_start for a timer.  One that is in the list is
\* found there again as the last before its own place, and linked to itself.
Started(t) == IF t = "off" THEN "running" ELSE "looped"

\* timer_stop for the slot's timer, which a loop leaves in the list.
Stopped(t) == IF t = "looped" THEN "looped" ELSE "off"

-----------------------------------------------------------------------------
(* Advertising.                                                            *)

\* Slip: a cancellation that is under way is forgotten.
ble_advertise_Twice(a, mode) ==
  IF mode = "none" THEN [a EXCEPT !.mode = mode, !.timer = FALSE]
  ELSE [a EXCEPT !.mode = mode, !.timer = TRUE, !.requests = @ + 1]

\* ble_advertise: while the mode is not none, the new one is entered when the
\* cancellation is confirmed.
ble_advertise(a, mode) ==
  IF a.mode # "none"
  THEN [a EXCEPT !.mode = mode, !.timer = FALSE, !.cancelling = TRUE]
  ELSE IF mode = "none" THEN [a EXCEPT !.timer = FALSE]
  ELSE [a EXCEPT !.mode = mode, !.timer = TRUE, !.requests = @ + 1]

\* A handler that does nothing but advertise, from adv = a.
Advertise(a, mode) ==
  IF connTimer = "looped" THEN Hang
  ELSE /\ adv' = ble_advertise(a, mode)
       /\ UNCHANGED <<program, conn, connTimer, connectionCount, bond, nvm,
                      radio, bounds, history>>

\* Slip: slow advertisements are followed by fast ones.
ble_gatt_handle_ad_timer_Forever ==
  /\ Up /\ adv.timer /\ connTimer # "looped"
  /\ Advertise([adv EXCEPT !.timer = FALSE], IF adv.mode = "fast" THEN "slow" ELSE "fast")

\* A timer behind one that is linked to itself has left the list.
ble_gatt_handle_ad_timer ==
  /\ Up /\ adv.timer /\ connTimer # "looped"
  /\ Advertise([adv EXCEPT !.timer = FALSE], IF adv.mode = "fast" THEN "slow" ELSE "none")

ble_gatt_connect_cancelled ==
  /\ Up /\ adv.cancelling
  /\ Advertise([adv EXCEPT !.mode = "none", !.cancelling = FALSE,
                           !.requests = IF @ > 0 THEN @ - 1 ELSE @], adv.mode)

-----------------------------------------------------------------------------
(* Boot.                                                                   *)

\* AppInit up to ble_start.  The bonded host is owed the news when the device
\* has switched between bootloader and application and its subscription is
\* known.  (gattChanged, set here, is never read.)
Boot ==
  /\ program = "reset" /\ boots < MaxBoots
  /\ program' = "boot"
  /\ boots' = boots + 1
  /\ bond' = nvm
  /\ white' = IF nvm.valid THEN {nvm.addr} \ (Resolvable \cup {None}) ELSE {}
  /\ \E dfuDidSwitch \in BOOLEAN :
       owed' = (owed \/ (dfuDidSwitch /\ nvm.valid /\ nvm.config))
  /\ bugCheck' = "none"
  /\ UNCHANGED <<adv, conn, connTimer, connectionCount, nvm, link, updating, pairing,
                 connects, keys, given, void, approved, sent>>

ble_gatt_add_db_completed ==
  /\ program = "boot"
  /\ program' = "up"
  /\ adv' = ble_advertise(adv, "fast")
  /\ UNCHANGED <<conn, connTimer, connectionCount, bond, nvm, radio, bounds, history>>

\* The device may be switched off or commanded to reboot at any moment.
PowerLoss == program # "reset" /\ Restart /\ bugCheck' = bugCheck

-----------------------------------------------------------------------------
(* Connections.                                                            *)

\* ble_recall_bond compares addresses: a bonded host that has changed its
\* resolvable address is a stranger.
Recalled(a) == bond.valid /\ bond.addr = a

\* The bond's address is resolvable, and its key does not resolve the host's.
Refused(a) == Recalled(a) /\ a \in Resolvable /\ bond.irk # Owner[a]

\* The connection GATT has established, in the slot that is free.  Only
\* ble_negotiate_params counts the updates anew.
Connection(a) == [open |-> TRUE, addr |-> a, bonded |-> Recalled(a),
                  updates |-> IF Refused(a) THEN conn.updates ELSE 0]

\* The request is answered: the device no longer advertises.
Answered == [adv EXCEPT !.mode = "none", !.requests = @ - 1]

Answerable == Up /\ adv.requests > 0 /\ connects < MaxConnects

\* Slip: room is found for one connection too many.
HasRoom_One(count) == count < 2

HasRoom(count) == count < 1

\* After a connection the device advertises on if there is room for another.
AfterConnect ==
  adv' = IF HasRoom(connectionCount + 1) THEN ble_advertise(Answered, "fast") ELSE Answered

ConnectFailed ==
  /\ Answerable
  /\ adv' = Answered
  /\ UNCHANGED <<program, conn, connTimer, connectionCount, bond, nvm, radio, bounds,
                 history>>

\* Slip: only indications are sent, not notifications.
Notified_Not(a) == FALSE

\* gatt_service_on_connection: a host that has subscribed is notified.
Notified(a) == Recalled(a) /\ bond.config

\* The two timers of a connection are started by ble_negotiate_params, at a
\* time at which its interval is still 0 and hence never the preferred one.
ble_gatt_connect_completed(a) ==
  /\ Answerable /\ link # a
  /\ IF conn.open THEN Restart /\ bugCheck' = "crowded"
     ELSE /\ conn' = Connection(a)
          /\ connectionCount' = connectionCount + 1
          /\ link' = a
          /\ connects' = connects + 1
          /\ sent' = 0 /\ approved' = 0
          /\ IF Refused(a)
             THEN UNCHANGED <<connTimer, nvm, owed>>
             ELSE /\ connTimer' = Started(connTimer)
                  /\ nvm' = IF Recalled(a) THEN bond ELSE nvm
                  /\ owed' = (owed /\ ~Notified(a))
          /\ AfterConnect
          /\ UNCHANGED <<program, bond, white, updating, pairing, boots, keys, given,
                         void, bugCheck>>

\* Slip: the connection is not counted out.
ble_lm_connection_closed_Counted ==
  /\ Up /\ link # None /\ ~adv.cancelling /\ connTimer # "looped"
  /\ conn' = [conn EXCEPT !.open = FALSE]
  /\ adv' = ble_advertise(adv, "slow")
  /\ link' = None
  /\ sent' = 0 /\ approved' = 0
  /\ UNCHANGED <<program, connTimer, connectionCount, bond, nvm, white, updating, pairing,
                 bounds, given, void, owed, bugCheck>>

\* The slot keeps its fields and its timer.  ble_state_fast_advertising, which
\* is passed on, has the value of ble_adv_slow.
ble_lm_connection_closed ==
  /\ Up /\ link # None /\ ~adv.cancelling
  /\ IF ~conn.open THEN BugCheck(link)
     ELSE IF connTimer = "looped" THEN Hang
     ELSE /\ conn' = [conn EXCEPT !.open = FALSE]
          /\ connectionCount' = connectionCount - 1
          /\ adv' = ble_advertise(adv, "slow")
          /\ link' = None
          /\ sent' = 0 /\ approved' = 0
          /\ UNCHANGED <<program, connTimer, bond, nvm, white, updating, pairing, bounds,
                         given, void, owed, bugCheck>>

-----------------------------------------------------------------------------
(* Connection parameters.                                                  *)

\* The link manager reports the parameters of a connection, which are stored
\* in its slot.
StoreParams ==
  /\ Up /\ link # None
  /\ IF ~conn.open THEN BugCheck(link) ELSE UNCHANGED vars

\* ... those it begins with, and those it is changed to.
ble_lm_connection_completed == StoreParams

ble_lm_connection_updated == StoreParams

\* The timer's handler, for the address that the slot holds.
ble_request_conn_param_update ==
  /\ Up /\ connTimer = "running"
  /\ IF link # conn.addr THEN BugCheck(conn.addr)
     ELSE /\ connTimer' = "off"
          /\ updating' = updating \cup {conn.addr}
          /\ conn' = [conn EXCEPT !.updates = @ + 1]
          /\ sent' = sent + 1
          /\ UNCHANGED <<program, adv, connectionCount, bond, nvm, link, white, pairing,
                         bounds, given, void, approved, owed, bugCheck>>

\* timer_update takes a timer linked to itself out again and again.
TriggerForever == Up /\ connTimer = "looped" /\ Hang

\* The host has changed the parameters itself.
ble_ls_conn_param_update_indication ==
  /\ Up /\ link # None
  /\ IF ~conn.open THEN BugCheck(link)
     ELSE /\ connTimer' = Stopped(connTimer)
          /\ UNCHANGED <<program, adv, conn, connectionCount, bond, nvm, radio, bounds,
                         history>>

\* Slip: one request more than the macro says.
MayRetry_Inclusive(n) == n <= MaxRequests + 1

MayRetry(n) == n < MaxRequests

ble_ls_conn_param_update_completed(a, ok) ==
  /\ Up /\ a \in updating
  /\ IF ~(conn.open /\ conn.addr = a) THEN BugCheck(a)
     ELSE /\ updating' = updating \ {a}
          /\ conn' = IF ok THEN conn ELSE [conn EXCEPT !.updates = @ + 1]
          /\ connTimer' = IF ~ok /\ MayRetry(conn.updates)
                          THEN Started(Stopped(connTimer)) ELSE connTimer
          /\ UNCHANGED <<program, adv, connectionCount, bond, nvm, link, white, pairing,
                         bounds, history>>

-----------------------------------------------------------------------------
(* Pairing.                                                                *)

\* The host of this connection starts to pair.
PairingStarts ==
  /\ Up /\ link # None /\ pairing = None
  /\ pairing' = link
  /\ UNCHANGED <<program, data, link, white, updating, bounds, history>>

\* Slip: the bond is saved before the pairing is complete.
ble_sm_keys_indication_Saves ==
  /\ Up /\ link # None /\ pairing = link /\ keys < MaxKeys /\ conn.open
  /\ bond' = [bond EXCEPT !.valid = TRUE, !.config = FALSE, !.div = keys + 1]
  /\ nvm' = bond'
  /\ conn' = [conn EXCEPT !.bonded = TRUE]
  /\ keys' = keys + 1
  /\ given' = [given EXCEPT ![Owner[link]] = keys + 1]
  /\ owed' = FALSE
  /\ UNCHANGED <<program, adv, connTimer, connectionCount, radio, connects, boots, void,
                 approved, sent, bugCheck>>

\* The bond is taken from whoever has it; the address in it stays until the
\* pairing is complete, whether the bond was valid or not.
ble_sm_keys_indication ==
  /\ Up /\ link # None /\ pairing = link /\ keys < MaxKeys
  /\ IF ~conn.open THEN BugCheck(link)
     ELSE /\ bond' = [bond EXCEPT !.valid = TRUE, !.config = FALSE, !.div = keys + 1,
                                  !.irk = IF link \in Resolvable THEN Owner[link] ELSE @]
          /\ conn' = [conn EXCEPT !.bonded = TRUE]
          /\ keys' = keys + 1
          /\ given' = [given EXCEPT ![Owner[link]] = keys + 1]
          /\ owed' = FALSE
          /\ UNCHANGED <<program, adv, connTimer, connectionCount, nvm, radio, connects,
                         boots, void, approved, sent, bugCheck>>

\* Is the end of a pairing about this connection and its bond?  (The firmware
\* may send it after the disconnection.)
Concerned == conn.open /\ conn.addr = pairing /\ conn.bonded

PairingIgnored ==
  /\ Up /\ pairing # None /\ ~Concerned
  /\ pairing' = None
  /\ UNCHANGED <<program, data, link, white, updating, bounds, history>>

\* The address joins the white list, which keeps those of former bonds.
PairingSucceeds ==
  /\ Up /\ pairing # None /\ Concerned
  /\ LET joined == white \cup ({pairing} \ Resolvable) IN
     IF Cardinality(joined) > WhiteListSize THEN Restart /\ bugCheck' = "whitelist"
     ELSE /\ bond' = [bond EXCEPT !.addr = pairing]
          /\ nvm' = bond'
          /\ white' = joined
          /\ pairing' = None
          /\ UNCHANGED <<program, adv, conn, connTimer, connectionCount, link, updating,
                         bounds, history>>

\* Slip: the bond that has failed is left as it is in the NVM.
PairingFails_NotSaved ==
  /\ Up /\ pairing # None /\ Concerned
  /\ white' = white \ {bond.addr}
  /\ bond' = [bond EXCEPT !.valid = FALSE]
  /\ conn' = [conn EXCEPT !.bonded = FALSE]
  /\ pairing' = None
  /\ void' = void \cup {bond.div}
  /\ owed' = FALSE
  /\ UNCHANGED <<program, adv, connTimer, connectionCount, nvm, link, updating, bounds,
                 given, approved, sent, bugCheck>>

PairingFails ==
  /\ Up /\ pairing # None /\ Concerned
  /\ IF bond.addr \notin white THEN Restart /\ bugCheck' = "whitelist"
     ELSE /\ white' = white \ {bond.addr}
          /\ bond' = [bond EXCEPT !.valid = FALSE]
          /\ nvm' = bond'
          /\ conn' = [conn EXCEPT !.bonded = FALSE]
          /\ pairing' = None
          /\ void' = void \cup {bond.div}
          /\ owed' = FALSE
          /\ UNCHANGED <<program, adv, connTimer, connectionCount, link, updating, bounds,
                         given, approved, sent, bugCheck>>

\* The diversifier that the host offers is that of its connection's bond.
Approvable == conn.bonded /\ bond.div = given[Owner[link]]

ble_sm_diversifier_approval_indication ==
  /\ Up /\ link # None /\ given[Owner[link]] # 0
  /\ IF ~conn.open THEN BugCheck(link)
     ELSE /\ approved' = IF Approvable THEN given[Owner[link]] ELSE 0
          /\ UNCHANGED <<program, data, radio, bounds, given, void, sent, owed,
                         bugCheck>>

-----------------------------------------------------------------------------
(* Attributes.                                                             *)

\* A host writes the configuration of the service changed attribute, rightly
\* (status 0) or with a wrong offset; the bond is not saved.
ble_gatt_access_indication(config, status) ==
  /\ Up /\ link # None
  /\ IF ~conn.open THEN BugCheck(link)
     ELSE /\ bond' = IF conn.bonded /\ status = 0 THEN [bond EXCEPT !.config = config]
                    ELSE bond
          /\ UNCHANGED <<program, adv, conn, connTimer, connectionCount, nvm, radio,
                         bounds, given, void, approved, sent, owed, bugCheck>>

-----------------------------------------------------------------------------
Next ==
  \/ Boot \/ ble_gatt_add_db_completed \/ PowerLoss
  \/ ble_gatt_handle_ad_timer \/ ble_gatt_connect_cancelled
  \/ ConnectFailed \/ \E a \in Addrs : ble_gatt_connect_completed(a)
  \/ ble_lm_connection_completed \/ ble_lm_connection_updated
  \/ ble_lm_connection_closed
  \/ ble_request_conn_param_update \/ TriggerForever
  \/ ble_ls_conn_param_update_indication
  \/ \E a \in Addrs, ok \in BOOLEAN : ble_ls_conn_param_update_completed(a, ok)
  \/ PairingStarts \/ ble_sm_keys_indication
  \/ PairingIgnored \/ PairingSucceeds \/ PairingFails
  \/ ble_sm_diversifier_approval_indication
  \/ \E config \in BOOLEAN, status \in {0, 1} : ble_gatt_access_indication(config, status)

\* A running timer expires, and the firmware confirms what it is asked.
Fairness ==
  /\ WF_vars(ble_gatt_add_db_completed)
  /\ WF_vars(ble_gatt_handle_ad_timer)
  /\ WF_vars(ble_gatt_connect_cancelled)

Spec == Init /\ [][Next]_vars /\ Fairness

-----------------------------------------------------------------------------
(* Properties.                                                             *)

\* Every variable keeps its type.
TypeOK ==
  /\ program \in {"reset", "boot", "up", "hung"}
  /\ adv \in Adv
  /\ conn \in Slot
  /\ connTimer \in {"off", "running", "looped"}
  /\ connectionCount \in 0 .. 1
  /\ bond \in Bond /\ nvm \in Bond
  /\ link \in Addrs \cup {None} /\ pairing \in Addrs \cup {None}
  /\ white \subseteq Addrs \cup {None} /\ updating \subseteq Addrs
  /\ keys \in 0 .. MaxKeys
  /\ given \in [Hosts -> 0 .. MaxKeys]

\* The slot of the program is the connection of the radio: ble_connection_t is
\* valid exactly while its host is connected, and connectionCount counts it.
SlotIsLink ==
  /\ conn.open <=> link # None
  /\ conn.open => conn.addr = link
  /\ connectionCount = IF conn.open THEN 1 ELSE 0

\* advMode tells whether the radio advertises, whatever cancellations and
\* connections have raced: unless a cancellation is to be confirmed, there is
\* a request to connect exactly in the two modes, and never more than one.
AdvModeIsTrue ==
  /\ Up /\ ~adv.cancelling => (adv.mode # "none" <=> adv.requests = 1)
  /\ adv.requests =< 1
  /\ Up /\ conn.open => adv.requests = 0

\* While a connection is open no event leads to a bug check, other than a
\* refusal by the white list: the rest come late, after the connection.
BugChecksAreLate == bugCheck \in {"none", "late", "whitelist"}

\* Parameter updates are requested of a host no more often than
\* BLE_MAX_NUM_CONN_PARAM_UPDATE_REQS says, whoever counts connUpdateReqNum
\* when and however late a confirmation is.
RequestsBounded == sent =< MaxRequests

\* A bond in the NVM that is valid has the address of a host whose pairing was
\* completed: a bond in the making, which has no address of its own yet, is
\* saved only if it was another's before (whose address it then still has,
\* beside the keys of the new host).
SavedBondHasHost == nvm.valid => nvm.addr # None

\* Keys of a pairing whose failure the program has processed are never approved
\* again, not even after a reset.  (A failure that is reported after the
\* disconnection is ignored, and its keys may be approved.)
DiscardedKeysStayOut == [][approved' # approved => approved' \notin void]_vars

\* A bonded host that had subscribed, as far as the NVM knows, when the device
\* switched between bootloader and application, is notified by the time the
\* next connection from the address in its bond is up, unless that connection
\* is refused.  (From another of its resolvable addresses it is not recalled
\* as bonded, and is not told.)
OwedIsTold ==
  [][~conn.open /\ conn'.open /\ Recalled(conn'.addr) /\ ~Refused(conn'.addr)
       => ~owed']_vars

\* Advertising ends by itself: fast is followed by slow and slow by silence,
\* unless a host connects or the program ends.
AdvertisingEnds ==
  Up ~> (~Up \/ link # None \/ (adv.mode = "none" /\ adv.requests = 0))

-----------------------------------------------------------------------------
(* What a comment says and the code does not do.                           *)

\* time.c:105: "The pointer passed to this function must point to a valid timer
\* struct until the timer expires or is stopped."  ble_negotiate_params
\* creates the slot's timer again while it may be running.
TimerStaysValid == connTimer # "looped"
==============================================================================
