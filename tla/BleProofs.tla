------------------------------ MODULE BleProofs ------------------------------
(***************************************************************************)
(* Proofs about Ble, for any hosts and addresses, any size of the white    *)
(* list and any bounds: the slot is the connection, the mode of the advertisements is   *)
(* what the radio does, and events of an open connection never end in a    *)
(* bug check but for the white list.                                       *)
(***************************************************************************)
EXTENDS Ble, TLAPS

-----------------------------------------------------------------------------
(* The inductive invariant.                                                *)

\* Until the database is set up nothing has been asked of the radio.
QuietUntilUp == program \in {"reset", "boot"} => adv = ZeroAdv /\ ~conn.open

\* The mode and the requests of the radio, a cancellation under way or not.
AdvBooks ==
  /\ Up /\ ~adv.cancelling => (adv.mode # "none" <=> adv.requests = 1)
  /\ conn.open => adv.mode = "none" /\ adv.requests = 0

\* The timer of the slot is that of a host.
TimerHasHost == connTimer # "off" => conn.addr # None

IInv == /\ TypeOK /\ SlotIsLink /\ QuietUntilUp /\ AdvBooks /\ TimerHasHost
        /\ BugChecksAreLate

-----------------------------------------------------------------------------
(* Initial states, resets and hangs.                                       *)

LEMMA InitInvariant == ASSUME Init PROVE IInv
<1>1. adv = ZeroAdv /\ conn = Closed /\ link = None /\ connectionCount = 0
  BY DEF Init
<1>2. TypeOK
  <2>1. adv \in Adv /\ conn \in Slot
    BY <1>1 DEF ZeroAdv, Adv, Closed, Slot
  <2>2. bond \in Bond /\ nvm \in Bond
    BY BoundsAssumption DEF Init, Bond
  <2>3. keys \in 0 .. MaxKeys /\ given \in [Hosts -> 0 .. MaxKeys]
    BY BoundsAssumption DEF Init
  <2> QED BY <1>1, <2>1, <2>2, <2>3 DEF Init, TypeOK
<1>3. SlotIsLink /\ QuietUntilUp
  BY <1>1 DEF SlotIsLink, QuietUntilUp, Closed
<1>4. AdvBooks /\ TimerHasHost /\ BugChecksAreLate
  BY <1>1 DEF Init, AdvBooks, TimerHasHost, BugChecksAreLate, Closed, Up
<1> QED BY <1>2, <1>3, <1>4 DEF IInv

LEMMA RestartInvariant ==
  ASSUME IInv, Restart, bugCheck' \in {"none", "late", "whitelist"}
  PROVE  IInv'
<1>1. adv' = ZeroAdv /\ conn' = Closed /\ link' = None /\ connectionCount' = 0
  BY DEF Restart
<1>2. TypeOK'
  <2>1. adv' \in Adv /\ conn' \in Slot
    BY <1>1 DEF ZeroAdv, Adv, Closed, Slot
  <2> QED BY <1>1, <2>1 DEF IInv, TypeOK, Restart
<1>3. SlotIsLink' /\ QuietUntilUp'
  BY <1>1 DEF SlotIsLink, QuietUntilUp, Closed
<1>4. AdvBooks' /\ TimerHasHost' /\ BugChecksAreLate'
  BY <1>1 DEF Restart, AdvBooks, TimerHasHost, BugChecksAreLate, Closed, Up
<1> QED BY <1>2, <1>3, <1>4 DEF IInv

LEMMA HangInvariant == ASSUME IInv, Hang PROVE IInv'
<1>1. program' = "hung" /\ UNCHANGED <<data, radio, bounds, history>>
  BY DEF Hang
<1>2. TypeOK'
  BY <1>1 DEF IInv, TypeOK, data, radio, bounds, history
<1>3. SlotIsLink' /\ QuietUntilUp'
  BY <1>1 DEF IInv, SlotIsLink, QuietUntilUp, data, radio
<1>4. AdvBooks' /\ TimerHasHost' /\ BugChecksAreLate'
  BY <1>1 DEF IInv, AdvBooks, TimerHasHost, BugChecksAreLate, Up, data, history
<1> QED BY <1>2, <1>3, <1>4 DEF IInv

\* A bug check about an event of a host that is not connected.
LEMMA LateBugCheck ==
  ASSUME IInv, NEW a, BugCheck(a), a # link
  PROVE  IInv'
<1>1. Restart /\ bugCheck' = "late"
  BY DEF BugCheck
<1> QED BY <1>1, RestartInvariant

-----------------------------------------------------------------------------
(* Advertising.                                                            *)

\* What ble_advertise relies on, and leaves behind.
Sound(a) == ~a.cancelling => (a.mode # "none" <=> a.requests = 1)

LEMMA AdvertiseFacts ==
  ASSUME NEW a \in Adv, NEW mode \in {"fast", "slow", "none"}, Sound(a),
         a.mode = "none" /\ mode # "none" => a.requests = 0
  PROVE  /\ ble_advertise(a, mode) \in Adv
         /\ Sound(ble_advertise(a, mode))
         /\ a.mode = "none" /\ mode = "none"
              => /\ ble_advertise(a, mode).mode = "none"
                 /\ ble_advertise(a, mode).requests = a.requests
<1>1. CASE a.mode # "none"
  BY <1>1 DEF ble_advertise, Adv, Sound
<1>2. CASE a.mode = "none" /\ mode = "none"
  BY <1>2 DEF ble_advertise, Adv, Sound
<1>3. CASE a.mode = "none" /\ mode # "none"
  <2>1. a.requests = 0
    BY <1>3
  <2> DEFINE b == [a EXCEPT !.mode = mode, !.timer = TRUE, !.requests = 1]
  <2>2. ble_advertise(a, mode) = b
    <3>1. a.requests + 1 = 1
      BY <2>1
    <3> QED BY <1>3, <3>1 DEF ble_advertise
  <2>3. b.mode = mode /\ b.requests = 1 /\ b \in Adv
    <3>1. 1 \in 0 .. 1
      OBVIOUS
    <3>2. b \in Adv
      BY <3>1, Zenon DEF Adv
    <3>3. b.mode = mode /\ b.requests = 1
      BY DEF Adv
    <3> QED BY <3>2, <3>3
  <2>4. b \in Adv /\ Sound(b)
    BY <2>3, <1>3 DEF Sound
  <2> QED BY <1>3, <2>2, <2>4
<1> QED BY <1>1, <1>2, <1>3

\* Handlers that do nothing but advertise; while a connection is open they
\* have nothing to advertise.
LEMMA AdvertiseInvariant ==
  ASSUME IInv, Up,
         NEW a \in Adv, NEW mode \in {"fast", "slow", "none"}, Sound(a),
         a.mode = "none" /\ mode # "none" => a.requests = 0,
         conn.open => a.mode = "none" /\ a.requests = 0 /\ mode = "none",
         Advertise(a, mode)
  PROVE  IInv'
<1>1. CASE Hang
  BY <1>1, HangInvariant
<1>2. CASE /\ adv' = ble_advertise(a, mode)
           /\ UNCHANGED <<program, conn, connTimer, connectionCount, bond, nvm,
                          radio, bounds, history>>
  <2>1. adv' \in Adv /\ Sound(adv') /\ (conn.open => adv'.mode = "none" /\ adv'.requests = 0)
    BY <1>2, AdvertiseFacts
  <2>2. TypeOK'
    BY <1>2, <2>1 DEF IInv, TypeOK, radio, bounds, history
  <2>3. SlotIsLink' /\ QuietUntilUp'
    BY <1>2 DEF IInv, SlotIsLink, QuietUntilUp, Up, radio
  <2>4. AdvBooks' /\ TimerHasHost' /\ BugChecksAreLate'
    BY <1>2, <2>1 DEF IInv, AdvBooks, TimerHasHost, BugChecksAreLate, Sound, Up, history
  <2> QED BY <2>2, <2>3, <2>4 DEF IInv
<1> QED BY <1>1, <1>2 DEF Advertise

LEMMA AdTimerStep == ASSUME IInv, ble_gatt_handle_ad_timer PROVE IInv'
<1> DEFINE a == [adv EXCEPT !.timer = FALSE]
           mode == IF adv.mode = "fast" THEN "slow" ELSE "none"
<1>1. Up /\ Advertise(a, mode)
  BY DEF ble_gatt_handle_ad_timer
<1>2. a \in Adv /\ Sound(a) /\ mode \in {"fast", "slow", "none"}
  BY <1>1 DEF IInv, TypeOK, AdvBooks, Adv, Sound
<1>3. a.mode = "none" /\ mode # "none" => a.requests = 0
  BY DEF IInv, TypeOK, Adv
<1>4. conn.open => a.mode = "none" /\ a.requests = 0 /\ mode = "none"
  BY DEF IInv, TypeOK, AdvBooks, Adv
<1> HIDE DEF a, mode
<1> QED BY <1>1, <1>2, <1>3, <1>4, AdvertiseInvariant

LEMMA CancelledStep == ASSUME IInv, ble_gatt_connect_cancelled PROVE IInv'
<1> DEFINE a == [adv EXCEPT !.mode = "none", !.cancelling = FALSE,
                            !.requests = IF @ > 0 THEN @ - 1 ELSE @]
           mode == adv.mode
<1>1. Up /\ Advertise(a, mode)
  BY DEF ble_gatt_connect_cancelled
<1>2. a.mode = "none" /\ a.requests = 0 /\ a \in Adv
  <2>1. adv \in Adv
    BY DEF IInv, TypeOK
  <2>2. adv.requests \in {0, 1}
    BY <2>1 DEF Adv
  <2>3. (IF adv.requests > 0 THEN adv.requests - 1 ELSE adv.requests) = 0
    BY <2>2
  <2>4. a = [adv EXCEPT !.mode = "none", !.cancelling = FALSE, !.requests = 0]
    BY <2>3
  <2> HIDE DEF a
  <2>5. 0 \in 0 .. 1
    OBVIOUS
  <2>6. a \in Adv
    BY <2>1, <2>4, <2>5, Zenon DEF Adv
  <2>7. a.mode = "none" /\ a.requests = 0
    BY <2>1, <2>4 DEF Adv
  <2> QED BY <2>6, <2>7
<1>3. Sound(a) /\ mode \in {"fast", "slow", "none"}
  BY <1>2 DEF IInv, TypeOK, Adv, Sound
<1>4. conn.open => mode = "none"
  BY DEF IInv, AdvBooks
<1> HIDE DEF a, mode
<1> QED BY <1>1, <1>2, <1>3, <1>4, AdvertiseInvariant

LEMMA DatabaseStep == ASSUME IInv, ble_gatt_add_db_completed PROVE IInv'
<1>1. adv = ZeroAdv /\ ~conn.open
  BY DEF IInv, QuietUntilUp, ble_gatt_add_db_completed
<1>2. adv' = [mode |-> "fast", timer |-> FALSE, requests |-> 0, cancelling |-> TRUE]
  BY <1>1 DEF ble_gatt_add_db_completed, ble_advertise, ZeroAdv
<1>3. UNCHANGED <<conn, connTimer, connectionCount, bond, nvm, radio, bounds, history>>
      /\ program' = "up"
  BY DEF ble_gatt_add_db_completed
<1>4. TypeOK'
  <2>1. adv' \in Adv
    BY <1>2 DEF Adv
  <2> QED BY <1>3, <2>1 DEF IInv, TypeOK, radio, bounds, history
<1>5. SlotIsLink' /\ QuietUntilUp'
  BY <1>3 DEF IInv, SlotIsLink, QuietUntilUp, radio
<1>6. AdvBooks' /\ TimerHasHost' /\ BugChecksAreLate'
  BY <1>1, <1>2, <1>3 DEF IInv, AdvBooks, TimerHasHost, BugChecksAreLate, history
<1> QED BY <1>4, <1>5, <1>6 DEF IInv

-----------------------------------------------------------------------------
(* Connections.                                                            *)

\* Once a request to connect is answered the device is silent.
LEMMA AnsweredFacts ==
  ASSUME IInv, Answerable
  PROVE  /\ ~conn.open /\ link = None /\ connectionCount = 0
         /\ Answered \in Adv /\ Answered.mode = "none" /\ Answered.requests = 0
<1>1. adv \in Adv /\ adv.requests > 0 /\ Up
  BY DEF IInv, TypeOK, Answerable
<1>2. adv.requests = 1
  BY <1>1 DEF Adv
<1>3. ~conn.open
  BY <1>2 DEF IInv, AdvBooks
<1>4. link = None /\ connectionCount = 0
  BY <1>3 DEF IInv, SlotIsLink
<1>5. adv.requests - 1 = 0
  BY <1>2
<1>6. Answered = [adv EXCEPT !.mode = "none", !.requests = 0]
  BY <1>5 DEF Answered
<1>7. 0 \in 0 .. 1
  OBVIOUS
<1>8. Answered \in Adv
  BY <1>1, <1>6, <1>7, Zenon DEF Adv
<1>9. Answered.mode = "none" /\ Answered.requests = 0
  BY <1>1, <1>6 DEF Adv
<1> QED BY <1>3, <1>4, <1>8, <1>9

LEMMA ConnectFailedStep == ASSUME IInv, ConnectFailed PROVE IInv'
<1>1. /\ Up /\ Answerable /\ adv' = Answered
      /\ UNCHANGED <<program, conn, connTimer, connectionCount, bond, nvm, radio, bounds,
                     history>>
  BY DEF ConnectFailed, Answerable
<1>2. adv' \in Adv /\ adv'.mode = "none" /\ adv'.requests = 0
  BY <1>1, AnsweredFacts
<1>3. TypeOK'
  BY <1>1, <1>2 DEF IInv, TypeOK, radio, bounds, history
<1>4. SlotIsLink' /\ QuietUntilUp'
  BY <1>1 DEF IInv, SlotIsLink, QuietUntilUp, Up, radio
<1>5. AdvBooks' /\ TimerHasHost' /\ BugChecksAreLate'
  BY <1>1, <1>2 DEF IInv, AdvBooks, TimerHasHost, BugChecksAreLate, history
<1> QED BY <1>3, <1>4, <1>5 DEF IInv

LEMMA ConnectStep ==
  ASSUME IInv, NEW a \in Addrs, ble_gatt_connect_completed(a)
  PROVE  IInv'
<1>1. Answerable /\ Up
  BY DEF ble_gatt_connect_completed, Answerable
<1>2. ~conn.open /\ link = None /\ connectionCount = 0
  BY <1>1, AnsweredFacts
<1>3. /\ conn' = Connection(a)
      /\ connectionCount' = connectionCount + 1
      /\ link' = a
      /\ connTimer' \in {connTimer, Started(connTimer)}
      /\ nvm' \in {nvm, bond}
      /\ AfterConnect
      /\ UNCHANGED <<program, bond, white, updating, pairing, boots, keys, given,
                     void, bugCheck>>
  BY <1>2 DEF ble_gatt_connect_completed
<1>4. adv' = Answered
  BY <1>2, <1>3 DEF AfterConnect, HasRoom
<1>5. adv' \in Adv /\ adv'.mode = "none" /\ adv'.requests = 0
  BY <1>1, <1>4, AnsweredFacts
<1>6. conn'.open /\ conn'.addr = a /\ conn' \in Slot
  <2>1. conn.updates \in Nat
    BY DEF IInv, TypeOK, Slot
  <2>2. (IF Refused(a) THEN conn.updates ELSE 0) \in Nat
    BY <2>1
  <2>3. Recalled(a) \in BOOLEAN
    BY DEF Recalled
  <2>4. conn' \in Slot
    BY <1>3, <2>2, <2>3 DEF Connection, Slot
  <2> QED BY <1>3, <2>4 DEF Connection
<1>7. TypeOK'
  <2>1. connTimer' \in {"off", "running", "looped"}
    BY <1>3 DEF IInv, TypeOK, Started
  <2>2. connectionCount' \in 0 .. 1
    BY <1>2, <1>3
  <2> QED BY <1>3, <1>5, <1>6, <2>1, <2>2 DEF IInv, TypeOK
<1>8. SlotIsLink'
  <2>1. link' # None
    BY <1>3, HostsAssumption
  <2> QED BY <1>2, <1>3, <1>6, <2>1 DEF SlotIsLink
<1>9. QuietUntilUp'
  BY <1>1, <1>3 DEF QuietUntilUp, Up
<1>10. AdvBooks' /\ TimerHasHost' /\ BugChecksAreLate'
  BY <1>3, <1>5, <1>6, HostsAssumption DEF IInv, AdvBooks, TimerHasHost, BugChecksAreLate
<1> QED BY <1>7, <1>8, <1>9, <1>10 DEF IInv

LEMMA ClosedStep == ASSUME IInv, ble_lm_connection_closed PROVE IInv'
<1>1. conn.open /\ Up /\ ~adv.cancelling
  BY DEF IInv, SlotIsLink, ble_lm_connection_closed
<1>2. CASE Hang
  BY <1>2, HangInvariant
<1>3. CASE ~Hang
  <2>1. /\ conn' = [conn EXCEPT !.open = FALSE]
        /\ connectionCount' = connectionCount - 1
        /\ adv' = ble_advertise(adv, "slow")
        /\ link' = None
        /\ UNCHANGED <<program, connTimer, bond, nvm, white, updating, pairing, bounds,
                       given, void, owed, bugCheck>>
    BY <1>1, <1>3 DEF ble_lm_connection_closed
  <2>2. adv \in Adv /\ Sound(adv) /\ adv.mode = "none" /\ adv.requests = 0
    BY <1>1 DEF IInv, TypeOK, AdvBooks, Sound
  <2>3. adv' \in Adv /\ Sound(adv')
    BY <2>1, <2>2, AdvertiseFacts
  <2>4. conn' \in Slot /\ ~conn'.open /\ conn'.addr = conn.addr
    BY <2>1 DEF IInv, TypeOK, Slot
  <2>5. connectionCount' = 0
    BY <1>1, <2>1 DEF IInv, SlotIsLink
  <2>6. TypeOK'
    BY <2>1, <2>3, <2>4, <2>5 DEF IInv, TypeOK, bounds
  <2>7. SlotIsLink' /\ QuietUntilUp'
    BY <1>1, <2>1, <2>4, <2>5 DEF SlotIsLink, QuietUntilUp, Up
  <2>8. AdvBooks' /\ TimerHasHost' /\ BugChecksAreLate'
    BY <2>1, <2>3, <2>4 DEF IInv, AdvBooks, TimerHasHost, BugChecksAreLate, Sound
  <2> QED BY <2>6, <2>7, <2>8 DEF IInv
<1> QED BY <1>2, <1>3

-----------------------------------------------------------------------------
(* Connection parameters.                                                  *)

\* Handlers that leave the advertisements, the program and the fields of the
\* slot that say whose it is as they are.
LEMMA BooksKept ==
  ASSUME IInv,
         UNCHANGED <<program, adv, connectionCount, link, bugCheck>>,
         conn'.open = conn.open, conn'.addr = conn.addr,
         connTimer' # "off" => connTimer # "off" \/ conn.open
  PROVE  SlotIsLink' /\ QuietUntilUp' /\ AdvBooks' /\ TimerHasHost' /\ BugChecksAreLate'
<1>1. SlotIsLink' /\ QuietUntilUp'
  BY DEF IInv, SlotIsLink, QuietUntilUp
<1>2. AdvBooks' /\ BugChecksAreLate'
  BY DEF IInv, AdvBooks, BugChecksAreLate, Up
<1>3. TimerHasHost'
  BY HostsAssumption DEF IInv, TimerHasHost, SlotIsLink
<1> QED BY <1>1, <1>2, <1>3

\* The slot after an update has been asked for.
LEMMA MoreUpdates ==
  ASSUME NEW c \in Slot, NEW d, d = [c EXCEPT !.updates = @ + 1]
  PROVE  d \in Slot /\ d.open = c.open /\ d.addr = c.addr
<1>1. c.updates + 1 \in Nat
  BY DEF Slot
<1> QED BY <1>1, Zenon DEF Slot

\* The reports of the link manager, which find the slot.
LEMMA ReportStep == ASSUME IInv, StoreParams PROVE UNCHANGED vars
  BY DEF IInv, SlotIsLink, StoreParams

LEMMA UpdateTimerStep == ASSUME IInv, ble_request_conn_param_update PROVE IInv'
<1>1. CASE link # conn.addr
  BY <1>1, LateBugCheck DEF ble_request_conn_param_update
<1>2. CASE link = conn.addr
  <2>1. /\ connTimer' = "off"
        /\ updating' = updating \cup {conn.addr}
        /\ conn' = [conn EXCEPT !.updates = @ + 1]
        /\ UNCHANGED <<program, adv, connectionCount, bond, nvm, link, white, pairing,
                       bounds, given, void, approved, owed, bugCheck>>
    BY <1>2 DEF ble_request_conn_param_update
  <2>2. conn' \in Slot /\ conn'.open = conn.open /\ conn'.addr = conn.addr
    BY <2>1, MoreUpdates DEF IInv, TypeOK
  <2>3. updating' \subseteq Addrs
    <3>1. CASE conn.open
      BY <1>2, <2>1, <3>1 DEF IInv, TypeOK, SlotIsLink
    <3>2. CASE ~conn.open
      BY <1>2, <3>2 DEF IInv, SlotIsLink, TimerHasHost, ble_request_conn_param_update
    <3> QED BY <3>1, <3>2
  <2>4. TypeOK'
    BY <2>1, <2>2, <2>3 DEF IInv, TypeOK, bounds
  <2> QED BY <2>1, <2>2, <2>4, BooksKept DEF IInv
<1> QED BY <1>1, <1>2

LEMMA UpdateIndicationStep == ASSUME IInv, ble_ls_conn_param_update_indication PROVE IInv'
<1>1. conn.open
  BY DEF IInv, SlotIsLink, ble_ls_conn_param_update_indication
<1>2. /\ connTimer' = Stopped(connTimer)
      /\ UNCHANGED <<program, adv, conn, connectionCount, bond, nvm, radio, bounds,
                     history>>
  BY <1>1 DEF ble_ls_conn_param_update_indication
<1>3. TypeOK'
  BY <1>2 DEF IInv, TypeOK, Stopped, radio, bounds, history
<1>4. SlotIsLink' /\ QuietUntilUp' /\ AdvBooks' /\ TimerHasHost' /\ BugChecksAreLate'
  BY <1>1, <1>2, BooksKept DEF radio, history
<1> QED BY <1>3, <1>4 DEF IInv

LEMMA UpdateCompletedStep ==
  ASSUME IInv, NEW a \in Addrs, NEW ok \in BOOLEAN,
         ble_ls_conn_param_update_completed(a, ok)
  PROVE  IInv'
<1>1. CASE ~(conn.open /\ conn.addr = a)
  <2>1. a # link
    BY <1>1, HostsAssumption DEF IInv, SlotIsLink
  <2>2. BugCheck(a)
    BY <1>1 DEF ble_ls_conn_param_update_completed
  <2> QED BY <2>1, <2>2, LateBugCheck
<1>2. CASE conn.open /\ conn.addr = a
  <2>1. /\ updating' = updating \ {a}
        /\ conn' = IF ok THEN conn ELSE [conn EXCEPT !.updates = @ + 1]
        /\ connTimer' \in {connTimer, Started(Stopped(connTimer))}
        /\ UNCHANGED <<program, adv, connectionCount, bond, nvm, link, white, pairing,
                       bounds, history>>
    BY <1>2 DEF ble_ls_conn_param_update_completed
  <2>2. conn' \in Slot /\ conn'.open = conn.open /\ conn'.addr = conn.addr
    <3>1. CASE ok
      BY <2>1, <3>1 DEF IInv, TypeOK
    <3>2. CASE ~ok
      BY <2>1, <3>2, MoreUpdates DEF IInv, TypeOK
    <3> QED BY <3>1, <3>2
  <2>3. connTimer' \in {"off", "running", "looped"}
    BY <2>1 DEF IInv, TypeOK, Started, Stopped
  <2>4. TypeOK'
    BY <2>1, <2>2, <2>3 DEF IInv, TypeOK, bounds, history
  <2>5. SlotIsLink' /\ QuietUntilUp' /\ AdvBooks' /\ TimerHasHost' /\ BugChecksAreLate'
    BY <1>2, <2>1, <2>2, BooksKept DEF history
  <2> QED BY <2>4, <2>5 DEF IInv
<1> QED BY <1>1, <1>2

-----------------------------------------------------------------------------
(* Boot, pairing and attributes.                                           *)

LEMMA BootStep == ASSUME IInv, Boot PROVE IInv'
<1>1. /\ program = "reset" /\ program' = "boot"
      /\ bond' = nvm
      /\ white' \subseteq {nvm.addr} \ {None}
      /\ UNCHANGED <<adv, conn, connTimer, connectionCount, nvm, link, updating, pairing,
                     connects, keys, given, void, approved, sent>>
      /\ bugCheck' = "none"
  BY DEF Boot
<1>2. TypeOK'
  <2>1. nvm.addr \in Addrs \cup {None}
    BY DEF IInv, TypeOK, Bond
  <2>2. white' \subseteq Addrs \cup {None}
    BY <1>1, <2>1
  <2> QED BY <1>1, <2>2 DEF IInv, TypeOK
<1>3. SlotIsLink' /\ QuietUntilUp'
  BY <1>1 DEF IInv, SlotIsLink, QuietUntilUp
<1>4. AdvBooks' /\ TimerHasHost' /\ BugChecksAreLate'
  BY <1>1 DEF IInv, AdvBooks, TimerHasHost, BugChecksAreLate, Up
<1> QED BY <1>2, <1>3, <1>4 DEF IInv

LEMMA PowerLossStep == ASSUME IInv, PowerLoss PROVE IInv'
  BY RestartInvariant DEF PowerLoss, IInv, BugChecksAreLate

\* The beginning of a pairing, and an end that is about no bond.
LEMMA PairingHostStep ==
  ASSUME IInv, pairing' \in {link, None},
         UNCHANGED <<program, data, link, white, updating, bounds, history>>
  PROVE  IInv'
<1>1. TypeOK'
  BY DEF IInv, TypeOK, data, bounds, history
<1>2. SlotIsLink' /\ QuietUntilUp' /\ AdvBooks' /\ TimerHasHost' /\ BugChecksAreLate'
  BY BooksKept DEF data, history
<1> QED BY <1>1, <1>2 DEF IInv

LEMMA KeysStep == ASSUME IInv, ble_sm_keys_indication PROVE IInv'
<1>1. conn.open /\ link \in Addrs
  BY DEF IInv, TypeOK, SlotIsLink, ble_sm_keys_indication
<1>owner. Owner[link] \in Hosts
  BY <1>1, HostsAssumption
<1>2. /\ keys < MaxKeys
      /\ bond' = [bond EXCEPT !.valid = TRUE, !.config = FALSE, !.div = keys + 1,
                              !.irk = IF link \in Resolvable THEN Owner[link] ELSE @]
      /\ conn' = [conn EXCEPT !.bonded = TRUE]
      /\ keys' = keys + 1
      /\ given' = [given EXCEPT ![Owner[link]] = keys + 1]
      /\ UNCHANGED <<program, adv, connTimer, connectionCount, nvm, radio, connects,
                     boots, void, approved, sent, bugCheck>>
  BY <1>1 DEF ble_sm_keys_indication
<1>3. keys + 1 \in 0 .. MaxKeys
  BY <1>2, BoundsAssumption DEF IInv, TypeOK
<1>4. conn' \in Slot /\ conn'.open = conn.open /\ conn'.addr = conn.addr
  BY <1>2 DEF IInv, TypeOK, Slot
<1>5. bond' \in Bond
  <2>1. bond \in Bond
    BY DEF IInv, TypeOK
  <2>2. CASE link \in Resolvable
    <3>1. bond' = [bond EXCEPT !.valid = TRUE, !.config = FALSE, !.div = keys + 1,
                               !.irk = Owner[link]]
      BY <1>2, <2>2
    <3> QED BY <1>owner, <1>3, <2>1, <3>1, Zenon DEF Bond
  <2>3. CASE link \notin Resolvable
    <3>1. bond' = [bond EXCEPT !.valid = TRUE, !.config = FALSE, !.div = keys + 1,
                               !.irk = bond.irk]
      BY <1>2, <2>3
    <3>2. bond.irk \in Hosts \cup {None}
      BY <2>1, Zenon DEF Bond
    <3> QED BY <1>3, <2>1, <3>1, <3>2, Zenon DEF Bond
  <2> QED BY <2>2, <2>3
<1>6. TypeOK'
  <2>1. given' \in [Hosts -> 0 .. MaxKeys]
    BY <1>owner, <1>2, <1>3 DEF IInv, TypeOK
  <2> QED BY <1>2, <1>3, <1>4, <1>5, <2>1 DEF IInv, TypeOK, radio
<1>7. SlotIsLink' /\ QuietUntilUp' /\ AdvBooks' /\ TimerHasHost' /\ BugChecksAreLate'
  BY <1>2, <1>4, BooksKept DEF radio
<1> QED BY <1>6, <1>7 DEF IInv

LEMMA PairingSucceedsStep == ASSUME IInv, PairingSucceeds PROVE IInv'
<1> DEFINE joined == white \cup ({pairing} \ Resolvable)
<1>1. CASE Cardinality(joined) > WhiteListSize
  BY <1>1, RestartInvariant DEF PairingSucceeds
<1>2. CASE ~(Cardinality(joined) > WhiteListSize)
  <2>1. /\ bond' = [bond EXCEPT !.addr = pairing]
        /\ nvm' = bond'
        /\ white' = joined
        /\ pairing' = None
        /\ UNCHANGED <<program, adv, conn, connTimer, connectionCount, link, updating,
                       bounds, history>>
    BY <1>2 DEF PairingSucceeds
  <2>2. bond' \in Bond /\ nvm' \in Bond
    <3>1. bond \in Bond /\ pairing \in Addrs \cup {None}
      BY DEF IInv, TypeOK
    <3> QED BY <2>1, <3>1, Zenon DEF Bond
  <2>3. TypeOK'
    BY <2>1, <2>2 DEF IInv, TypeOK, bounds, history
  <2>4. SlotIsLink' /\ QuietUntilUp' /\ AdvBooks' /\ TimerHasHost' /\ BugChecksAreLate'
    BY <2>1, BooksKept DEF history
  <2> QED BY <2>3, <2>4 DEF IInv
<1> QED BY <1>1, <1>2

LEMMA PairingFailsStep == ASSUME IInv, PairingFails PROVE IInv'
<1>1. CASE bond.addr \notin white
  BY <1>1, RestartInvariant DEF PairingFails
<1>2. CASE bond.addr \in white
  <2>1. /\ white' = white \ {bond.addr}
        /\ bond' = [bond EXCEPT !.valid = FALSE]
        /\ nvm' = bond'
        /\ conn' = [conn EXCEPT !.bonded = FALSE]
        /\ pairing' = None
        /\ UNCHANGED <<program, adv, connTimer, connectionCount, link, updating, bounds,
                       given, approved, sent, bugCheck>>
    BY <1>2 DEF PairingFails
  <2>2. bond' \in Bond /\ nvm' \in Bond
    BY <2>1 DEF IInv, TypeOK, Bond
  <2>3. conn' \in Slot /\ conn'.open = conn.open /\ conn'.addr = conn.addr
    BY <2>1 DEF IInv, TypeOK, Slot
  <2>4. TypeOK'
    BY <2>1, <2>2, <2>3 DEF IInv, TypeOK, bounds
  <2>5. SlotIsLink' /\ QuietUntilUp' /\ AdvBooks' /\ TimerHasHost' /\ BugChecksAreLate'
    BY <2>1, <2>3, BooksKept
  <2> QED BY <2>4, <2>5 DEF IInv
<1> QED BY <1>1, <1>2

LEMMA ApprovalStep == ASSUME IInv, ble_sm_diversifier_approval_indication PROVE IInv'
<1>1. conn.open
  BY DEF IInv, SlotIsLink, ble_sm_diversifier_approval_indication
<1>2. UNCHANGED <<program, data, radio, bounds, given, void, sent, owed, bugCheck>>
  BY <1>1 DEF ble_sm_diversifier_approval_indication
<1>3. TypeOK'
  BY <1>2 DEF IInv, TypeOK, data, radio, bounds
<1>4. SlotIsLink' /\ QuietUntilUp' /\ AdvBooks' /\ TimerHasHost' /\ BugChecksAreLate'
  BY <1>2, BooksKept DEF data, radio
<1> QED BY <1>3, <1>4 DEF IInv

LEMMA AccessStep ==
  ASSUME IInv, NEW config \in BOOLEAN, NEW status \in {0, 1},
         ble_gatt_access_indication(config, status)
  PROVE  IInv'
<1>1. conn.open
  BY DEF IInv, SlotIsLink, ble_gatt_access_indication
<1>2. /\ bond' \in {bond, [bond EXCEPT !.config = config]}
      /\ UNCHANGED <<program, adv, conn, connTimer, connectionCount, nvm, radio,
                     bounds, given, void, approved, sent, owed, bugCheck>>
  BY <1>1 DEF ble_gatt_access_indication
<1>3. bond' \in Bond
  <2>1. bond \in Bond
    BY DEF IInv, TypeOK
  <2>2. [bond EXCEPT !.config = config] \in Bond
    BY <2>1, Zenon DEF Bond
  <2> QED BY <1>2, <2>1, <2>2
<1>4. TypeOK'
  BY <1>2, <1>3 DEF IInv, TypeOK, radio, bounds
<1>5. SlotIsLink' /\ QuietUntilUp' /\ AdvBooks' /\ TimerHasHost' /\ BugChecksAreLate'
  BY <1>2, BooksKept DEF radio
<1> QED BY <1>4, <1>5 DEF IInv

-----------------------------------------------------------------------------
(* The invariant, and what follows from it.                                *)

LEMMA StepInvariant == ASSUME IInv, [Next]_vars PROVE IInv'
<1>1. ASSUME UNCHANGED vars PROVE IInv'
  <2>1. UNCHANGED <<program, data, radio, bounds, history>>
    BY <1>1 DEF vars
  <2>2. TypeOK'
    BY <2>1 DEF IInv, TypeOK, data, radio, bounds, history
  <2>3. SlotIsLink' /\ QuietUntilUp' /\ AdvBooks' /\ TimerHasHost' /\ BugChecksAreLate'
    BY <2>1, BooksKept DEF data, radio, history
  <2> QED BY <2>2, <2>3 DEF IInv
<1>2. CASE Boot
  BY <1>2, BootStep
<1>3. CASE ble_gatt_add_db_completed
  BY <1>3, DatabaseStep
<1>4. CASE PowerLoss
  BY <1>4, PowerLossStep
<1>5. CASE ble_gatt_handle_ad_timer
  BY <1>5, AdTimerStep
<1>6. CASE ble_gatt_connect_cancelled
  BY <1>6, CancelledStep
<1>7. CASE ConnectFailed
  BY <1>7, ConnectFailedStep
<1>8. CASE \E a \in Addrs : ble_gatt_connect_completed(a)
  BY <1>8, ConnectStep
<1>9. CASE ble_lm_connection_closed
  BY <1>9, ClosedStep
<1>10. CASE ble_request_conn_param_update
  BY <1>10, UpdateTimerStep
<1>11. CASE TriggerForever
  BY <1>11, HangInvariant DEF TriggerForever
<1>12. CASE ble_ls_conn_param_update_indication
  BY <1>12, UpdateIndicationStep
<1>13. CASE \E a \in Addrs, ok \in BOOLEAN : ble_ls_conn_param_update_completed(a, ok)
  BY <1>13, UpdateCompletedStep
<1>14. CASE PairingStarts \/ PairingIgnored
  BY <1>14, PairingHostStep DEF PairingStarts, PairingIgnored
<1>15. CASE ble_sm_keys_indication
  BY <1>15, KeysStep
<1>16. CASE PairingSucceeds
  BY <1>16, PairingSucceedsStep
<1>17. CASE PairingFails
  BY <1>17, PairingFailsStep
<1>18. CASE ble_sm_diversifier_approval_indication
  BY <1>18, ApprovalStep
<1>19. CASE \E config \in BOOLEAN, status \in {0, 1} :
              ble_gatt_access_indication(config, status)
  BY <1>19, AccessStep
<1>20. CASE ble_lm_connection_completed \/ ble_lm_connection_updated
  BY <1>1, <1>20, ReportStep DEF ble_lm_connection_completed, ble_lm_connection_updated
<1> QED BY <1>1, <1>2, <1>3, <1>4, <1>5, <1>6, <1>7, <1>8, <1>9, <1>10, <1>11, <1>12,
           <1>13, <1>14, <1>15, <1>16, <1>17, <1>18, <1>19, <1>20 DEF Next

\* The inductive invariant: types, the books about connection, timer and
\* advertising, and whose events may lead to a bug check.
THEOREM Invariance == Spec => []IInv
<1>1. Init => IInv
  BY InitInvariant
<1>2. IInv /\ [Next]_vars => IInv'
  BY StepInvariant
<1> QED BY <1>1, <1>2, PTL DEF Spec

\* Every variable of the baseband's program and radio keeps its type.
THEOREM TypeCorrect == Spec => []TypeOK
<1>1. IInv => TypeOK
  BY DEF IInv
<1> QED BY <1>1, Invariance, PTL

\* The slot of ble_connection_t and connectionCount say what the radio does.
THEOREM SlotIsTheLink == Spec => []SlotIsLink
<1>1. IInv => SlotIsLink
  BY DEF IInv
<1> QED BY <1>1, Invariance, PTL

\* advMode says whether the radio advertises, for every order of timers,
\* cancellations, connections and disconnections.
THEOREM ModeOfAdvertising == Spec => []AdvModeIsTrue
<1>1. IInv => AdvModeIsTrue
  <2> SUFFICES ASSUME IInv PROVE AdvModeIsTrue
    OBVIOUS
  <2>1. adv.requests \in 0 .. 1
    BY DEF IInv, TypeOK, Adv
  <2> QED BY <2>1 DEF IInv, AdvBooks, AdvModeIsTrue
<1> QED BY <1>1, Invariance, PTL

\* No event of an open connection, the reports of the link manager included,
\* ends in a bug check, but for a refusal by the white list.
THEOREM OpenConnectionsLive == Spec => []BugChecksAreLate
<1>1. IInv => BugChecksAreLate
  BY DEF IInv
<1> QED BY <1>1, Invariance, PTL
==============================================================================
