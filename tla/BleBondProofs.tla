---------------------------- MODULE BleBondProofs ----------------------------
(***************************************************************************)
(* Proofs about the requests, keys and bonds of Ble, which rest on the     *)
(* invariant of BleProofs: requests are bounded, a saved bond has a host,  *)
(* discarded keys are never approved, and the news that a bonded host is   *)
(* owed reach it.  For any hosts and bounds.                               *)
(***************************************************************************)
EXTENDS BleProofs

-----------------------------------------------------------------------------
(* The inductive invariant.                                                *)

\* The requests of this connection are among those that connUpdateReqNum has
\* counted, and the timer runs only if one more may follow.
RequestBooks ==
  /\ sent \in Nat /\ sent =< conn.updates
  /\ RequestsBounded
  /\ connTimer = "running" => sent < MaxRequests

\* A valid bond, in the RAM or in the NVM, has keys that were distributed and
\* not discarded, and a connection is bonded only by a valid bond.
KeyBooks ==
  /\ void \subseteq 1 .. keys
  /\ \A b \in {bond, nvm} : b.valid => b.div \in 1 .. keys /\ b.div \notin void
  /\ conn.bonded => bond.valid
  /\ program = "reset" => ~conn.bonded

\* The key of the bond does not resolve the address in it.
Unresolved(b) == b.addr \in Resolvable /\ b.irk # Owner[b.addr]

\* While news are owed, the bond says so or its host is refused.
OwedBooks ==
  owed => /\ \A b \in {bond, nvm} : b.config \/ Unresolved(b)
          /\ conn.open /\ conn.bonded => bond.addr = conn.addr /\ Unresolved(bond)

Books == RequestBooks /\ SavedBondHasHost /\ KeyBooks /\ OwedBooks

-----------------------------------------------------------------------------
(* What the steps do to the bond, the slot and their history.              *)

books == <<conn, connTimer, bond, nvm, keys, void, approved, sent, owed>>

\* Steps that have nothing to do with them.
Aside == UNCHANGED books /\ (program' = "reset" => program = "reset")

Resets ==
  /\ conn' = Closed /\ connTimer' = "off" /\ sent' = 0 /\ approved' = 0
  /\ UNCHANGED <<bond, nvm, keys, void, owed>>

Boots ==
  /\ program = "reset" /\ program' = "boot" /\ bond' = nvm
  /\ owed' => owed \/ (nvm.valid /\ nvm.config)
  /\ UNCHANGED <<conn, connTimer, nvm, keys, void, approved, sent>>

Connects(a) ==
  /\ program' = "up" /\ conn' = Connection(a) /\ sent' = 0 /\ approved' = 0
  /\ connTimer' \in {connTimer, Started(connTimer)}
  /\ IF Refused(a) THEN UNCHANGED <<nvm, owed>>
     ELSE /\ nvm' = IF Recalled(a) THEN bond ELSE nvm
          /\ owed' <=> (owed /\ ~Notified(a))
  /\ UNCHANGED <<bond, keys, void>>

Closes ==
  /\ conn' = [conn EXCEPT !.open = FALSE] /\ program' = program
  /\ sent' = 0 /\ approved' = 0
  /\ UNCHANGED <<connTimer, bond, nvm, keys, void, owed>>

Requests ==
  /\ connTimer = "running" /\ connTimer' = "off"
  /\ conn' = [conn EXCEPT !.updates = @ + 1] /\ sent' = sent + 1 /\ program' = program
  /\ UNCHANGED <<bond, nvm, keys, void, approved, owed>>

Confirms ==
  /\ conn' \in {conn, [conn EXCEPT !.updates = @ + 1]}
  /\ \/ connTimer' \in {connTimer, Stopped(connTimer)}
     \/ conn.updates < MaxRequests /\ connTimer' = Started(Stopped(connTimer))
  /\ program' = program
  /\ UNCHANGED <<bond, nvm, keys, void, approved, sent, owed>>

LEMMA StepKinds ==
  ASSUME IInv, [Next]_vars
  PROVE  \/ Aside \/ Resets \/ Boots \/ (\E a \in Addrs : Connects(a)) \/ Closes
         \/ Requests \/ Confirms
         \/ ble_sm_keys_indication /\ conn.open
         \/ PairingSucceeds /\ ~Restart
         \/ PairingFails /\ ~Restart
         \/ ble_sm_diversifier_approval_indication /\ conn.open
         \/ \E config \in BOOLEAN, status \in {0, 1} :
              ble_gatt_access_indication(config, status) /\ conn.open
<1>link. (conn.open <=> link # None) /\ HostsAssumption
  BY HostsAssumption DEF IInv, SlotIsLink
<1>restart. Restart => Resets
  BY DEF Restart, Resets
<1>late. \A a : BugCheck(a) => Resets
  BY <1>restart DEF BugCheck
<1>hang. Hang => Aside
  BY DEF Hang, Aside, books, data, radio, bounds, history
<1>advertise. \A a, mode : Advertise(a, mode) => Aside
  BY <1>hang DEF Advertise, Aside, books, radio, bounds, history
<1>reports. ble_lm_connection_completed \/ ble_lm_connection_updated => UNCHANGED vars
  BY ReportStep DEF ble_lm_connection_completed, ble_lm_connection_updated
<1>1. CASE UNCHANGED vars \/ ConnectFailed \/ PairingStarts \/ PairingIgnored
           \/ ble_gatt_add_db_completed
           \/ ble_lm_connection_completed \/ ble_lm_connection_updated
  BY <1>1, <1>reports DEF vars, ConnectFailed, PairingStarts, PairingIgnored, Aside, books,
              ble_gatt_add_db_completed, data, radio, bounds, history
<1>2. CASE Boot
  BY <1>2 DEF Boot, Boots
<1>3. CASE PowerLoss
  BY <1>3, <1>restart DEF PowerLoss
<1>4. CASE ble_gatt_handle_ad_timer \/ ble_gatt_connect_cancelled
  BY <1>4, <1>advertise DEF ble_gatt_handle_ad_timer, ble_gatt_connect_cancelled
<1>5. CASE \E a \in Addrs : ble_gatt_connect_completed(a)
  BY <1>5, <1>restart DEF ble_gatt_connect_completed, Connects, Answerable, Up
<1>6. CASE ble_lm_connection_closed
  <2>1. CASE BugCheck(link) \/ Hang
    BY <2>1, <1>hang, <1>late
  <2>2. CASE ~(BugCheck(link) \/ Hang)
    BY <1>6, <2>2 DEF ble_lm_connection_closed, Closes, bounds, history
  <2> QED BY <2>1, <2>2
<1>7. CASE ble_request_conn_param_update
  BY <1>7, <1>late DEF ble_request_conn_param_update, Requests, bounds
<1>8. CASE TriggerForever
  BY <1>8, <1>hang DEF TriggerForever
<1>9. CASE ble_ls_conn_param_update_indication
  BY <1>9, <1>late DEF ble_ls_conn_param_update_indication, Confirms, bounds, history
<1>10. CASE \E a \in Addrs, ok \in BOOLEAN : ble_ls_conn_param_update_completed(a, ok)
  BY <1>10, <1>late DEF ble_ls_conn_param_update_completed, Confirms, MayRetry, bounds,
                        history
<1>11. CASE ble_sm_keys_indication
  BY <1>11, <1>link DEF ble_sm_keys_indication
<1>12. CASE PairingSucceeds \/ PairingFails
  BY <1>12, <1>restart
<1>13. CASE ble_sm_diversifier_approval_indication
  BY <1>13, <1>link DEF ble_sm_diversifier_approval_indication
<1>14. CASE \E config \in BOOLEAN, status \in {0, 1} :
              ble_gatt_access_indication(config, status)
  BY <1>14, <1>link DEF ble_gatt_access_indication
<1> QED BY <1>1, <1>2, <1>3, <1>4, <1>5, <1>6, <1>7, <1>8, <1>9, <1>10, <1>11, <1>12,
           <1>13, <1>14 DEF Next

\* The fields of the slot when one of them is set.
LEMMA SlotFacts ==
  ASSUME NEW c \in Slot, NEW b \in BOOLEAN
  PROVE  /\ LET d == [c EXCEPT !.open = b]
            IN  d.open = b /\ d.addr = c.addr /\ (d.bonded <=> c.bonded) /\ d.updates = c.updates
         /\ LET d == [c EXCEPT !.bonded = b]
            IN  (d.open <=> c.open) /\ d.addr = c.addr /\ d.bonded = b /\ d.updates = c.updates
         /\ LET d == [c EXCEPT !.updates = @ + 1]
            IN  /\ (d.open <=> c.open) /\ d.addr = c.addr /\ (d.bonded <=> c.bonded)
                /\ d.updates = c.updates + 1
BY Zenon DEF Slot

\* The slot after each kind of step, as far as requests are concerned.
LEMMA RequestBooksKept == ASSUME IInv, Books, [Next]_vars PROVE RequestBooks'
<1>0. /\ RequestBooks /\ MaxRequests \in Nat \ {0} /\ conn \in Slot
      /\ conn.updates \in Nat
  BY BoundsAssumption DEF Books, IInv, TypeOK, Slot
<1>1. CASE UNCHANGED <<conn, connTimer, sent>>
  BY <1>0, <1>1 DEF RequestBooks, RequestsBounded
<1>2. CASE Resets
  BY <1>0, <1>2 DEF Resets, Closed, RequestBooks, RequestsBounded
<1>3. CASE \E a \in Addrs : Connects(a)
  <2>1. PICK a \in Addrs : Connects(a)
    BY <1>3
  <2>2. conn'.updates \in Nat /\ sent' = 0
    BY <1>0, <2>1 DEF Connects, Connection
  <2> QED BY <1>0, <2>2 DEF RequestBooks, RequestsBounded
<1>4. CASE Closes
  <2>1. conn'.updates = conn.updates /\ connTimer' = connTimer /\ sent' = 0
    BY <1>0, <1>4, SlotFacts DEF Closes
  <2> QED BY <1>0, <2>1 DEF RequestBooks, RequestsBounded
<1>5. CASE Requests
  <2>1. /\ conn'.updates = conn.updates + 1 /\ sent' = sent + 1
        /\ connTimer = "running" /\ connTimer' = "off"
    BY <1>0, <1>5, SlotFacts DEF Requests
  <2> QED BY <1>0, <2>1 DEF RequestBooks, RequestsBounded
<1>6. CASE Confirms
  <2>1. (conn'.updates = conn.updates \/ conn'.updates = conn.updates + 1) /\ sent' = sent
    <3>1. sent' = sent
      BY <1>6 DEF Confirms
    <3>2. CASE conn' = conn
      BY <3>1, <3>2
    <3>3. CASE conn' = [conn EXCEPT !.updates = @ + 1]
      BY <1>0, <3>1, <3>3, SlotFacts
    <3> QED BY <1>6, <3>2, <3>3 DEF Confirms
  <2>2. connTimer' = "running" => connTimer = "running" \/ conn.updates < MaxRequests
    BY <1>6 DEF Confirms, Stopped
  <2> QED BY <1>0, <2>1, <2>2 DEF RequestBooks, RequestsBounded
<1>7. CASE ble_sm_keys_indication /\ conn.open
  <2>1. conn' = [conn EXCEPT !.bonded = TRUE] /\ UNCHANGED <<connTimer, sent>>
    BY <1>7 DEF ble_sm_keys_indication
  <2>2. conn'.updates = conn.updates
    BY <1>0, <2>1, SlotFacts
  <2> QED BY <1>0, <2>1, <2>2 DEF RequestBooks, RequestsBounded
<1>8. CASE PairingFails /\ ~Restart
  <2>1. conn' = [conn EXCEPT !.bonded = FALSE] /\ UNCHANGED <<connTimer, sent>>
    BY <1>8 DEF PairingFails
  <2>2. conn'.updates = conn.updates
    BY <1>0, <2>1, SlotFacts
  <2> QED BY <1>0, <2>1, <2>2 DEF RequestBooks, RequestsBounded
<1> QED BY <1>1, <1>2, <1>3, <1>4, <1>5, <1>6, <1>7, <1>8, StepKinds
        DEF Aside, books, Boots, PairingSucceeds, history,
            ble_sm_diversifier_approval_indication, ble_gatt_access_indication, data

LEMMA SavedBondKept == ASSUME IInv, Books, [Next]_vars PROVE SavedBondHasHost'
<1>0. SavedBondHasHost /\ bond \in Bond
  BY DEF Books, IInv, TypeOK
<1>1. CASE nvm' = nvm
  BY <1>0, <1>1 DEF SavedBondHasHost
<1>2. CASE \E a \in Addrs : Connects(a)
  <2>1. PICK a \in Addrs : Connects(a)
    BY <1>2
  <2>2. nvm' = nvm \/ (nvm' = bond /\ bond.addr = a)
    BY <2>1 DEF Connects, Recalled
  <2> QED BY <1>0, <2>2, HostsAssumption DEF SavedBondHasHost
<1>3. CASE PairingSucceeds /\ ~Restart
  <2>1. nvm' = [bond EXCEPT !.addr = pairing] /\ pairing # None
    BY <1>3 DEF PairingSucceeds
  <2> QED BY <1>0, <2>1 DEF SavedBondHasHost, Bond
<1>4. CASE PairingFails /\ ~Restart
  <2>1. nvm' = [bond EXCEPT !.valid = FALSE]
    BY <1>4 DEF PairingFails
  <2> QED BY <1>0, <2>1 DEF SavedBondHasHost, Bond
<1> QED BY <1>1, <1>2, <1>3, <1>4, StepKinds
        DEF Aside, books, Resets, Boots, Closes, Requests, Confirms, ble_sm_keys_indication,
            ble_sm_diversifier_approval_indication, ble_gatt_access_indication, data

-----------------------------------------------------------------------------
(* Keys.                                                                   *)

\* The fields of a bond when some of them are set.
LEMMA BondFacts ==
  ASSUME NEW b \in Bond, NEW a \in Addrs \cup {None}, NEW f \in BOOLEAN
  PROVE  /\ LET c == [b EXCEPT !.valid = f]
            IN  /\ c.valid = f /\ c.addr = b.addr /\ c.irk = b.irk /\ c.div = b.div
                /\ (c.config <=> b.config)
         /\ LET c == [b EXCEPT !.addr = a]
            IN  /\ (c.valid <=> b.valid) /\ c.addr = a /\ c.irk = b.irk /\ c.div = b.div
                /\ (c.config <=> b.config)
         /\ LET c == [b EXCEPT !.config = f]
            IN  /\ (c.valid <=> b.valid) /\ c.addr = b.addr /\ c.irk = b.irk
                /\ c.div = b.div /\ c.config = f
BY Zenon DEF Bond

LEMMA KeyBooksKept == ASSUME IInv, Books, [Next]_vars PROVE KeyBooks'
<1>0. /\ KeyBooks /\ keys \in Nat /\ conn \in Slot /\ bond \in Bond /\ nvm \in Bond
  BY DEF Books, IInv, TypeOK
<1>books. /\ void \subseteq 1 .. keys
          /\ bond.valid => bond.div \in 1 .. keys /\ bond.div \notin void
          /\ nvm.valid => nvm.div \in 1 .. keys /\ nvm.div \notin void
          /\ conn.bonded => bond.valid
          /\ program = "reset" => ~conn.bonded
  BY <1>0 DEF KeyBooks
\* It is enough to look at the bond, its copy and the slot one by one.
<1> DEFINE Kept == /\ keys' = keys /\ void' = void
                   /\ \/ (bond'.valid => bond.valid) /\ bond'.div = bond.div
                      \/ (bond'.valid => nvm.valid) /\ bond'.div = nvm.div
                   /\ \/ (nvm'.valid => bond.valid) /\ nvm'.div = bond.div
                      \/ (nvm'.valid => nvm.valid) /\ nvm'.div = nvm.div
                   /\ conn'.bonded => bond'.valid
                   /\ program' = "reset" => ~conn'.bonded
<1>kept. Kept => KeyBooks'
  BY <1>books, Zenon DEF KeyBooks
<1>1. CASE Aside \/ Closes \/ Requests \/ Confirms
  <2>1. /\ UNCHANGED <<keys, void, bond, nvm>> /\ (program' = "reset" => program = "reset")
    BY <1>1 DEF Aside, books, Closes, Requests, Confirms
  <2>2. conn'.bonded <=> conn.bonded
    <3>1. CASE conn' = conn
      BY <3>1
    <3>2. CASE conn' = [conn EXCEPT !.open = FALSE]
      BY <1>0, <3>2, SlotFacts
    <3>3. CASE conn' = [conn EXCEPT !.updates = @ + 1]
      BY <1>0, <3>3, SlotFacts
    <3> QED BY <1>1, <3>1, <3>2, <3>3 DEF Aside, books, Closes, Requests, Confirms
  <2>3. Kept
    BY <1>books, <2>1, <2>2
  <2> QED BY <1>kept, <2>3
<1>2. CASE Resets
  <2>1. Kept
    BY <1>2 DEF Resets, Closed
  <2> QED BY <1>kept, <2>1
<1>3. CASE Boots
  <2>1. Kept
    BY <1>3, <1>books DEF Boots
  <2> QED BY <1>kept, <2>1
<1>4. CASE \E a \in Addrs : Connects(a)
  <2>1. PICK a \in Addrs : Connects(a)
    BY <1>4
  <2>2. /\ UNCHANGED <<keys, void, bond>> /\ program' = "up" /\ conn' = Connection(a)
        /\ nvm' = nvm \/ nvm' = bond
    BY <2>1 DEF Connects
  <2>3. conn'.bonded <=> bond.valid /\ bond.addr = a
    BY <2>2, Zenon DEF Connection, Recalled
  <2>4. Kept
    BY <2>2, <2>3
  <2> QED BY <1>kept, <2>4
<1>5. CASE ble_sm_keys_indication /\ conn.open
  <2>1. /\ keys' = keys + 1 /\ void' = void /\ nvm' = nvm /\ program' = "up"
        /\ conn' = [conn EXCEPT !.bonded = TRUE] /\ keys < MaxKeys
        /\ bond' = [bond EXCEPT !.valid = TRUE, !.config = FALSE, !.div = keys + 1,
                                !.irk = IF link \in Resolvable THEN Owner[link] ELSE @]
    BY <1>5 DEF ble_sm_keys_indication, Up
  <2>2. bond'.valid /\ bond'.div = keys + 1
    BY <1>0, <2>1 DEF Bond
  <2>3. bond'.div \in 1 .. keys' /\ bond'.div \notin void /\ void \subseteq 1 .. keys'
    BY <1>0, <1>books, <2>1, <2>2
  <2>4. nvm.valid => nvm.div \in 1 .. keys'
    BY <1>0, <1>books, <2>1
  <2> QED BY <1>books, <2>1, <2>2, <2>3, <2>4, Zenon DEF KeyBooks
<1>6. CASE PairingSucceeds /\ ~Restart
  <2>1. /\ UNCHANGED <<keys, void, conn>> /\ program' = "up" /\ nvm' = bond'
        /\ bond' = [bond EXCEPT !.addr = pairing]
    BY <1>6 DEF PairingSucceeds, Up, bounds, history
  <2>2. pairing \in Addrs \cup {None}
    BY DEF IInv, TypeOK
  <2>3. (bond'.valid <=> bond.valid) /\ bond'.div = bond.div
    BY <1>0, <2>1, <2>2, BondFacts
  <2>4. Kept
    BY <1>books, <2>1, <2>3
  <2> QED BY <1>kept, <2>4
<1>7. CASE PairingFails /\ ~Restart
  <2>1. /\ keys' = keys /\ void' = void \cup {bond.div} /\ conn.bonded /\ nvm' = bond'
        /\ bond' = [bond EXCEPT !.valid = FALSE]
        /\ conn' = [conn EXCEPT !.bonded = FALSE]
    BY <1>7 DEF PairingFails, Concerned, bounds
  <2>2. ~bond'.valid /\ ~conn'.bonded
    BY <1>0, <2>1, BondFacts, SlotFacts
  <2>3. void' \subseteq 1 .. keys'
    BY <1>books, <2>1
  <2> QED BY <2>1, <2>2, <2>3 DEF KeyBooks
<1>8. CASE ble_sm_diversifier_approval_indication /\ conn.open
  <2>1. UNCHANGED <<keys, void, bond, nvm, conn>> /\ program' = "up"
    BY <1>8 DEF ble_sm_diversifier_approval_indication, data, bounds, Up
  <2>2. Kept
    BY <1>books, <2>1
  <2> QED BY <1>kept, <2>2
<1>9. CASE \E config \in BOOLEAN, status \in {0, 1} :
              ble_gatt_access_indication(config, status) /\ conn.open
  <2>1. PICK config \in BOOLEAN :
          bond' = bond \/ bond' = [bond EXCEPT !.config = config]
    BY <1>9 DEF ble_gatt_access_indication
  <2>2. (bond'.valid <=> bond.valid) /\ bond'.div = bond.div
    <3>1. CASE bond' = [bond EXCEPT !.config = config]
      BY <1>0, <3>1, BondFacts
    <3> QED BY <2>1, <3>1
  <2>3. UNCHANGED <<keys, void, conn, nvm, program>>
    BY <1>9 DEF ble_gatt_access_indication, bounds
  <2>4. Kept
    BY <1>books, <2>2, <2>3
  <2> QED BY <1>kept, <2>4
<1> QED BY <1>1, <1>2, <1>3, <1>4, <1>5, <1>6, <1>7, <1>8, <1>9, StepKinds

-----------------------------------------------------------------------------
(* News.                                                                   *)

LEMMA OwedBooksKept == ASSUME IInv, Books, [Next]_vars PROVE OwedBooks'
<1>0. /\ conn \in Slot /\ bond \in Bond /\ nvm \in Bond /\ pairing \in Addrs \cup {None}
      /\ QuietUntilUp
  BY DEF IInv, TypeOK
<1>books. owed => /\ bond.config \/ Unresolved(bond)
                  /\ nvm.config \/ Unresolved(nvm)
                  /\ conn.open /\ conn.bonded => bond.addr = conn.addr /\ Unresolved(bond)
  BY DEF Books, OwedBooks
<1> DEFINE Kept == owed' => /\ bond'.config \/ Unresolved(bond')
                            /\ nvm'.config \/ Unresolved(nvm')
                            /\ conn'.open /\ conn'.bonded
                                 => bond'.addr = conn'.addr /\ Unresolved(bond')
<1>kept. Kept => OwedBooks'
  BY Zenon DEF OwedBooks
<1>1. CASE Aside \/ Closes \/ Requests \/ Confirms
  <2>1. UNCHANGED <<bond, nvm, owed>>
    BY <1>1 DEF Aside, books, Closes, Requests, Confirms
  <2>2. (conn'.open => conn.open) /\ (conn'.bonded <=> conn.bonded) /\ conn'.addr = conn.addr
    <3>1. CASE conn' = conn
      BY <3>1
    <3>2. CASE conn' = [conn EXCEPT !.open = FALSE]
      BY <1>0, <3>2, SlotFacts
    <3>3. CASE conn' = [conn EXCEPT !.updates = @ + 1]
      BY <1>0, <3>3, SlotFacts
    <3> QED BY <1>1, <3>1, <3>2, <3>3 DEF Aside, books, Closes, Requests, Confirms
  <2>3. Kept
    BY <1>books, <2>1, <2>2
  <2> QED BY <1>kept, <2>3
<1>2. CASE Resets
  <2>1. UNCHANGED <<bond, nvm, owed>> /\ ~conn'.open
    BY <1>2 DEF Resets, Closed
  <2>2. Kept
    BY <1>books, <2>1
  <2> QED BY <1>kept, <2>2
<1>3. CASE Boots
  <2>1. /\ bond' = nvm /\ nvm' = nvm /\ conn' = conn /\ ~conn.open
        /\ owed' => owed \/ nvm.config
    BY <1>0, <1>3 DEF Boots, QuietUntilUp
  <2>2. Kept
    BY <1>books, <2>1
  <2> QED BY <1>kept, <2>2
<1>4. CASE \E a \in Addrs : Connects(a)
  <2>1. PICK a \in Addrs : Connects(a)
    BY <1>4
  <2>2. /\ conn'.addr = a /\ (conn'.bonded <=> Recalled(a)) /\ bond' = bond
        /\ (Recalled(a) <=> bond.valid /\ bond.addr = a)
    BY <2>1, Zenon DEF Connects, Connection, Recalled
  <2>3. CASE Refused(a)
    <3>1. UNCHANGED <<nvm, owed>> /\ Recalled(a) /\ a \in Resolvable /\ bond.irk # Owner[a]
      BY <2>1, <2>3 DEF Connects, Refused
    <3>2. Kept
      BY <1>books, <2>2, <3>1 DEF Unresolved
    <3> QED BY <1>kept, <3>2
  <2>4. CASE ~Refused(a)
    <3>1. owed' => owed /\ ~Recalled(a)
      <4>1. owed' => owed /\ ~(Recalled(a) /\ bond.config)
        BY <2>1, <2>4 DEF Connects, Notified
      <4>2. owed /\ Recalled(a) => bond.config
        BY <1>books, <2>2, <2>4 DEF Refused, Unresolved
      <4> QED BY <4>1, <4>2
    <3>2. ~Recalled(a) => nvm' = nvm
      BY <2>1, <2>4 DEF Connects
    <3>3. Kept
      BY <1>books, <2>2, <3>1, <3>2
    <3> QED BY <1>kept, <3>3
  <2> QED BY <2>3, <2>4
<1>5. CASE ble_sm_keys_indication /\ conn.open
  BY <1>5 DEF ble_sm_keys_indication, OwedBooks
<1>6. CASE PairingSucceeds /\ ~Restart
  <2>1. /\ UNCHANGED <<conn, owed>> /\ nvm' = bond' /\ bond' = [bond EXCEPT !.addr = pairing]
        /\ conn.open /\ conn.addr = pairing /\ conn.bonded
    BY <1>6 DEF PairingSucceeds, Concerned, history
  <2>2. /\ bond'.addr = pairing /\ bond'.irk = bond.irk /\ (bond'.config <=> bond.config)
    BY <1>0, <2>1, BondFacts
  <2>3. Kept
    BY <1>books, <2>1, <2>2 DEF Unresolved
  <2> QED BY <1>kept, <2>3
<1>7. CASE PairingFails /\ ~Restart
  BY <1>7 DEF PairingFails, OwedBooks
<1>8. CASE ble_sm_diversifier_approval_indication /\ conn.open
  <2>1. UNCHANGED <<owed, bond, nvm, conn>>
    BY <1>8 DEF ble_sm_diversifier_approval_indication, data
  <2>2. Kept
    BY <1>books, <2>1
  <2> QED BY <1>kept, <2>2
<1>9. CASE \E config \in BOOLEAN, status \in {0, 1} :
              ble_gatt_access_indication(config, status) /\ conn.open
  <2>1. PICK config \in BOOLEAN :
          bond' = bond \/ (conn.bonded /\ bond' = [bond EXCEPT !.config = config])
    BY <1>9 DEF ble_gatt_access_indication
  <2>2. UNCHANGED <<conn, nvm, owed>> /\ conn.open
    BY <1>9 DEF ble_gatt_access_indication
  <2>3. CASE bond' = bond
    <3>1. Kept
      BY <1>books, <2>2, <2>3
    <3> QED BY <1>kept, <3>1
  <2>4. CASE conn.bonded /\ bond' = [bond EXCEPT !.config = config]
    <3>1. bond'.addr = bond.addr /\ bond'.irk = bond.irk
      BY <1>0, <2>4, BondFacts
    <3>2. Kept
      BY <1>books, <2>2, <2>4, <3>1 DEF Unresolved
    <3> QED BY <1>kept, <3>2
  <2> QED BY <2>1, <2>3, <2>4
<1> QED BY <1>1, <1>2, <1>3, <1>4, <1>5, <1>6, <1>7, <1>8, <1>9, StepKinds

-----------------------------------------------------------------------------
(* The theorems.                                                           *)

LEMMA InitBooks == ASSUME Init PROVE Books
<1>1. /\ conn = Closed /\ connTimer = "off" /\ sent = 0 /\ void = {} /\ owed = FALSE
      /\ ~bond.valid /\ nvm = bond
  BY DEF Init
<1>2. RequestBooks
  BY <1>1, BoundsAssumption DEF RequestBooks, RequestsBounded, Closed
<1>3. KeyBooks
  BY <1>1, Zenon DEF KeyBooks, Closed
<1> QED BY <1>1, <1>2, <1>3 DEF Books, SavedBondHasHost, OwedBooks

\* The books about requests, keys, bonds and news, which the invariant of
\* BleProofs makes inductive.
THEOREM BooksInvariance == Spec => []Books
<1>1. Init => Books
  BY InitBooks
<1>2. IInv /\ Books /\ [Next]_vars => Books'
  BY RequestBooksKept, SavedBondKept, KeyBooksKept, OwedBooksKept DEF Books
<1> QED BY <1>1, <1>2, Invariance, PTL DEF Spec

\* BLE_MAX_NUM_CONN_PARAM_UPDATE_REQS bounds the updates requested of a host,
\* however late their confirmations are.
THEOREM RequestsStayBounded == Spec => []RequestsBounded
<1>1. Books => RequestsBounded
  BY DEF Books, RequestBooks
<1> QED BY <1>1, BooksInvariance, PTL

\* A valid bond in the NVM has the address of a host, whatever pairings,
\* connections and resets did to the bond in the RAM.
THEOREM SavedBondsHaveHosts == Spec => []SavedBondHasHost
<1>1. Books => SavedBondHasHost
  BY DEF Books
<1> QED BY <1>1, BooksInvariance, PTL

\* No step approves a diversifier that the program has discarded.
THEOREM DiscardedStaysOut == Spec => DiscardedKeysStayOut
<1>1. ASSUME IInv, Books, [Next]_vars, approved' # approved
      PROVE  approved' \notin void
  <2>1. void \subseteq 1 .. keys /\ 0 \notin void
    <3>1. void \subseteq 1 .. keys /\ 0 \notin 1 .. keys
      BY <1>1 DEF Books, KeyBooks, IInv, TypeOK
    <3> QED BY <3>1
  <2>2. approved' = 0 \/ (Approvable /\ approved' = given[Owner[link]])
    BY <1>1, StepKinds
    DEF Aside, books, Resets, Boots, Connects, Closes, Requests, Confirms,
        ble_sm_keys_indication, PairingSucceeds, PairingFails, history,
        ble_sm_diversifier_approval_indication, ble_gatt_access_indication
  <2>3. conn.bonded => bond.div \notin void
    BY <1>1 DEF Books, KeyBooks
  <2> QED BY <2>1, <2>2, <2>3 DEF Approvable
<1>2. IInv /\ Books /\ [Next]_vars => [approved' # approved => approved' \notin void]_vars
  BY <1>1
<1> QED BY <1>2, Invariance, BooksInvariance, PTL DEF Spec, DiscardedKeysStayOut

\* A host that is owed the news of changed services has been notified when it
\* is connected from the address in its bond, or is refused.
THEOREM NewsAreTold == Spec => OwedIsTold
<1> DEFINE Opens == ~conn.open /\ conn'.open /\ Recalled(conn'.addr)
                    /\ ~Refused(conn'.addr)
<1>1. ASSUME IInv, Books, [Next]_vars, Opens
      PROVE  ~owed'
  <2>0. conn \in Slot
    BY <1>1 DEF IInv, TypeOK
  <2>1. PICK a \in Addrs : Connects(a)
    <3>1. conn' # conn /\ conn' # Closed
      BY <1>1 DEF Closed
    <3>2. \A b \in BOOLEAN : conn' # [conn EXCEPT !.bonded = b]
      <4> SUFFICES ASSUME NEW b \in BOOLEAN, conn' = [conn EXCEPT !.bonded = b] PROVE FALSE
        OBVIOUS
      <4> QED BY <1>1, <2>0, SlotFacts
    <3>3. conn' # [conn EXCEPT !.updates = @ + 1]
      <4> SUFFICES ASSUME conn' = [conn EXCEPT !.updates = @ + 1] PROVE FALSE
        OBVIOUS
      <4>1. conn'.open <=> conn.open
        BY <2>0, SlotFacts
      <4> QED BY <1>1, <4>1
    <3>4. conn' # [conn EXCEPT !.open = FALSE]
      <4> SUFFICES ASSUME conn' = [conn EXCEPT !.open = FALSE] PROVE FALSE
        OBVIOUS
      <4>1. ~conn'.open
        BY <2>0, SlotFacts
      <4> QED BY <1>1, <4>1
    <3> QED BY <1>1, <3>1, <3>2, <3>3, <3>4, StepKinds
        DEF Aside, books, Resets, Boots, Closes, Requests, Confirms, ble_sm_keys_indication,
            PairingSucceeds, PairingFails, bounds, history, data,
            ble_sm_diversifier_approval_indication, ble_gatt_access_indication
  <2>2. conn'.addr = a /\ conn'.open /\ (conn'.bonded <=> Recalled(a)) /\ bond' = bond
    BY <2>1 DEF Connects, Connection, Recalled
  <2>3. Recalled(a) /\ ~Refused(a)
    BY <1>1, <2>2
  <2>4. bond.addr = a /\ ~Unresolved(bond)
    BY <2>3 DEF Recalled, Refused, Unresolved
  <2>5. owed' => Unresolved(bond')
    BY <1>1, <2>2, <2>3, OwedBooksKept DEF OwedBooks
  <2> QED BY <2>2, <2>4, <2>5 DEF Unresolved
<1>2. IInv /\ Books /\ [Next]_vars => [Opens => ~owed']_vars
  BY <1>1
<1> QED BY <1>2, Invariance, BooksInvariance, PTL DEF Spec, OwedIsTold
==============================================================================
