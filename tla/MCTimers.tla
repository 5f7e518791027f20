------------------------------ MODULE MCTimers ------------------------------
(***************************************************************************)
(* The programs of the devices, as far as they use timers.                 *)
(***************************************************************************)
EXTENDS Timers

CONSTANTS hold, error, adv, conn, keep

create(t) == [op |-> "create", t |-> t]
start(t) == [op |-> "start", t |-> t]
stop(t) == [op |-> "stop", t |-> t]
poll(t) == [op |-> "poll", t |-> t]

\* dfu_try_launch_app on the flight controller: two timers that are polled
\* (and, beyond what it does, resumed after a stop).
HoldTimers == {hold, error}
HoldInterval == [t \in HoldTimers |-> IF t = hold THEN 4 ELSE 2]
HoldCallback == [t \in HoldTimers |-> <<>>]
HoldHandlers ==
  {<<create(hold), create(error), start(hold), start(error)>>,
   <<poll(error), poll(hold)>>, <<stop(hold), stop(error)>>, <<start(hold)>>}

\* The application of the baseband.  The timer of the advertisements: its
\* callback and the events of the stack call ble_advertise, which stops it
\* and, unless that was a cancellation, creates and starts it again
\* (gatt.c:221-264).  The timer of a connection: ble_negotiate_params creates
\* and starts it without a stop (ble.c:231), which is legal where no earlier
\* one is in the list (module Ble shows that one may be); it is stopped
\* (ble.c:328), or stopped, created and started (ble.c:354).  And one that is
\* always running.  The bootloader's LED timer, which its own callback starts
\* again, is not in this program.
BleTimers == {adv, conn, keep}
BleInterval == [t \in BleTimers |-> CASE t = adv -> 2 [] t = conn -> 1 [] t = keep -> 3]
BleCallback == [t \in BleTimers |-> IF t = adv THEN <<stop(adv)>> ELSE <<>>]
BleHandlers ==
  {<<stop(adv)>>, <<stop(adv), create(adv), start(adv)>>,
   <<create(conn), start(conn)>>,
   <<stop(conn)>>, <<stop(conn), create(conn), start(conn)>>,
   <<create(keep), start(keep)>>}

\* Both are plain: what the proofs about the list assume of programs.  (The
\* LED timer of the bootloader is not.)
ASSUME ProgramsArePlain == OwnCallbacks /\ TidyHandlers
=============================================================================
