-------------------------- MODULE UpdatableDevice --------------------------
(***************************************************************************)
(* What the bootloader promises the user of a device: at any time there is *)
(* one bootable image or none, only a bootable image is ever run, and an   *)
(* image becomes bootable as a whole while nothing is running, after the   *)
(* one before it has been given up.                                        *)
(***************************************************************************)
CONSTANTS Images, None

VARIABLES
  app,      \* the image the next start will run, or None: locked in DFU mode
  running   \* the image that is running, or None: bootloader or no power

Init == app \in Images \cup {None} /\ running = None

Invalidate == app' = None /\ running' = running

Install(x) == app = None /\ running = None /\ app' = x /\ running' = None

Start == app # None /\ running = None /\ running' = app /\ app' = app

Stop == running' = None /\ app' = app

Next == Invalidate \/ (\E x \in Images : Install(x)) \/ Start \/ Stop

Spec == Init /\ [][Next]_<<app, running>>
=============================================================================
