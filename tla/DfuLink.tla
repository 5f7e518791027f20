------------------------------ MODULE DfuLink ------------------------------
(***************************************************************************)
(* The two bootloaders of a device and the applications they start: the    *)
(* baseband, the DFU master m, and the flight controller, its DFU slave s, *)
(* on one I2C bus.  The master makes its start depend on the slave         *)
(* (dfu_master_exit), takes it along into DFU mode (dfu_master_enter) and  *)
(* relays the host's commands to it (services/dfu_service.c); the master's *)
(* application passes the host's own transfers on (services/i2c_service.c).*)
(*                                                                         *)
(* What one of the devices does to its own NVM and program memory, and     *)
(* where a reset may break that off, is module Dfu; how a transfer crosses *)
(* the bus is module I2cLink.  Here a transfer is one step, or fails.      *)
(***************************************************************************)
EXTENDS Naturals

CONSTANTS
  Button,       \* somebody may hold the button during a start
  HoldAnswers,  \* the slave answers while its bootloader waits for the button
  Buses,        \* what the bus may be like at the start
  MaxResets     \* bound: resets of one or both devices

ASSUME LinkAssumption ==
  /\ Button \in BOOLEAN /\ HoldAnswers \in BOOLEAN
  /\ Buses \subseteq {"good", "bad"}
  /\ MaxResets \in Nat

VARIABLES
  m, s,          \* the devices, see Device
  caller,        \* who called dfu_try_launch_app on the master
  late,          \* its holdTimer has expired
  currentSlave,  \* the domain the host has selected: 0 is the master
  bus,           \* a bad bus may disturb any transfer, or all of them
  resets,
  seen,          \* history: what the slave answered dfu_master_exit last
  torn,          \* history: invalidated while on hold, the slave goes on
  unchecked      \* history: the slave's valid mark was put over the bus

vars == <<m, s, caller, late, currentSlave, bus, resets, seen, torn, unchecked>>

\* app_info_t (the application is valid, the bootloader is forced), the
\* application in program memory, and what the main context does.
Device(pcs) ==
  [pc : pcs, valid : BOOLEAN, forced : BOOLEAN, image : {"whole", "partial"}]

MasterPc == {"check", "try", "exit", "again", "enter", "dfu", "app"}
SlavePc == {"check", "hold", "dfu", "launch", "app"}

Init ==
  /\ m = [pc |-> "check", valid |-> TRUE, forced |-> FALSE, image |-> "whole"]
  /\ s = m
  /\ caller = "init" /\ late = FALSE /\ currentSlave = 0
  /\ bus \in Buses /\ resets = 0
  /\ seen = "nothing" /\ torn = FALSE /\ unchecked = FALSE

\* The slave is about to run its application, or runs it.
Launching(d) == d.pc \in {"hold", "launch", "app"}

\* What the history keeps of a step of the slave, of itself or for a transfer.
Remembers ==
  /\ torn' = (Launching(s') /\ (torn \/ (s.pc = "hold" /\ s.valid /\ ~s'.valid)))
  /\ unchecked' = (s'.valid /\ (unchecked \/ ~s.valid))

-----------------------------------------------------------------------------
(* Resets, by the supply of both or by a bug check or watchdog of one.     *)

Restarted(d) == [d EXCEPT !.pc = "check"]

Reset ==
  /\ resets < MaxResets
  /\ resets' = resets + 1
  /\ \/ m' = Restarted(m) /\ s' = Restarted(s)
     \/ m' = Restarted(m) /\ s' = s
     \/ m' = m /\ s' = Restarted(s)
  /\ IF m' = m THEN UNCHANGED <<caller, late, currentSlave>>
     ELSE caller' = "init" /\ late' = FALSE /\ currentSlave' = 0
  /\ seen' = "nothing"
  /\ torn' = (torn /\ s' = s)
  /\ UNCHANGED <<bus, unchecked>>

\* dfu_check_for_app in dfu_init: the forced flag is used up, then a valid
\* application may be launched.
dfu_check_for_app(d, hold) ==
  [d EXCEPT !.forced = FALSE,
            !.pc = IF ~d.forced /\ d.valid THEN hold ELSE "enter"]

-----------------------------------------------------------------------------
(* The slave.                                                              *)

Slave == UNCHANGED <<m, caller, late, currentSlave, bus, resets, seen>>

\* It has no slaves of its own to enter DFU mode with.
SlaveBoots ==
  /\ s.pc = "check"
  /\ LET d == dfu_check_for_app(s, "hold")
     IN  s' = [d EXCEPT !.pc = IF @ = "enter" THEN "dfu" ELSE @]
  /\ Slave /\ UNCHANGED <<torn, unchecked>>

\* dfu_try_launch_app, called by dfu_init or by the handler of a command: the
\* button is released, or not for five seconds.
SlaveHoldEnds ==
  /\ s.pc \in {"hold", "launch"}
  /\ \E pc \in {"app"} \cup (IF Button THEN {"dfu"} ELSE {}) :
       s' = [s EXCEPT !.pc = pc]
  /\ Slave /\ Remembers

\* Not from within the interrupt of the last command ("launch").
Answers == s.pc \in {"dfu", "app"} \/ (HoldAnswers /\ s.pc = "hold")

\* dfu_info_handler_r on the slave.
InfoState ==
  CASE s.pc = "hold" -> "hold"
    [] s.pc = "app" -> "none"
    [] s.pc = "dfu" -> IF s.valid THEN "temp" ELSE "perma"

\* Slip: the reset comes without the flag.
ToldTemp_NotForced ==
  s' = IF s.pc = "app" THEN Restarted(s) ELSE s

\* dfu_info_handler_c on the slave, DFU_STATE_TEMP: the application launches
\* the bootloader, the bootloader has nothing to do.
ToldTemp ==
  s' = IF s.pc = "app" THEN [Restarted(s) EXCEPT !.forced = TRUE] ELSE s

\* ... DFU_STATE_PERMA: the application is invalidated first.
ToldPerma ==
  s' = [s EXCEPT !.valid = FALSE, !.forced = (s.pc = "app"),
                 !.pc = IF @ = "app" THEN "check" ELSE @]

\* ... DFU_STATE_NONE: the bootloader tries to launch it, unless on hold.
ToldNone ==
  s' = IF s.pc = "dfu" /\ s.valid THEN [s EXCEPT !.pc = "launch"] ELSE s

\* A transfer that the slave carries out as `effect`; the master gets to know
\* that it has succeeded or not.
Transfer(effect, ok) ==
  \/ Answers /\ effect /\ ok = TRUE
  \/ ~Answers /\ s' = s /\ ok = FALSE
  \/ bus = "bad" /\ ok = FALSE /\ (s' = s \/ (Answers /\ effect))

\* Whatever has disturbed the bus is gone, if it ever goes.
BusRecovers ==
  /\ bus = "bad"
  /\ bus' = "good"
  /\ UNCHANGED <<m, s, caller, late, currentSlave, resets, seen, torn, unchecked>>

-----------------------------------------------------------------------------
(* The master's start.                                                     *)

Try(who) == caller' = who /\ late' = FALSE

MasterBoots ==
  /\ m.pc = "check"
  /\ m' = dfu_check_for_app(m, "try")
  /\ Try("init")
  /\ UNCHANGED <<s, currentSlave, bus, resets, seen, torn, unchecked>>

\* dfu_try_launch_app: five seconds have passed.
HoldTimerExpires ==
  /\ m.pc \in {"try", "exit", "again"}
  /\ late' = TRUE
  /\ UNCHANGED <<m, s, caller, currentSlave, bus, resets, seen, torn, unchecked>>

\* Slip: a slave on hold is told to exit like any other.
AfterAnswer_Impatient(state) == IF state = "none" THEN "app" ELSE "exit"

\* dfu_master_exit on what it has read.
AfterAnswer(state) ==
  CASE state = "hold" -> "again"     \* STATUS_IN_PROGRESS
    [] state = "none" -> "app"       \* continue, and the launch
    [] OTHER -> "exit"               \* a failed read included

\* dfu_master_exit: the state of the slave is read ...
ReadSlave ==
  /\ m.pc = "try"
  /\ \E ok \in BOOLEAN :
       /\ Transfer(s' = s, ok)
       /\ seen' = IF ok THEN InfoState ELSE "error"
  /\ m' = [m EXCEPT !.pc = AfterAnswer(seen')]
  /\ UNCHANGED <<caller, late, currentSlave, bus, resets, torn, unchecked>>

\* ... and DFU_STATE_TEMP is written.  A success ends the loop, even after
\* five seconds: the errorTimer has then expired as well.
TellSlave ==
  /\ m.pc = "exit"
  /\ \E ok \in BOOLEAN :
       /\ Transfer(ToldTemp, ok)
       /\ m' = [m EXCEPT !.pc = IF ok THEN "app" ELSE "again"]
  /\ Remembers
  /\ UNCHANGED <<caller, late, currentSlave, bus, resets, seen>>

\* Slip: the timeout is looked at in the successful case only.
AfterRound_NoTimeout == "try"

\* The end of an unsuccessful round.
AfterRound ==
  IF ~late THEN "try" ELSE IF caller = "init" THEN "enter" ELSE "dfu"

NextRound ==
  /\ m.pc = "again"
  /\ m' = [m EXCEPT !.pc = AfterRound]
  /\ UNCHANGED <<s, caller, late, currentSlave, bus, resets, seen, torn, unchecked>>

\* dfu_master_enter, whose result dfu_init ignores.
MasterEnters ==
  /\ m.pc = "enter"
  /\ m' = [m EXCEPT !.pc = "dfu"]
  /\ \E ok \in BOOLEAN : Transfer(ToldTemp, ok)
  /\ Remembers
  /\ UNCHANGED <<caller, late, currentSlave, bus, resets, seen>>

-----------------------------------------------------------------------------
(* The host, connected to the master.                                      *)

\* dfuSlaveCount is 1.
Selectable == 0 .. 1

SelectDomain ==
  /\ m.pc = "dfu"
  /\ currentSlave' \in Selectable
  /\ UNCHANGED <<m, s, caller, late, bus, resets, seen, torn, unchecked>>

\* dfu_info_handler_c in the bootloader: the state is always the master's.
InfoNone ==
  /\ m.pc = "dfu" /\ m.valid
  /\ m' = [m EXCEPT !.pc = "try"]
  /\ Try("host")
  /\ UNCHANGED <<s, currentSlave, bus, resets, seen, torn, unchecked>>

\* DFU_STATE_PERMA and, in the application, DFU_STATE_TEMP as well.
InfoPerma ==
  /\ m.pc \in {"dfu", "app"}
  /\ \E valid \in {FALSE} \cup (IF m.pc = "app" THEN {m.valid} ELSE {}) :
       m' = [m EXCEPT !.valid = valid, !.forced = (m.pc = "app"),
                      !.pc = IF @ = "app" THEN "check" ELSE @]
  /\ currentSlave' = IF m.pc = "app" THEN 0 ELSE currentSlave
  /\ UNCHANGED <<s, caller, late, bus, resets, seen, torn, unchecked>>

Written(d, image) == [d EXCEPT !.valid = FALSE, !.image = image]

\* dfu_progmem_handler_w on the slave; its application has no such endpoint.
SlaveWritten(image) == s' = IF s.pc = "app" THEN s ELSE Written(s, image)

\* dfu_progmem_handler_w on the master: it leaves a part or the whole of an
\* image in the selected domain.
dfu_progmem_handler_w(image) ==
  /\ m.pc = "dfu"
  /\ IF currentSlave = 0 THEN m' = Written(m, image) /\ UNCHANGED s
     ELSE /\ m' = m
          /\ \E ok \in BOOLEAN : Transfer(SlaveWritten(image), ok)
  /\ Remembers
  /\ UNCHANGED <<caller, late, currentSlave, bus, resets, seen>>

\* dfu_progmem_info_handler_w and _c on the slave.  The size and the checksum
\* are 12 bytes, and the slave hands over a write in pieces of 8: both pieces
\* are refused, and what is validated at the end of the transfer is an empty
\* application, of length and checksum 0.  This succeeds.
SlaveValidated == s' = IF s.pc = "app" THEN s ELSE [s EXCEPT !.valid = TRUE]

\* A transfer of the host's own through the application of the master: a
\* command, a piece of an image or a validation.
i2c_transfer_handler_w ==
  /\ m.pc = "app"
  /\ \E ok \in BOOLEAN :
       \/ Transfer(ToldTemp, ok)
       \/ Transfer(ToldPerma, ok)
       \/ Transfer(ToldNone, ok)
       \/ \E image \in {"whole", "partial"} : Transfer(SlaveWritten(image), ok)
       \/ Transfer(SlaveValidated, ok)
  /\ Remembers
  /\ UNCHANGED <<m, caller, late, currentSlave, bus, resets, seen>>

\* Slip: the result of the check is dropped.
Validated_Unchecked(d) == [d EXCEPT !.valid = TRUE]

\* dfu_validate_app: the checksum is that of the whole image.
Validated(d) == [d EXCEPT !.valid = @ \/ d.image = "whole"]

\* dfu_progmem_info_handler_c: the application validated is the master's,
\* whatever the domain.
dfu_progmem_info_handler_c ==
  /\ m.pc = "dfu"
  /\ m' = Validated(m)
  /\ UNCHANGED <<s, caller, late, currentSlave, bus, resets, seen, torn, unchecked>>

-----------------------------------------------------------------------------
Master == MasterBoots \/ ReadSlave \/ TellSlave \/ NextRound \/ MasterEnters

Host ==
  \/ SelectDomain
  \/ InfoNone
  \/ InfoPerma
  \/ \E image \in {"whole", "partial"} : dfu_progmem_handler_w(image)
  \/ dfu_progmem_info_handler_c
  \/ i2c_transfer_handler_w

Next ==
  \/ Reset
  \/ BusRecovers
  \/ SlaveBoots
  \/ SlaveHoldEnds
  \/ Master
  \/ HoldTimerExpires
  \/ Host

\* Both processors run, time passes, and nobody holds the button for ever.
Fairness ==
  /\ WF_vars(Master)
  /\ WF_vars(HoldTimerExpires)
  /\ WF_vars(SlaveBoots)
  /\ WF_vars(SlaveHoldEnds)

Spec == Init /\ [][Next]_vars /\ Fairness

-----------------------------------------------------------------------------
(* Properties.                                                             *)

\* Every variable keeps its type.
TypeOK ==
  /\ m \in Device(MasterPc) /\ s \in Device(SlavePc)
  /\ caller \in {"init", "host"} /\ late \in BOOLEAN
  /\ currentSlave \in 0 .. 1
  /\ bus \in {"good", "bad"} /\ resets \in 0 .. MaxResets
  /\ seen \in {"nothing", "error", "none", "hold", "temp", "perma"}
  /\ torn \in BOOLEAN /\ unchecked \in BOOLEAN

\* Neither device runs anything but a whole application, wherever the host
\* breaks off and whichever device is reset (dfu.c:87-89).  The exceptions are
\* a slave that was invalidated while dfu_try_launch_app, which has found it
\* valid, was waiting for the button, as nothing looks at the NVM again, and
\* one that was marked valid over the bus and not written to since.
RunsWhole ==
  /\ m.pc \in {"try", "exit", "again", "app"} => m.valid
  /\ m.valid => m.image = "whole"
  /\ s.valid => s.image = "whole" \/ unchecked
  /\ Launching(s) => s.valid \/ torn

\* The master does not launch its application over a slave that has said that
\* it is on hold (dfu.c:185, "the slave agreed to exit DFU mode"); a slave
\* that could not be read is another matter.
HoldRespected ==
  [][(m.pc # "app" /\ m'.pc = "app" /\ seen' \notin {"error", "nothing"})
       => s.pc # "hold"]_vars

\* A start comes to a decision: the loop of dfu_try_launch_app ends, by the
\* holdTimer if need be, however the slave behaves.
Decides == m.pc = "try" ~> m.pc \in {"app", "dfu"}

Undisturbed == resets = MaxResets /\ bus = "good"

\* A master that is sent into DFU mode takes the slave's application with it.
SlaveFollows ==
  (Undisturbed /\ m.pc = "check" /\ m.forced /\ s.pc = "app") ~> s.pc = "dfu"

-----------------------------------------------------------------------------
(* What a comment says and the code does not do.                           *)

\* dfu.c:117-119: "Commands all slave devices to exit DFU mode."  A slave may
\* refuse if it has no valid application; this one has.
SlavesExit == (m.pc = "app" /\ s.pc = "dfu") => ~s.valid
=============================================================================
