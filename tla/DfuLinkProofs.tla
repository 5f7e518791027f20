--------------------------- MODULE DfuLinkProofs ---------------------------
(***************************************************************************)
(* Proofs about DfuLink, for any number of resets, a bus of either kind, a *)
(* button that is held or not, and a slave that answers during its hold or *)
(* does not: what the two devices may run, and that a slave on hold is     *)
(* waited for.                                                             *)
(***************************************************************************)
EXTENDS DfuLink, TLAPS

-----------------------------------------------------------------------------
(* The inductive invariant.                                                *)

\* Until dfu_master_exit writes to a slave that it has read in DFU mode, the
\* slave stays there, but for a reset.
ExitsFromDfu ==
  m.pc = "exit" => /\ seen \in {"error", "nothing", "temp", "perma"}
                   /\ seen \in {"temp", "perma"} => s.pc = "dfu"

IInv == TypeOK /\ RunsWhole /\ ExitsFromDfu

-----------------------------------------------------------------------------
(* Type correctness.                                                       *)

\* Whatever the slave does, the history keeps its type.
LEMMA HistoryTypes == ASSUME Remembers PROVE torn' \in BOOLEAN /\ unchecked' \in BOOLEAN
BY Zenon DEF Remembers

\* The slave that is told to enter DFU mode is a device of the same kind.
LEMMA ToldTypes ==
  ASSUME TypeOK, ToldTemp
  PROVE  s' \in Device(SlavePc)
BY DEF TypeOK, ToldTemp, Restarted, Device, SlavePc

LEMMA InitTypes == ASSUME Init PROVE TypeOK
<1>1. m \in Device(MasterPc) /\ s \in Device(SlavePc)
  BY DEF Init, Device, MasterPc, SlavePc
<1>2. caller = "init" /\ currentSlave = 0 /\ seen = "nothing"
  BY DEF Init
<1>3. late \in BOOLEAN /\ torn \in BOOLEAN /\ unchecked \in BOOLEAN
  BY Zenon DEF Init
<1>4. bus \in {"good", "bad"} /\ resets \in 0 .. MaxResets
  BY LinkAssumption DEF Init
<1> QED BY <1>1, <1>2, <1>3, <1>4 DEF TypeOK

LEMMA ResetTypes == ASSUME TypeOK, Reset PROVE TypeOK'
<1>1. m' \in Device(MasterPc) /\ s' \in Device(SlavePc)
  BY DEF TypeOK, Reset, Restarted, Device, MasterPc, SlavePc
<1>2. caller' \in {"init", "host"} /\ currentSlave' \in 0 .. 1 /\ seen' = "nothing"
  BY DEF TypeOK, Reset
<1>3. late' \in BOOLEAN
  BY Zenon DEF TypeOK, Reset
<1>4. bus' \in {"good", "bad"} /\ resets' \in 0 .. MaxResets
  BY LinkAssumption DEF TypeOK, Reset
<1>5. torn' \in BOOLEAN /\ unchecked' \in BOOLEAN
  BY Zenon DEF TypeOK, Reset
<1> QED BY <1>1, <1>2, <1>3, <1>4, <1>5 DEF TypeOK

LEMMA SlaveTypes == ASSUME TypeOK, SlaveBoots \/ SlaveHoldEnds PROVE TypeOK'
<1>1. s' \in Device(SlavePc)
  <2>1. CASE SlaveBoots
    BY <2>1 DEF TypeOK, SlaveBoots, dfu_check_for_app, Device, SlavePc
  <2>2. CASE SlaveHoldEnds
    BY <2>2 DEF TypeOK, SlaveHoldEnds, Device, SlavePc
  <2> QED BY <2>1, <2>2
<1>2. UNCHANGED <<m, caller, late, currentSlave, bus, resets, seen>>
  BY DEF SlaveBoots, SlaveHoldEnds, Slave
<1>3. torn' \in BOOLEAN /\ unchecked' \in BOOLEAN
  BY HistoryTypes DEF TypeOK, SlaveBoots, SlaveHoldEnds
<1> QED BY <1>1, <1>2, <1>3 DEF TypeOK

LEMMA StartTypes ==
  ASSUME TypeOK,
         MasterBoots \/ HoldTimerExpires \/ NextRound \/ BusRecovers
  PROVE  TypeOK'
<1>1. m' \in Device(MasterPc)
  BY DEF TypeOK, MasterBoots, HoldTimerExpires, NextRound, BusRecovers,
         dfu_check_for_app, AfterRound, Device, MasterPc
<1>2. UNCHANGED <<s, currentSlave, resets, seen, torn, unchecked>>
  BY DEF MasterBoots, HoldTimerExpires, NextRound, BusRecovers
<1>3. caller' \in {"init", "host"} /\ late' \in BOOLEAN
  BY Zenon DEF TypeOK, MasterBoots, HoldTimerExpires, NextRound, BusRecovers, Try
<1>4. bus' \in {"good", "bad"}
  BY DEF TypeOK, MasterBoots, HoldTimerExpires, NextRound, BusRecovers
<1> QED BY <1>1, <1>2, <1>3, <1>4 DEF TypeOK

LEMMA ReadTypes == ASSUME TypeOK, ReadSlave PROVE TypeOK'
<1>1. PICK ok \in BOOLEAN :
        Transfer(s' = s, ok) /\ seen' = IF ok THEN InfoState ELSE "error"
  BY Zenon DEF ReadSlave
<1>2. s' = s
  BY <1>1, Zenon DEF Transfer
<1>3. seen' \in {"nothing", "error", "none", "hold", "temp", "perma"}
  <2>1. CASE ok = FALSE
    BY <1>1, <2>1
  <2>2. CASE ok = TRUE
    <3>1. Answers
      BY <1>1, <2>2, Zenon DEF Transfer
    <3>2. InfoState \in {"none", "hold", "temp", "perma"}
      BY <3>1 DEF Answers, InfoState
    <3> QED BY <1>1, <2>2, <3>2
  <2> QED BY <2>1, <2>2
<1>4. m' \in Device(MasterPc)
  BY <1>3 DEF TypeOK, ReadSlave, AfterAnswer, Device, MasterPc
<1>5. UNCHANGED <<caller, late, currentSlave, bus, resets, torn, unchecked>>
  BY DEF ReadSlave
<1> QED BY <1>2, <1>3, <1>4, <1>5 DEF TypeOK

LEMMA TellTypes == ASSUME TypeOK, TellSlave \/ MasterEnters PROVE TypeOK'
<1>1. m' \in Device(MasterPc)
  BY DEF TypeOK, TellSlave, MasterEnters, Device, MasterPc
<1>2. ToldTemp \/ s' = s
  BY Zenon DEF TellSlave, MasterEnters, Transfer
<1>3. s' \in Device(SlavePc)
  BY <1>2, ToldTypes DEF TypeOK
<1>4. UNCHANGED <<caller, late, currentSlave, bus, resets, seen>>
  BY DEF TellSlave, MasterEnters
<1>5. torn' \in BOOLEAN /\ unchecked' \in BOOLEAN
  BY HistoryTypes DEF TellSlave, MasterEnters
<1> QED BY <1>1, <1>3, <1>4, <1>5 DEF TypeOK

\* What a transfer of the host's own may do to the slave.
LEMMA RawEffects ==
  ASSUME i2c_transfer_handler_w
  PROVE  \/ s' = s
         \/ /\ Answers
            /\ \/ ToldTemp \/ ToldPerma \/ ToldNone \/ SlaveValidated
               \/ \E image \in {"whole", "partial"} : SlaveWritten(image)
BY Zenon DEF i2c_transfer_handler_w, Transfer

LEMMA RawTypes == ASSUME TypeOK, i2c_transfer_handler_w PROVE TypeOK'
<1>1. s' \in Device(SlavePc)
  <2>1. CASE s' = s \/ ToldTemp
    BY <2>1, ToldTypes DEF TypeOK
  <2>2. CASE ToldPerma \/ ToldNone \/ SlaveValidated
    BY <2>2 DEF TypeOK, ToldPerma, ToldNone, SlaveValidated, Device, SlavePc
  <2>3. CASE \E image \in {"whole", "partial"} : SlaveWritten(image)
    BY <2>3 DEF TypeOK, SlaveWritten, Written, Device
  <2> QED BY RawEffects, <2>1, <2>2, <2>3
<1>2. UNCHANGED <<m, caller, late, currentSlave, bus, resets, seen>>
  BY DEF i2c_transfer_handler_w
<1>3. torn' \in BOOLEAN /\ unchecked' \in BOOLEAN
  BY HistoryTypes DEF i2c_transfer_handler_w
<1> QED BY <1>1, <1>2, <1>3 DEF TypeOK

LEMMA HostTypes == ASSUME TypeOK, Host PROVE TypeOK'
<1>1. CASE SelectDomain
  BY <1>1 DEF TypeOK, SelectDomain, Selectable
<1>2. CASE InfoNone
  <2>1. m' \in Device(MasterPc)
    BY <1>2 DEF TypeOK, InfoNone, Device, MasterPc
  <2>2. caller' = "host" /\ late' = FALSE
    BY <1>2, Zenon DEF InfoNone, Try
  <2>3. UNCHANGED <<s, currentSlave, bus, resets, seen, torn, unchecked>>
    BY <1>2 DEF InfoNone
  <2> QED BY <2>1, <2>2, <2>3 DEF TypeOK
<1>3. CASE InfoPerma
  <2>1. PICK valid \in BOOLEAN :
          m' = [m EXCEPT !.valid = valid, !.forced = (m.pc = "app"),
                         !.pc = IF @ = "app" THEN "check" ELSE @]
    BY <1>3 DEF TypeOK, InfoPerma, Device
  <2>2. m' \in Device(MasterPc)
    BY <2>1 DEF TypeOK, Device, MasterPc
  <2>3. currentSlave' \in 0 .. 1
    BY <1>3 DEF TypeOK, InfoPerma
  <2>4. UNCHANGED <<s, caller, late, bus, resets, seen, torn, unchecked>>
    BY <1>3 DEF InfoPerma
  <2> QED BY <2>2, <2>3, <2>4 DEF TypeOK
<1>4. CASE \E image \in {"whole", "partial"} : dfu_progmem_handler_w(image)
  <2>1. PICK image \in {"whole", "partial"} : dfu_progmem_handler_w(image)
    BY <1>4
  <2>2. m' = m \/ m' = Written(m, image)
    BY <2>1 DEF dfu_progmem_handler_w
  <2>3. m' \in Device(MasterPc)
    BY <2>2 DEF TypeOK, Written, Device
  <2>4. s' = s \/ s' = Written(s, image)
    BY <2>1, Zenon DEF dfu_progmem_handler_w, Transfer, SlaveWritten
  <2>5. s' \in Device(SlavePc)
    BY <2>4 DEF TypeOK, Written, Device
  <2>6. torn' \in BOOLEAN /\ unchecked' \in BOOLEAN
    BY <2>1, HistoryTypes DEF dfu_progmem_handler_w
  <2>7. UNCHANGED <<caller, late, currentSlave, bus, resets, seen>>
    BY <2>1 DEF dfu_progmem_handler_w
  <2> QED BY <2>3, <2>5, <2>6, <2>7 DEF TypeOK
<1>5. CASE dfu_progmem_info_handler_c
  <2>1. m' \in Device(MasterPc)
    BY <1>5 DEF TypeOK, dfu_progmem_info_handler_c, Validated, Device
  <2>2. UNCHANGED <<s, caller, late, currentSlave, bus, resets, seen, torn, unchecked>>
    BY <1>5 DEF dfu_progmem_info_handler_c
  <2> QED BY <2>1, <2>2 DEF TypeOK
<1> QED BY <1>1, <1>2, <1>3, <1>4, <1>5, RawTypes DEF Host

LEMMA StepTypes == ASSUME TypeOK, [Next]_vars PROVE TypeOK'
<1>1. CASE UNCHANGED vars
  BY <1>1 DEF vars, TypeOK
<1>2. CASE Next
  BY <1>2, ResetTypes, SlaveTypes, StartTypes, ReadTypes, TellTypes, HostTypes
     DEF Next, Master
<1> QED BY <1>1, <1>2

\* The variables keep their types: the states of both devices, and what the
\* relay remembers of the slave, are those of the code.
THEOREM TypeCorrect == Spec => []TypeOK
<1>1. TypeOK /\ [Next]_vars => TypeOK'
  BY StepTypes
<1> QED BY <1>1, InitTypes, PTL DEF Spec

-----------------------------------------------------------------------------
(* What the devices run.                                                   *)

\* What a device may hold and run, as far as the device is concerned.
MasterWhole ==
  /\ m.pc \in {"try", "exit", "again", "app"} => m.valid
  /\ m.valid => m.image = "whole"

SlaveWhole ==
  /\ s.valid => s.image = "whole" \/ unchecked
  /\ Launching(s) => s.valid \/ torn

LEMMA WholeParts == RunsWhole <=> MasterWhole /\ SlaveWhole
BY Zenon DEF RunsWhole, MasterWhole, SlaveWhole

\* A step of the slave that leaves the image of a valid application alone, and
\* launches, or goes on launching, what is valid, or was so in the hold, or was
\* not before.
LEMMA SlaveSteps ==
  ASSUME SlaveWhole, Remembers,
         s'.valid => ~s.valid \/ s'.image = s.image,
         Launching(s') => s'.valid \/ s.pc = "hold" \/ (Launching(s) /\ ~s.valid)
  PROVE  SlaveWhole'
<1>1. s'.valid => s'.image = "whole" \/ unchecked'
  BY DEF SlaveWhole, Remembers
<1>2. Launching(s') => s'.valid \/ torn'
  <2>1. s.pc = "hold" => Launching(s)
    BY DEF Launching
  <2> QED BY <2>1, Zenon DEF SlaveWhole, Remembers
<1> QED BY <1>1, <1>2 DEF SlaveWhole

\* A slave that a transfer leaves as it was.
LEMMA SameWhole == ASSUME SlaveWhole, Remembers, s' = s PROVE SlaveWhole'
<1>1. Launching(s') => s'.valid \/ (Launching(s) /\ ~s.valid)
  OBVIOUS
<1> QED BY <1>1, SlaveSteps

\* The slave that is told to enter DFU mode keeps its application.
LEMMA ToldWhole ==
  ASSUME TypeOK, SlaveWhole, ToldTemp \/ s' = s, Remembers
  PROVE  SlaveWhole'
<1>1. CASE s' = s
  BY <1>1, SameWhole
<1>2. CASE s' # s /\ ToldTemp
  <2>1. s'.image = s.image /\ s'.pc = "check"
    BY <1>2 DEF TypeOK, ToldTemp, Restarted, Device
  <2>2. ~Launching(s')
    BY <2>1 DEF Launching
  <2> QED BY <2>1, <2>2, SlaveSteps
<1> QED BY <1>1, <1>2

\* A slave that answers and is written to is invalid, and launches only what
\* it was about to launch.
LEMMA WrittenWhole ==
  ASSUME TypeOK, SlaveWhole, Remembers, NEW image, Answers, SlaveWritten(image)
  PROVE  SlaveWhole'
<1>1. CASE s' = s
  BY <1>1, SameWhole
<1>2. CASE s' # s
  <2>1. s.pc # "app" /\ s'.valid = FALSE /\ s'.pc = s.pc
    BY <1>2 DEF TypeOK, SlaveWritten, Written, Device
  <2>2. Launching(s') => s.pc = "hold"
    BY <2>1 DEF Answers, Launching
  <2> QED BY <2>1, <2>2, SlaveSteps
<1> QED BY <1>1, <1>2

LEMMA ResetWhole ==
  ASSUME TypeOK, RunsWhole, Reset
  PROVE  MasterWhole' /\ SlaveWhole'
<1>1. MasterWhole'
  BY DEF TypeOK, RunsWhole, Reset, Restarted, MasterWhole, Device
<1>2. CASE s' = s
  <2>1. (torn => torn') /\ unchecked' = unchecked
    BY <1>2, Zenon DEF Reset
  <2> QED BY <1>1, <1>2, <2>1, Zenon DEF RunsWhole, SlaveWhole
<1>3. CASE s' = Restarted(s)
  <2>1. s'.valid = s.valid /\ s'.image = s.image /\ s'.pc = "check"
    BY <1>3 DEF TypeOK, Restarted, Device
  <2>2. unchecked' = unchecked
    BY DEF Reset
  <2>3. ~Launching(s')
    BY <2>1 DEF Launching
  <2> QED BY <1>1, <2>1, <2>2, <2>3 DEF RunsWhole, SlaveWhole
<1> QED BY <1>1, <1>2, <1>3 DEF Reset

LEMMA SlaveStepsWhole ==
  ASSUME TypeOK, RunsWhole, SlaveBoots \/ SlaveHoldEnds
  PROVE  MasterWhole' /\ SlaveWhole'
<1>1. MasterWhole'
  BY DEF RunsWhole, MasterWhole, SlaveBoots, SlaveHoldEnds, Slave
<1>2. SlaveWhole'
  <2>1. CASE SlaveBoots
    <3>1. s'.valid = s.valid /\ s'.image = s.image /\ (s'.pc = "hold" => s.valid)
          /\ s'.pc \in {"hold", "dfu"}
      BY <2>1 DEF TypeOK, SlaveBoots, dfu_check_for_app, Device
    <3>2. Launching(s') => s'.valid
      BY <3>1 DEF Launching
    <3>3. UNCHANGED <<torn, unchecked>>
      BY <2>1 DEF SlaveBoots
    <3> QED BY <3>1, <3>2, <3>3 DEF RunsWhole, SlaveWhole
  <2>2. CASE SlaveHoldEnds
    <3>1. s'.valid = s.valid /\ s'.image = s.image
      BY <2>2 DEF TypeOK, SlaveHoldEnds, Device
    <3>2. Launching(s) /\ Remembers
      BY <2>2 DEF SlaveHoldEnds, Launching
    <3> QED BY <3>1, <3>2, WholeParts, SlaveSteps
  <2> QED BY <2>1, <2>2
<1> QED BY <1>1, <1>2

LEMMA StartWhole ==
  ASSUME TypeOK, RunsWhole, ExitsFromDfu,
         Master \/ HoldTimerExpires \/ BusRecovers
  PROVE  MasterWhole' /\ SlaveWhole'
<1>1. MasterWhole'
  BY DEF TypeOK, RunsWhole, MasterWhole, Master, MasterBoots, ReadSlave, TellSlave,
         NextRound, MasterEnters, HoldTimerExpires, BusRecovers, dfu_check_for_app,
         AfterAnswer, AfterRound, Device
<1>2. CASE TellSlave \/ MasterEnters
  <2>1. ToldTemp \/ s' = s
    BY <1>2, Zenon DEF TellSlave, MasterEnters, Transfer
  <2>2. Remembers
    BY <1>2 DEF TellSlave, MasterEnters
  <2> QED BY <1>1, <2>1, <2>2, WholeParts, ToldWhole
<1>3. CASE MasterBoots \/ ReadSlave \/ NextRound \/ HoldTimerExpires \/ BusRecovers
  <2>1. s' = s
    BY <1>3, Zenon DEF MasterBoots, ReadSlave, NextRound, HoldTimerExpires,
                       BusRecovers, Transfer
  <2>2. UNCHANGED <<torn, unchecked>>
    BY <1>3 DEF MasterBoots, ReadSlave, NextRound, HoldTimerExpires, BusRecovers
  <2> QED BY <1>1, <2>1, <2>2, Zenon DEF RunsWhole, SlaveWhole
<1> QED BY <1>2, <1>3 DEF Master

\* The host's own transfers leave the master alone.
LEMMA RawWhole ==
  ASSUME TypeOK, RunsWhole, i2c_transfer_handler_w
  PROVE  MasterWhole' /\ SlaveWhole'
<1>1. MasterWhole'
  BY DEF RunsWhole, MasterWhole, i2c_transfer_handler_w
<1>2. SlaveWhole /\ Remembers
  BY WholeParts DEF i2c_transfer_handler_w
<1>3. CASE s' = s \/ ToldTemp
  BY <1>1, <1>2, <1>3, ToldWhole
<1>4. CASE Answers /\ ToldPerma
  <2>1. s'.valid = FALSE /\ (Launching(s') => s.pc = "hold")
    BY <1>4 DEF TypeOK, ToldPerma, Answers, Launching, Device
  <2> QED BY <1>1, <1>2, <2>1, SlaveSteps
<1>5. CASE s' # s /\ ToldNone
  <2>1. s'.valid /\ s'.image = s.image
    BY <1>5 DEF TypeOK, ToldNone, Device
  <2> QED BY <1>1, <1>2, <2>1, SlaveSteps
<1>6. CASE s' # s /\ SlaveValidated
  <2>1. s'.valid /\ s'.image = s.image
    BY <1>6 DEF TypeOK, SlaveValidated, Device
  <2> QED BY <1>1, <1>2, <2>1, SlaveSteps
<1>7. CASE Answers /\ \E image \in {"whole", "partial"} : SlaveWritten(image)
  BY <1>1, <1>2, <1>7, WrittenWhole
<1> QED BY RawEffects, <1>3, <1>4, <1>5, <1>6, <1>7

LEMMA HostWhole ==
  ASSUME TypeOK, RunsWhole, Host
  PROVE  MasterWhole' /\ SlaveWhole'
<1>1. CASE SelectDomain \/ InfoNone \/ InfoPerma \/ dfu_progmem_info_handler_c
  <2>1. MasterWhole'
    BY <1>1 DEF TypeOK, RunsWhole, MasterWhole, SelectDomain, InfoNone, InfoPerma,
                dfu_progmem_info_handler_c, Validated, Device
  <2>2. SlaveWhole'
    BY <1>1 DEF RunsWhole, SlaveWhole, SelectDomain, InfoNone, InfoPerma,
                dfu_progmem_info_handler_c
  <2> QED BY <2>1, <2>2
<1>2. CASE \E image \in {"whole", "partial"} : dfu_progmem_handler_w(image)
  <2>1. PICK image \in {"whole", "partial"} : dfu_progmem_handler_w(image)
    BY <1>2
  <2>2. m.pc = "dfu" /\ (m' = m \/ m' = Written(m, image))
    BY <2>1 DEF dfu_progmem_handler_w
  <2>3. MasterWhole'
    BY <2>2 DEF TypeOK, RunsWhole, MasterWhole, Written, Device
  <2>4. Remembers
    BY <2>1 DEF dfu_progmem_handler_w
  <2>5. s' = s \/ (Answers /\ SlaveWritten(image))
    BY <2>1, Zenon DEF dfu_progmem_handler_w, Transfer
  <2> QED BY <2>3, <2>4, <2>5, WholeParts, SameWhole, WrittenWhole
<1> QED BY <1>1, <1>2, RawWhole DEF Host

-----------------------------------------------------------------------------
(* What the slave has answered.                                            *)

LEMMA ReadReports ==
  ASSUME TypeOK, ReadSlave
  PROVE  /\ m'.pc = "exit" => seen' \in {"error", "nothing", "temp", "perma"}
         /\ seen' \in {"temp", "perma"} => s'.pc = "dfu"
         /\ m'.pc = "app" => seen' = "none"
         /\ seen' = "none" => s.pc = "app"
<1>1. PICK ok \in BOOLEAN :
        Transfer(s' = s, ok) /\ seen' = IF ok THEN InfoState ELSE "error"
  BY Zenon DEF ReadSlave
<1>2. s' = s
  BY <1>1, Zenon DEF Transfer
<1>3. m'.pc = AfterAnswer(seen')
  BY DEF TypeOK, ReadSlave, Device
<1>4. CASE ok = FALSE
  BY <1>1, <1>3, <1>4 DEF AfterAnswer
<1>5. CASE ok = TRUE
  <2>1. Answers
    BY <1>1, <1>5, Zenon DEF Transfer
  <2>2. seen' = InfoState
    BY <1>1, <1>5
  <2> QED BY <1>2, <1>3, <2>1, <2>2 DEF Answers, InfoState, AfterAnswer
<1> QED BY <1>4, <1>5

LEMMA StepExits ==
  ASSUME TypeOK, ExitsFromDfu, [Next]_vars
  PROVE  ExitsFromDfu'
<1>1. CASE UNCHANGED vars
  BY <1>1 DEF vars, ExitsFromDfu
<1>2. CASE Reset
  BY <1>2 DEF Reset, ExitsFromDfu
<1>3. CASE BusRecovers \/ HoldTimerExpires
  BY <1>3 DEF BusRecovers, HoldTimerExpires, ExitsFromDfu
<1>4. CASE SlaveBoots \/ SlaveHoldEnds
  <2>1. m' = m /\ seen' = seen /\ s.pc # "dfu"
    BY <1>4 DEF SlaveBoots, SlaveHoldEnds, Slave
  <2> QED BY <2>1 DEF ExitsFromDfu
<1>5. CASE ReadSlave
  BY <1>5, ReadReports DEF ExitsFromDfu
<1>6. CASE MasterBoots \/ TellSlave \/ NextRound \/ MasterEnters
  BY <1>6 DEF TypeOK, MasterBoots, TellSlave, NextRound, MasterEnters,
              dfu_check_for_app, AfterRound, ExitsFromDfu, Device
<1>7. CASE Host
  <2>1. m'.pc # "exit"
    BY <1>7 DEF TypeOK, Host, SelectDomain, InfoNone, InfoPerma, dfu_progmem_handler_w,
                dfu_progmem_info_handler_c, i2c_transfer_handler_w, Written, Validated,
                Device
  <2> QED BY <2>1 DEF ExitsFromDfu
<1> QED BY <1>1, <1>2, <1>3, <1>4, <1>5, <1>6, <1>7 DEF Next, Master

-----------------------------------------------------------------------------
(* The theorems.                                                           *)

LEMMA InitInvariant == ASSUME Init PROVE IInv
<1>1. RunsWhole
  BY DEF Init, RunsWhole, Launching
<1>2. ExitsFromDfu
  BY DEF Init, ExitsFromDfu
<1> QED BY <1>1, <1>2, InitTypes DEF IInv

LEMMA StepInvariant == ASSUME IInv, [Next]_vars PROVE IInv'
<1>1. TypeOK /\ RunsWhole /\ ExitsFromDfu
  BY DEF IInv
<1>2. TypeOK' /\ ExitsFromDfu'
  BY <1>1, StepTypes, StepExits
<1>3. MasterWhole' /\ SlaveWhole'
  <2>1. CASE UNCHANGED vars
    BY <1>1, <2>1 DEF vars, RunsWhole, MasterWhole, SlaveWhole, Launching
  <2>2. CASE Next
    BY <1>1, <2>2, ResetWhole, SlaveStepsWhole, StartWhole, HostWhole DEF Next
  <2> QED BY <2>1, <2>2
<1>4. RunsWhole'
  BY <1>3, Zenon DEF RunsWhole, MasterWhole, SlaveWhole
<1> QED BY <1>2, <1>4 DEF IInv

\* IInv holds in every state the two devices reach.
THEOREM Invariance == Spec => []IInv
BY InitInvariant, StepInvariant, PTL DEF Spec

\* Neither device runs anything but a whole application, except for a slave
\* that was written to during its hold (dfu_try_launch_app) or marked valid
\* over the bus, where nothing is compared (i2c_slave.c:57).
THEOREM EveryRunWhole == Spec => []RunsWhole
<1>1. IInv => RunsWhole
  BY DEF IInv
<1> QED BY <1>1, Invariance, PTL

LEMMA LaunchStep ==
  ASSUME IInv, [Next]_vars,
         m.pc # "app", m'.pc = "app", seen' \notin {"error", "nothing"}
  PROVE  s.pc # "hold"
<1>1. TypeOK /\ ExitsFromDfu
  BY DEF IInv
<1>2. CASE UNCHANGED vars
  BY <1>2 DEF vars
<1>3. CASE ReadSlave
  BY <1>1, <1>3, ReadReports
<1>4. CASE TellSlave
  BY <1>1, <1>4 DEF TellSlave, ExitsFromDfu
<1>5. CASE Reset \/ BusRecovers \/ HoldTimerExpires \/ SlaveBoots \/ SlaveHoldEnds
  BY <1>1, <1>5 DEF TypeOK, Reset, BusRecovers, HoldTimerExpires, SlaveBoots,
                    SlaveHoldEnds, Slave, Restarted, Device
<1>6. CASE MasterBoots \/ NextRound \/ MasterEnters
  BY <1>1, <1>6 DEF TypeOK, MasterBoots, NextRound, MasterEnters, dfu_check_for_app,
                    AfterRound, Device
<1>7. CASE Host
  BY <1>1, <1>7 DEF TypeOK, Host, SelectDomain, InfoNone, InfoPerma,
                    dfu_progmem_handler_w, dfu_progmem_info_handler_c,
                    i2c_transfer_handler_w, Written, Validated, Device
<1> QED BY <1>2, <1>3, <1>4, <1>5, <1>6, <1>7 DEF Next, Master

\* dfu_try_launch_app does not launch the master's application over a slave
\* that has answered that it is on hold.
THEOREM HoldIsRespected == Spec => HoldRespected
<1>1. IInv /\ [Next]_vars
        => [(m.pc # "app" /\ m'.pc = "app" /\ seen' \notin {"error", "nothing"})
              => s.pc # "hold"]_vars
  BY LaunchStep
<1> QED BY <1>1, Invariance, PTL DEF Spec, HoldRespected
=============================================================================
