----------------------------- MODULE NvmProofs -----------------------------
(***************************************************************************)
(* For every memory size, every set of fields and every byte alphabet:     *)
(* where raw accesses do not fail (the AVR), nvm_write is atomic; where    *)
(* they may fail, bug checks still end in a reset and reads are stable.    *)
(***************************************************************************)
EXTENDS Nvm, TLAPS

-----------------------------------------------------------------------------
(* The inductive invariant.                                                *)

\* While an initialised memory is not being written its backup is void.
VoidBackup ==
  /\ magic /\ pc \in {"idle", "backup", "header"} => fixup.length = 0
  /\ written /\ pc \in {"idle", "backup", "header"} => fixup.length = 0

\* The flags in RAM tell the truth while the program runs.
ValidFlag == (pc # "off" => nvmValid = magic) /\ (pc = "off" => ~written)

\* How far nvm_write has come.
WriteProgress ==
  /\ pc \in Writing => op # NoOp
  /\ pc \in {"backup", "header"} =>
       /\ i <= op.field.length
       /\ \A j \in 0 .. i - 1 : fixup.backup[j] = data[op.field.offset + j]
  /\ pc = "header" => i = op.field.length /\ fixup.offset = op.field.offset
  /\ pc \in {"value", "clear"} =>
       /\ fixup.offset = op.field.offset
       /\ fixup.length = op.field.length
       /\ \A j \in 0 .. i - 1 :
            data[op.field.offset + j] = op.new[op.field.offset + j]
  /\ pc = "value" => i < op.field.length
  /\ pc = "clear" => i = op.field.length
  /\ pc \notin Writing => op = NoOp

\* How far the roll back of nvm_init has come.
RestoreProgress ==
  /\ pc \in RollingBack =>
       /\ magic
       /\ fixup.length # 0
       /\ \A j \in 0 .. i - 1 : data[fixup.offset + j] = fixup.backup[j]
  /\ pc = "restore" => i < fixup.length
  /\ pc = "unfix" => i = fixup.length
  /\ pc \in {"off", "idle"} => i = 0

\* A backup that counts lies inside the data area.
BackupFits == magic => fixup.offset + fixup.length <= Size

IInv ==
  /\ TypeOK
  /\ VoidBackup
  /\ ValidFlag
  /\ WriteProgress
  /\ RestoreProgress
  /\ BackupFits

\* What a field is: a non-empty region inside the data area.
LEMMA FieldFacts ==
  ASSUME NEW f \in Fields
  PROVE  /\ f \in FieldType
         /\ f.offset \in Nat /\ f.length \in Nat \ {0}
         /\ f.offset + f.length <= Size
         /\ f.length <= Size
         /\ Cells(f) \subseteq Addr
<1>1. f \in FieldType /\ f.offset + f.length <= Size
  BY FieldsAssumption
<1>2. f.offset \in Nat /\ f.length \in Nat \ {0}
  BY <1>1 DEF FieldType
<1>3. QED
  BY <1>1, <1>2, SizeAssumption DEF Cells, Addr

\* What the locals of a running nvm_write hold.
LEMMA OpFacts ==
  ASSUME TypeOK, op # NoOp
  PROVE  /\ op.field \in Fields
         /\ op.new \in [Cells(op.field) -> Byte]
<1>1. PICK f \in Fields : op \in Op(f)
  BY DEF TypeOK, Ops
<1>2. QED
  BY <1>1 DEF Op

\* Entering nvm_write leaves well-typed locals, which are not NoOp.
LEMMA StartFacts ==
  ASSUME NEW f \in Fields, NEW new \in [Cells(f) -> Byte], Start(f, new)
  PROVE  /\ op' \in Ops
         /\ op' # NoOp
         /\ op'.field = f
         /\ i' = 0
         /\ pc' = "backup"
<1>1. op' = [field |-> f, new |-> new] /\ i' = 0 /\ pc' = "backup"
  BY DEF Start
<1>2. op' \in Op(f) /\ op'.field = f
  BY <1>1 DEF Op
<1>3. f.length # 0
  BY FieldFacts
<1>4. op' # NoOp
  BY <1>2, <1>3 DEF NoOp, NoField
<1>5. QED
  BY <1>1, <1>2, <1>4 DEF Ops

LEMMA InitInv == Init => IInv
<1> SUFFICES ASSUME Init PROVE IInv
  OBVIOUS
<1>1. TypeOK
  <2>1. i \in 0 .. Size
    BY SizeAssumption DEF Init
  <2>2. QED
    BY <2>1, Zenon DEF Init, TypeOK
<1>2. QED
  BY <1>1 DEF Init, IInv, VoidBackup, ValidFlag, WriteProgress,
              RestoreProgress, BackupFits, Writing, RollingBack

-----------------------------------------------------------------------------
(* The invariant is inductive: one lemma for each group of steps.          *)

\* A restart at any instant.
LEMMA HaltInv ==
  ASSUME IInv, Halt, UNCHANGED <<data, magic, fixup>>
  PROVE  IInv'
<1>1. TypeOK'
  <2>1. i' \in 0 .. Size
    BY SizeAssumption DEF Halt
  <2>2. QED
    BY <2>1, Zenon DEF IInv, TypeOK, Halt
<1>2. VoidBackup' /\ ValidFlag'
  BY Zenon DEF Halt, VoidBackup, ValidFlag
<1>3. (WriteProgress /\ RestoreProgress)'
  BY DEF Halt, WriteProgress, RestoreProgress, Writing, RollingBack
<1>4. BackupFits'
  BY DEF IInv, BackupFits
<1>5. QED
  BY <1>1, <1>2, <1>3, <1>4 DEF IInv

\* The start of a write, by a caller or by a bug check.
LEMMA StartInv ==
  ASSUME IInv, pc = "idle",
         NEW f \in Fields, NEW new \in [Cells(f) -> Byte], Start(f, new),
         UNCHANGED <<data, magic, fixup, nvmValid, written>>,
         didBugcheck' \in BOOLEAN
  PROVE  IInv'
<1>1. TypeOK'
  BY StartFacts, SizeAssumption DEF IInv, TypeOK, Writing
<1>2. (VoidBackup /\ ValidFlag)'
  BY StartFacts DEF IInv, VoidBackup, ValidFlag
<1>3. WriteProgress'
  <2>1. op'.field.length \in Nat
    BY StartFacts, FieldFacts
  <2>2. QED
    BY <2>1, StartFacts DEF WriteProgress, Writing
<1>4. (RestoreProgress /\ BackupFits)'
  BY StartFacts DEF IInv, RestoreProgress, BackupFits, RollingBack
<1>5. QED
  BY <1>1, <1>2, <1>3, <1>4 DEF IInv

\* The steps of nvm_init and nvm_data_init.
LEMMA InitStepInv ==
  ASSUME IInv, nvm_init \/ RestoreByte \/ Unfix \/ nvm_data_init
  PROVE  IInv'
<1> USE SizeAssumption
<1>1. TypeOK /\ VoidBackup /\ ValidFlag /\ WriteProgress /\ RestoreProgress
      /\ BackupFits
  BY DEF IInv
<1>2. fixup.offset \in Nat /\ fixup.length \in Nat /\ i \in Nat
      /\ fixup.backup \in [Addr -> Byte]
  BY <1>1 DEF TypeOK
<1>3. CASE nvm_init
  <2>1. TypeOK'
    BY <1>1, <1>3 DEF nvm_init, TypeOK, RollingBack
  <2>2. VoidBackup' /\ ValidFlag'
    BY <1>1, <1>3 DEF nvm_init, VoidBackup, ValidFlag
  <2>3. (WriteProgress /\ RestoreProgress /\ BackupFits)'
    BY <1>1, <1>2, <1>3 DEF nvm_init, WriteProgress, RestoreProgress,
                            BackupFits, Writing, RollingBack
  <2>4. QED
    BY <2>1, <2>2, <2>3 DEF IInv
<1>4. CASE RestoreByte
  <2>1. /\ pc = "restore" /\ i < fixup.length /\ magic
        /\ fixup.offset + fixup.length <= Size
    BY <1>1, <1>4 DEF RestoreByte, RestoreProgress, RollingBack, BackupFits
  <2>2. fixup.offset + i \in Addr /\ i \in Addr /\ fixup.backup[i] \in Byte
    BY <1>2, <2>1 DEF Addr
  <2>3. TypeOK'
    BY <1>1, <1>2, <1>4, <2>1, <2>2 DEF RestoreByte, TypeOK, RollingBack
  <2>4. (VoidBackup /\ ValidFlag /\ BackupFits)'
    BY <1>1, <1>4 DEF RestoreByte, VoidBackup, ValidFlag, BackupFits
  <2>5. WriteProgress'
    BY <1>1, <1>4 DEF RestoreByte, WriteProgress, Writing
  <2>6. RestoreProgress'
    <3>1. \A j \in 0 .. i : data'[fixup.offset + j] = fixup.backup[j]
      BY <1>1, <1>2, <1>4, <2>1, <2>2
         DEF RestoreByte, RestoreProgress, RollingBack, TypeOK, Addr
    <3>2. QED
      BY <1>2, <1>4, <2>1, <3>1 DEF RestoreByte, RestoreProgress, RollingBack
  <2>7. QED
    BY <2>3, <2>4, <2>5, <2>6 DEF IInv
<1>5. CASE Unfix
  <2>1. TypeOK'
    BY <1>1, <1>2, <1>5 DEF Unfix, TypeOK
  <2>2. VoidBackup' /\ ValidFlag'
    <3>1. fixup'.length = 0
      BY <1>1, <1>5 DEF Unfix, TypeOK
    <3>2. VoidBackup'
      BY <3>1 DEF VoidBackup
    <3>3. pc # "off"
      BY <1>5 DEF Unfix
    <3>4. ValidFlag'
      BY <1>1, <1>5, <3>3, Zenon DEF Unfix, ValidFlag
    <3>5. QED
      BY <3>2, <3>4
  <2>3. (WriteProgress /\ RestoreProgress)'
    BY <1>1, <1>5 DEF Unfix, WriteProgress, RestoreProgress, Writing, RollingBack
  <2>4. BackupFits'
    BY <1>1, <1>2, <1>5 DEF Unfix, BackupFits, TypeOK
  <2>5. QED
    BY <2>1, <2>2, <2>3, <2>4 DEF IInv
<1>6. CASE nvm_data_init
  <2>1. TypeOK'
    BY <1>1, <1>6 DEF nvm_data_init, TypeOK
  <2>2. fixup.length = 0
    BY <1>1, <1>6 DEF nvm_data_init, VoidBackup
  <2>3. (VoidBackup /\ ValidFlag /\ BackupFits)'
    BY <1>1, <1>2, <1>6, <2>2
       DEF nvm_data_init, VoidBackup, ValidFlag, BackupFits, TypeOK
  <2>4. (WriteProgress /\ RestoreProgress)'
    BY <1>1, <1>6 DEF nvm_data_init, WriteProgress, RestoreProgress, Writing,
                      RollingBack
  <2>5. QED
    BY <2>1, <2>3, <2>4 DEF IInv
<1>7. QED
  BY <1>3, <1>4, <1>5, <1>6

\* The steps of nvm_write that save the old value.
LEMMA BackupStepInv ==
  ASSUME IInv, BackupByte \/ HeaderOffset \/ HeaderLength
  PROVE  IInv'
<1> USE SizeAssumption
<1>1. TypeOK /\ VoidBackup /\ ValidFlag /\ WriteProgress /\ RestoreProgress
      /\ BackupFits
  BY DEF IInv
<1>2. fixup.offset \in Nat /\ fixup.length \in Nat /\ i \in Nat
      /\ fixup.backup \in [Addr -> Byte]
  BY <1>1 DEF TypeOK
<1>3. pc \in {"backup", "header"} /\ op # NoOp
  BY <1>1 DEF BackupByte, HeaderOffset, HeaderLength, WriteProgress, Writing
<1>4. PICK f \in Fields : f = op.field
  BY <1>1, <1>3, OpFacts
<1>5. /\ f.offset \in Nat /\ f.length \in Nat \ {0}
      /\ f.offset + f.length <= Size /\ f.length <= Size
  BY FieldFacts
<1>6. CASE BackupByte
  <2>1. i < f.length /\ i \in Addr /\ f.offset + i \in Addr /\ pc = "backup"
    BY <1>2, <1>4, <1>5, <1>6 DEF BackupByte, Addr
  <2>2. data[f.offset + i] \in Byte
    BY <1>1, <2>1 DEF TypeOK
  <2>3. TypeOK'
    BY <1>1, <1>2, <1>4, <1>5, <1>6, <2>1, <2>2 DEF BackupByte, TypeOK
  <2>4. VoidBackup' /\ ValidFlag'
    BY <1>1, <1>6 DEF BackupByte, VoidBackup, ValidFlag, TypeOK
  <2>5. WriteProgress'
    <3>1. \A j \in 0 .. i - 1 : fixup.backup[j] = data[f.offset + j]
      BY <1>1, <1>4, <2>1 DEF WriteProgress
    <3>2. \A j \in 0 .. i : fixup'.backup[j] = data[f.offset + j]
      <4>1. fixup'.backup = [fixup.backup EXCEPT ![i] = data[f.offset + i]]
        BY <1>1, <1>4, <1>6 DEF BackupByte, TypeOK
      <4>2. \A j \in 0 .. i : j \in Addr
        BY <2>1 DEF Addr
      <4>3. QED
        BY <1>2, <2>1, <3>1, <4>1, <4>2
    <3>3. QED
      BY <1>1, <1>2, <1>3, <1>4, <1>5, <1>6, <2>1, <3>2
         DEF BackupByte, WriteProgress, Writing
  <2>6. RestoreProgress' /\ BackupFits'
    BY <1>1, <1>6, <2>1
       DEF BackupByte, RestoreProgress, BackupFits, RollingBack, TypeOK
  <2>7. QED
    BY <2>3, <2>4, <2>5, <2>6 DEF IInv
<1>7. CASE HeaderOffset
  <2>1. pc = "backup" /\ i = f.length
    BY <1>4, <1>7 DEF HeaderOffset
  <2>2. TypeOK'
    BY <1>1, <1>4, <1>5, <1>7 DEF HeaderOffset, TypeOK, Writing
  <2>3. VoidBackup' /\ ValidFlag'
    BY <1>1, <1>7 DEF HeaderOffset, VoidBackup, ValidFlag, TypeOK
  <2>4. WriteProgress'
    BY <1>1, <1>4, <1>7, <2>1 DEF HeaderOffset, WriteProgress, Writing, TypeOK
  <2>5. RestoreProgress'
    BY <1>7 DEF HeaderOffset, RestoreProgress, RollingBack
  <2>6. BackupFits'
    <3>1. magic => fixup.length = 0
      BY <1>1, <2>1 DEF VoidBackup
    <3>2. fixup'.offset = f.offset /\ fixup'.length = fixup.length
      BY <1>1, <1>4, <1>7 DEF HeaderOffset, TypeOK
    <3>3. QED
      BY <1>5, <1>7, <3>1, <3>2 DEF HeaderOffset, BackupFits
  <2>7. QED
    BY <2>2, <2>3, <2>4, <2>5, <2>6 DEF IInv
<1>8. CASE HeaderLength
  <2>1. pc = "header" /\ i = f.length /\ fixup.offset = f.offset
    BY <1>1, <1>4, <1>8 DEF HeaderLength, WriteProgress
  <2>2. TypeOK'
    BY <1>1, <1>4, <1>5, <1>8 DEF HeaderLength, TypeOK, Writing
  <2>3. VoidBackup' /\ ValidFlag'
    BY <1>1, <1>8, Zenon DEF HeaderLength, VoidBackup, ValidFlag
  <2>4. fixup'.offset = f.offset /\ fixup'.length = f.length
    BY <1>1, <1>4, <1>8, <2>1 DEF HeaderLength, TypeOK
  <2>5. WriteProgress'
    BY <1>1, <1>3, <1>4, <1>5, <1>8, <2>4 DEF HeaderLength, WriteProgress, Writing
  <2>6. RestoreProgress' /\ BackupFits'
    BY <1>5, <1>8, <2>4 DEF HeaderLength, RestoreProgress, BackupFits, RollingBack
  <2>7. QED
    BY <2>2, <2>3, <2>5, <2>6 DEF IInv
<1>9. QED
  BY <1>6, <1>7, <1>8

\* The steps of nvm_write that store the new value.
LEMMA ValueStepInv ==
  ASSUME IInv, ValueByte \/ ClearLength
  PROVE  IInv'
<1> USE SizeAssumption
<1>1. TypeOK /\ VoidBackup /\ ValidFlag /\ WriteProgress /\ RestoreProgress
      /\ BackupFits
  BY DEF IInv
<1>2. fixup.offset \in Nat /\ fixup.length \in Nat /\ i \in Nat
      /\ data \in [Addr -> Byte]
  BY <1>1 DEF TypeOK
<1>3. pc \in {"value", "clear"} /\ op # NoOp
  BY <1>1 DEF ValueByte, ClearLength, WriteProgress, Writing
<1>4. PICK f \in Fields : f = op.field
  BY <1>1, <1>3, OpFacts
<1>5. /\ f.offset \in Nat /\ f.length \in Nat \ {0}
      /\ f.offset + f.length <= Size /\ f.length <= Size
  BY FieldFacts
<1>6. CASE ValueByte
  <2>1. i < f.length /\ f.offset + i \in Addr /\ pc = "value"
    BY <1>1, <1>2, <1>4, <1>5, <1>6 DEF ValueByte, WriteProgress, Addr
  <2>2. op.new[f.offset + i] \in Byte
    <3>1. f.offset + i \in Cells(f)
      BY <1>2, <1>5, <2>1 DEF Cells
    <3>2. QED
      BY <1>1, <1>3, <1>4, <3>1, OpFacts
  <2>3. data' = [data EXCEPT ![f.offset + i] = op.new[f.offset + i]]
    BY <1>4, <1>6 DEF ValueByte
  <2>4. TypeOK'
    BY <1>1, <1>2, <1>4, <1>5, <1>6, <2>1, <2>2, <2>3
       DEF ValueByte, TypeOK, Writing
  <2>5. VoidBackup' /\ ValidFlag' /\ BackupFits'
    BY <1>1, <1>6 DEF ValueByte, VoidBackup, ValidFlag, BackupFits
  <2>6. WriteProgress'
    <3>1. \A j \in 0 .. i - 1 : data[f.offset + j] = op.new[f.offset + j]
      BY <1>1, <1>4, <2>1 DEF WriteProgress
    <3>2. \A j \in 0 .. i : f.offset + j \in Addr
      BY <1>2, <1>5, <2>1 DEF Addr
    <3>3. \A j \in 0 .. i : data'[f.offset + j] = op.new[f.offset + j]
      BY <1>2, <1>5, <2>1, <2>3, <3>1, <3>2
    <3>4. QED
      BY <1>1, <1>2, <1>3, <1>4, <1>5, <1>6, <2>1, <3>3
         DEF ValueByte, WriteProgress, Writing
  <2>7. RestoreProgress'
    BY <1>6 DEF ValueByte, RestoreProgress, RollingBack
  <2>8. QED
    BY <2>4, <2>5, <2>6, <2>7 DEF IInv
<1>7. CASE ClearLength
  <2>1. fixup'.length = 0 /\ fixup'.offset = fixup.offset
    BY <1>1, <1>7 DEF ClearLength, TypeOK
  <2>2. pc' \in {"off", "idle"} /\ i' = 0 /\ op' = NoOp
    BY <1>7 DEF ClearLength, Halt
  <2>3. TypeOK'
    <3>1. fixup' \in [offset : 0 .. Size, length : 0 .. Size,
                      backup : [Addr -> Byte]]
      BY <1>1, <1>7 DEF ClearLength, TypeOK
    <3>2. i' \in 0 .. Size
      BY <2>2
    <3>3. nvmValid' \in BOOLEAN /\ written' \in BOOLEAN /\ didBugcheck' \in BOOLEAN
      BY <1>1, <1>7, Zenon DEF ClearLength, Halt, TypeOK
    <3>4. QED
      BY <1>1, <1>7, <2>2, <3>1, <3>2, <3>3 DEF ClearLength, TypeOK
  <2>4. VoidBackup'
    BY <2>1 DEF VoidBackup
  <2>5. ValidFlag'
    BY <1>1, <1>3, <1>7, Zenon DEF ClearLength, Halt, ValidFlag
  <2>6. WriteProgress' /\ RestoreProgress'
    BY <2>2 DEF WriteProgress, RestoreProgress, Writing, RollingBack
  <2>7. BackupFits'
    BY <1>1, <1>2, <2>1 DEF BackupFits, TypeOK
  <2>8. QED
    BY <2>3, <2>4, <2>5, <2>6, <2>7 DEF IInv
<1>8. QED
  BY <1>6, <1>7

\* A bug check raised by the running program.
LEMMA BugCheckInv ==
  ASSUME IInv, NEW new \in [Cells(BugLog) -> Byte], BugCheck(new)
  PROVE  IInv'
<1>1. BugLog \in Fields
  BY FieldsAssumption
<1>2. CASE didBugcheck
  BY <1>2, HaltInv DEF BugCheck, bug_check_ex
<1>3. CASE ~didBugcheck
  <2>1. /\ pc = "idle" /\ Start(BugLog, new) /\ didBugcheck' \in BOOLEAN
        /\ UNCHANGED <<data, magic, fixup, nvmValid, written>>
    BY <1>3, Zenon DEF BugCheck, bug_check_ex
  <2>2. QED
    BY <1>1, <2>1, StartInv
<1>4. QED
  BY <1>2, <1>3

\* Every step of the program, and every restart, preserves the invariant
\* where raw accesses do not fail.
LEMMA NextInv ==
  ASSUME RawFails = FALSE, IInv, [Next]_vars
  PROVE  IInv'
<1>1. CASE PowerLoss
  BY <1>1, HaltInv DEF PowerLoss
<1>2. CASE nvm_init \/ RestoreByte \/ Unfix \/ nvm_data_init
  BY <1>2, InitStepInv
<1>3. CASE InitError
  BY <1>3 DEF InitError
<1>4. ASSUME NEW f \in Fields, NEW new \in [Cells(f) -> Byte], nvm_write(f, new)
      PROVE  IInv'
  <2>1. didBugcheck' \in BOOLEAN
    BY <1>4 DEF nvm_write, IInv, TypeOK
  <2>2. /\ pc = "idle" /\ Start(f, new)
        /\ UNCHANGED <<data, magic, fixup, nvmValid, written>>
    BY <1>4 DEF nvm_write
  <2>3. QED
    BY <2>1, <2>2, StartInv
<1>5. CASE BackupByte \/ HeaderOffset \/ HeaderLength
  BY <1>5, BackupStepInv
<1>6. CASE ValueByte \/ ClearLength
  BY <1>6, ValueStepInv
<1>7. ASSUME NEW new \in [Cells(BugLog) -> Byte], BugCheck(new)
      PROVE  IInv'
  BY <1>7, BugCheckInv
<1>8. ASSUME NEW new \in [Cells(BugLog) -> Byte], WriteError(new)
      PROVE  IInv'
  BY <1>8 DEF WriteError
<1>9. CASE UNCHANGED vars
  BY <1>9 DEF vars, IInv, TypeOK, VoidBackup, ValidFlag, WriteProgress,
              RestoreProgress, BackupFits
<1>10. QED
  BY <1>1, <1>2, <1>3, <1>4, <1>5, <1>6, <1>7, <1>8, <1>9 DEF Next

\* Type correctness together with everything the other results need.
THEOREM Invariance ==
  ASSUME RawFails = FALSE
  PROVE  Spec => []IInv
<1>1. IInv /\ [Next]_vars => IInv'
  BY NextInv
<1>2. QED
  BY <1>1, InitInv, PTL DEF Spec

-----------------------------------------------------------------------------
(* What holds even where raw accesses fail.                                *)

\* What raw errors cannot break: a bug check stays one until the reset, and
\* the program is only ever back in its idle state behind a write or a roll
\* back that has voided the backup.
ErrorBooks ==
  /\ "length" \in DOMAIN fixup
  /\ didBugcheck => pc \in Writing
  /\ pc # "off" => (nvmValid <=> magic)
  /\ pc = "off" => ~written
  /\ pc = "idle" /\ (magic \/ written) => fixup.length = 0

LEMMA ErrorBooksInductive == ErrorBooks /\ [Next]_vars => ErrorBooks'
<1> SUFFICES ASSUME ErrorBooks, [Next]_vars PROVE ErrorBooks'
  OBVIOUS
<1>1. CASE UNCHANGED vars
  BY <1>1 DEF vars, ErrorBooks
<1>2. ASSUME Halt, UNCHANGED <<data, magic, fixup>> PROVE ErrorBooks'
  BY <1>2 DEF Halt, ErrorBooks
<1>3. CASE PowerLoss \/ InitError
  BY <1>2, <1>3 DEF PowerLoss, InitError
<1>4. CASE nvm_init
  BY <1>4 DEF nvm_init, ErrorBooks, Writing
<1>5. CASE RestoreByte
  BY <1>5 DEF RestoreByte, ErrorBooks, Writing
<1>6. CASE Unfix
  BY <1>6 DEF Unfix, ErrorBooks, Writing
<1>7. CASE nvm_data_init
  BY <1>7 DEF nvm_data_init, ErrorBooks, Writing
<1>8. ASSUME NEW f \in Fields, NEW new \in [Cells(f) -> Byte], nvm_write(f, new)
      PROVE  ErrorBooks'
  BY <1>8 DEF nvm_write, Start, ErrorBooks, Writing
<1>9. CASE BackupByte \/ HeaderOffset \/ HeaderLength \/ ValueByte
  BY <1>9 DEF BackupByte, HeaderOffset, HeaderLength, ValueByte, ErrorBooks, Writing
<1>10. CASE ClearLength
  <2>1. "length" \in DOMAIN fixup' /\ fixup'.length = 0
    BY <1>10 DEF ClearLength, ErrorBooks
  <2> QED
    BY <1>10, <2>1 DEF ClearLength, Halt, ErrorBooks, Writing
<1>11. ASSUME NEW new \in [Cells(BugLog) -> Byte], BugCheck(new) \/ WriteError(new)
       PROVE  ErrorBooks'
  <2>1. CASE Start(BugLog, new) /\ UNCHANGED <<data, magic, fixup, nvmValid, written>>
    BY <1>11, <2>1 DEF BugCheck, WriteError, Start, ErrorBooks, Writing
  <2> QED
    BY <1>2, <1>11, <2>1 DEF BugCheck, WriteError, bug_check_ex
<1> QED
  BY <1>1, <1>3, <1>4, <1>5, <1>6, <1>7, <1>8, <1>9, <1>10, <1>11 DEF Next

LEMMA ErrorBooksHold == Spec => []ErrorBooks
<1>1. Init => ErrorBooks
  BY DEF Init, ErrorBooks
<1> QED
  BY <1>1, ErrorBooksInductive, PTL DEF Spec

\* Whatever raw accesses fail, a bug check ends in a reset and in nothing
\* else: the program never goes on, also if the bug log cannot be written.
THEOREM BugCheckIsFinal == Spec => []BugCheckResets
<1>1. ErrorBooks => BugCheckResets
  BY DEF ErrorBooks, BugCheckResets
<1> QED
  BY <1>1, ErrorBooksHold, PTL

\* Whenever the program can read an initialised memory no roll back is due,
\* so nvm_read and a restart agree on the content, also where raw accesses
\* fail.
THEOREM Stability == Spec => []ReadsAreStable
<1>1. ErrorBooks => ReadsAreStable
  BY DEF ErrorBooks, ReadsAreStable
<1> QED
  BY <1>1, ErrorBooksHold, PTL

-----------------------------------------------------------------------------
(* The refinement.                                                         *)

\* The locals of nvm_write are what the abstract store calls a request.
LEMMA RequestFacts ==
  ASSUME IInv'
  PROVE  op' \in Atomic!Requests
  BY DEF IInv, TypeOK, Ops, Op, Cells, Atomic!Requests, Atomic!Cells

\* A step that keeps the memory is at most a request of the abstract store.
LEMMA SameMemory ==
  ASSUME IInv', UNCHANGED <<data, magic, fixup>>
  PROVE  Atomic!Request
<1>1. Logical' = Logical
  BY DEF Logical
<1>2. QED
  BY <1>1, RequestFacts DEF Atomic!Request

\* The roll back moves nothing that a caller can see.
LEMMA RollBackStutters ==
  ASSUME IInv, RestoreByte \/ Unfix
  PROVE  UNCHANGED <<Logical, magic, op>>
<1>1. /\ magic /\ fixup.length # 0
      /\ fixup.offset + fixup.length <= Size
      /\ \A j \in 0 .. i - 1 : data[fixup.offset + j] = fixup.backup[j]
  BY DEF IInv, RestoreByte, Unfix, RestoreProgress, RollingBack, BackupFits
<1>2. /\ fixup.offset \in Nat /\ fixup.length \in Nat /\ i \in Nat
      /\ data \in [Addr -> Byte]
  BY DEF IInv, TypeOK
<1>3. CASE RestoreByte
  <2>1. /\ i < fixup.length /\ magic' = magic /\ fixup' = fixup /\ op' = op
        /\ data' = [data EXCEPT ![fixup.offset + i] = fixup.backup[i]]
    BY <1>3 DEF RestoreByte, IInv, RestoreProgress
  <2>2. \A a \in Addr : a \notin fixup.offset .. fixup.offset + fixup.length - 1
                           => data'[a] = data[a]
    BY <1>2, <2>1
  <2>3. Logical' = Logical
    BY <1>1, <2>1, <2>2 DEF Logical
  <2>4. QED
    BY <2>1, <2>3
<1>4. CASE Unfix
  <2>1. /\ i = fixup.length /\ magic' = magic /\ data' = data /\ op' = op
    BY <1>4 DEF Unfix, IInv, RestoreProgress
  <2>2. fixup'.length = 0
    BY <1>4 DEF Unfix, IInv, TypeOK
  <2>3. Logical' = data
    BY <2>1, <2>2 DEF Logical
  <2>4. \A a \in Addr : a \in fixup.offset .. fixup.offset + fixup.length - 1
                           => fixup.backup[a - fixup.offset] = data[a]
    <3> SUFFICES ASSUME NEW a \in Addr,
                        a \in fixup.offset .. fixup.offset + fixup.length - 1
                 PROVE  fixup.backup[a - fixup.offset] = data[a]
      OBVIOUS
    <3>1. a - fixup.offset \in 0 .. i - 1 /\ fixup.offset + (a - fixup.offset) = a
      BY <1>2, <2>1 DEF Addr
    <3>2. QED
      BY <1>1, <3>1
  <2>5. Logical = [a \in Addr |-> data[a]]
    BY <1>1, <2>4 DEF Logical
  <2>6. QED
    BY <1>2, <2>1, <2>3, <2>5
<1>5. QED
  BY <1>3, <1>4

\* Saving the old value moves nothing that a caller can see: the header
\* makes the backup count when it equals the field it saves.
LEMMA BackupStutters ==
  ASSUME IInv, BackupByte \/ HeaderOffset \/ HeaderLength
  PROVE  UNCHANGED <<Logical, magic, op>>
<1>1. magic' = magic /\ op' = op /\ data' = data
  BY DEF BackupByte, HeaderOffset, HeaderLength
<1>2. pc \in {"backup", "header"} /\ data \in [Addr -> Byte]
  BY DEF IInv, TypeOK, BackupByte, HeaderOffset, HeaderLength
<1>3. magic => fixup.length = 0
  BY <1>2 DEF IInv, VoidBackup
<1>4. Logical = data
  BY <1>3 DEF Logical
<1>5. CASE BackupByte \/ HeaderOffset
  <2>1. fixup'.length = fixup.length
    BY <1>5 DEF BackupByte, HeaderOffset, IInv, TypeOK
  <2>2. Logical' = data'
    BY <1>1, <1>3, <2>1 DEF Logical
  <2>3. QED
    BY <1>1, <1>4, <2>2
<1>6. CASE HeaderLength
  <2>1. op # NoOp
    BY <1>2 DEF IInv, WriteProgress, Writing
  <2>2. PICK f \in Fields : f = op.field
    BY <2>1, OpFacts DEF IInv
  <2>3. f.offset \in Nat /\ f.length \in Nat
    BY FieldFacts
  <2>4. /\ fixup'.length = f.length /\ fixup'.offset = f.offset
        /\ fixup'.backup = fixup.backup
    BY <1>6, <2>2 DEF HeaderLength, IInv, TypeOK, WriteProgress
  <2>5. \A j \in 0 .. f.length - 1 : fixup.backup[j] = data[f.offset + j]
    BY <1>6, <2>2 DEF HeaderLength, IInv, WriteProgress
  <2>6. \A a \in Addr : a \in f.offset .. f.offset + f.length - 1
                           => fixup.backup[a - f.offset] = data[a]
    <3> SUFFICES ASSUME NEW a \in Addr, a \in f.offset .. f.offset + f.length - 1
                 PROVE  fixup.backup[a - f.offset] = data[a]
      OBVIOUS
    <3>1. a - f.offset \in 0 .. f.length - 1 /\ f.offset + (a - f.offset) = a
      BY <2>3 DEF Addr
    <3>2. QED
      BY <2>5, <3>1
  <2>7. CASE magic /\ f.length # 0
    <3>1. Logical' = [a \in Addr |-> data[a]]
      BY <1>1, <2>4, <2>6, <2>7 DEF Logical
    <3>2. QED
      BY <1>1, <1>2, <1>4, <3>1
  <2>8. CASE ~(magic /\ f.length # 0)
    <3>1. ~(magic' /\ fixup'.length # 0)
      BY <1>1, <2>4, <2>8
    <3>2. Logical' = data'
      BY <3>1 DEF Logical
    <3>3. QED
      BY <1>1, <1>4, <3>2
  <2>9. QED
    BY <2>7, <2>8
<1>7. QED
  BY <1>5, <1>6

\* Storing the new value shows nothing of it in an initialised memory until
\* the header is cleared; then all of it shows at once.
LEMMA ValueCommits ==
  ASSUME IInv, IInv', ValueByte \/ ClearLength
  PROVE  [Atomic!Next]_<<Logical, magic, op>>
<1>1. pc \in {"value", "clear"} /\ op # NoOp
  BY DEF ValueByte, ClearLength, IInv, WriteProgress, Writing
<1>2. PICK f \in Fields : f = op.field
  BY <1>1, OpFacts DEF IInv
<1>3. /\ f.offset \in Nat /\ f.length \in Nat \ {0} /\ f.offset + f.length <= Size
  BY FieldFacts
<1>4. /\ fixup.offset = f.offset /\ fixup.length = f.length /\ i \in Nat
      /\ data \in [Addr -> Byte] /\ data' \in [Addr -> Byte]
  BY <1>1, <1>2 DEF IInv, WriteProgress, TypeOK
<1>5. magic' = magic
  BY DEF ValueByte, ClearLength
<1>6. CASE ~magic
  <2>1. Logical' = data'
    BY <1>5, <1>6 DEF Logical
  <2>2. Atomic!Scribble
    BY <1>4, <1>5, <1>6, <2>1, RequestFacts DEF Atomic!Scribble, Atomic!Addr, Addr
  <2>3. QED
    BY <2>2 DEF Atomic!Next
<1>7. CASE magic /\ ValueByte
  <2>1. /\ i < f.length /\ fixup' = fixup /\ op' = op
        /\ data' = [data EXCEPT ![f.offset + i] = op.new[f.offset + i]]
    BY <1>2, <1>7 DEF ValueByte, IInv, WriteProgress
  <2>2. \A a \in Addr : a \notin f.offset .. f.offset + f.length - 1
                           => data'[a] = data[a]
    BY <1>3, <1>4, <2>1
  <2>3. Logical' = Logical
    BY <1>3, <1>4, <1>5, <1>7, <2>1, <2>2 DEF Logical
  <2>4. QED
    BY <1>5, <2>1, <2>3
<1>8. CASE magic /\ ClearLength
  <2>1. fixup'.length = 0 /\ data' = data /\ op' = NoOp /\ pc = "clear"
    BY <1>8 DEF ClearLength, Halt, IInv, TypeOK
  <2>2. Logical' = data
    BY <2>1 DEF Logical
  <2>3. \A j \in 0 .. f.length - 1 : data[f.offset + j] = op.new[f.offset + j]
    BY <1>2, <2>1 DEF IInv, WriteProgress
  <2>4. \A a \in Addr : a \in f.offset .. f.offset + f.length - 1
                           => op.new[a] = data[a]
    <3> SUFFICES ASSUME NEW a \in Addr, a \in f.offset .. f.offset + f.length - 1
                 PROVE  op.new[a] = data[a]
      OBVIOUS
    <3>1. a - f.offset \in 0 .. f.length - 1 /\ f.offset + (a - f.offset) = a
      BY <1>3 DEF Addr
    <3>2. QED
      BY <2>3, <3>1
  <2>5. \A a \in Addr : a \notin f.offset .. f.offset + f.length - 1
                           => Logical[a] = data[a]
    BY <1>3, <1>4, <1>8 DEF Logical
  <2>6. data = [a \in Addr |-> IF a \in f.offset .. f.offset + f.length - 1
                               THEN op.new[a] ELSE Logical[a]]
    BY <1>4, <2>4, <2>5
  <2>7. Logical' = Atomic!Overwrite(Logical, op.field, op.new)
    BY <1>2, <2>2, <2>6 DEF Atomic!Overwrite, Atomic!Addr, Addr, Atomic!Cells
  <2>8. Atomic!Commit
    BY <1>1, <1>5, <1>8, <2>1, <2>7 DEF Atomic!Commit
  <2>9. QED
    BY <2>8 DEF Atomic!Next
<1>9. QED
  BY <1>6, <1>7, <1>8

\* Where raw accesses do not fail nvm.c implements the atomic store: each
\* write takes effect at one instant or never, whatever power losses, bug
\* checks and interrupted roll backs surround it.
THEOREM Atomicity ==
  ASSUME RawFails = FALSE
  PROVE  Spec => WritesAreAtomic
<1>1. Init => Atomic!Init
  <2> SUFFICES ASSUME Init PROVE Atomic!Init
    OBVIOUS
  <2>1. Logical = data
    BY DEF Init, Logical
  <2>2. QED
    BY <2>1 DEF Init, Atomic!Init, Atomic!Addr, Addr
<1>2. IInv /\ IInv' /\ [Next]_vars => [Atomic!Next]_<<Logical, magic, op>>
  <2> SUFFICES ASSUME IInv, IInv', [Next]_vars
               PROVE  [Atomic!Next]_<<Logical, magic, op>>
    OBVIOUS
  <2>1. CASE PowerLoss \/ nvm_init
    BY <2>1, SameMemory DEF PowerLoss, nvm_init, Atomic!Next
  <2>2. CASE RestoreByte \/ Unfix
    BY <2>2, RollBackStutters
  <2>3. CASE nvm_data_init
    <3>1. fixup.length = 0 /\ fixup' = fixup /\ data' = data /\ op' = op
      BY <2>3 DEF nvm_data_init, IInv, VoidBackup
    <3>2. Logical' = Logical
      BY <3>1 DEF Logical
    <3>3. pc # "off" /\ ~nvmValid /\ magic' = TRUE
      BY <2>3 DEF nvm_data_init
    <3>4. ~magic
      BY <3>3, Zenon DEF IInv, ValidFlag
    <3>5. QED
      BY <3>1, <3>2, <3>3, <3>4 DEF Atomic!Declare, Atomic!Next
  <2>4. ASSUME NEW f \in Fields, NEW new \in [Cells(f) -> Byte], nvm_write(f, new)
        PROVE  Atomic!Request
    BY <2>4, SameMemory DEF nvm_write
  <2>5. CASE BackupByte \/ HeaderOffset \/ HeaderLength
    BY <2>5, BackupStutters
  <2>6. CASE ValueByte \/ ClearLength
    BY <2>6, ValueCommits
  <2>7. ASSUME NEW new \in [Cells(BugLog) -> Byte], BugCheck(new)
        PROVE  Atomic!Request
    BY <2>7, SameMemory DEF BugCheck, bug_check_ex
  <2>8. CASE InitError \/ \E new \in [Cells(BugLog) -> Byte] : WriteError(new)
    BY <2>8 DEF InitError, WriteError
  <2>9. CASE UNCHANGED vars
    <3>1. UNCHANGED <<data, magic, fixup, op>>
      BY <2>9 DEF vars
    <3>2. QED
      BY <3>1 DEF Logical
  <2>10. QED
    BY <2>1, <2>2, <2>3, <2>4, <2>5, <2>6, <2>7, <2>8, <2>9
       DEF Next, Atomic!Next
<1>3. QED
  BY <1>1, <1>2, Invariance, PTL DEF Spec, Atomic!Spec, WritesAreAtomic
=============================================================================
