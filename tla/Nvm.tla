-------------------------------- MODULE Nvm --------------------------------
(***************************************************************************)
(* hardware/nvm.c: writes to the on-chip non-volatile memory, made atomic  *)
(* by a backup in the fixup area that nvm_init rolls back.  Every byte     *)
(* that reaches the memory is a step of its own and the supply may fail    *)
(* before any of them, during a write and during the roll back.            *)
(*                                                                         *)
(* The fixup header is {offset, length}.  Both fit into one byte on every  *)
(* device of the project (the area below NVM_FIXUP_OFFSET is 52 bytes at   *)
(* most), so each is one cell here.                                        *)
(***************************************************************************)
EXTENDS Naturals

CONSTANTS
  Size,      \* bytes between the magic number and NVM_FIXUP_OFFSET
  Byte,      \* the values of a byte
  Fields,    \* the regions the program writes: records [offset, length]
  BugLog,    \* the field that bug_check_ex writes
  RawFails   \* TRUE: raw accesses may report an error (NvmWrite on the CSR);
             \* FALSE: they never do (the EEPROM of the AVR)

FieldType == [offset : Nat, length : Nat \ {0}]

ASSUME SizeAssumption == Size \in Nat \ {0}
ASSUME ByteAssumption == Byte # {}
ASSUME FieldsAssumption ==
  /\ Fields \subseteq FieldType
  /\ \A f \in Fields : f.offset + f.length <= Size
  /\ BugLog \in Fields
ASSUME RawAssumption == RawFails \in BOOLEAN

VARIABLES
  data,         \* the bytes of the data area
  magic,        \* the two bytes at NVM_SANITY_OFFSET hold NVM_MAGIC_NUMBER
  fixup,        \* the fixup area: [offset, length, backup]
  pc,           \* what the processor is doing
  op,           \* the locals of nvm_write: the field and the new bytes
  i,            \* bytes transferred in the current phase
  nvmValid,     \* the flag nvm_init leaves in RAM
  written,      \* a write has completed since the device was started
  didBugcheck   \* the guard in bug_check_ex against recursion

vars == <<data, magic, fixup, pc, op, i, nvmValid, written, didBugcheck>>

Addr == 0 .. Size - 1

Cells(f) == f.offset .. f.offset + f.length - 1

Overwrite(image, f, new) ==
  [a \in Addr |-> IF a \in Cells(f) THEN new[a] ELSE image[a]]

Op(f) == [field : {f}, new : [Cells(f) -> Byte]]

Ops == UNION {Op(f) : f \in Fields}

NoField == [offset |-> 0, length |-> 0]

NoOp == [field |-> NoField, new |-> [a \in Cells(NoField) |-> 0]]

Writing == {"backup", "header", "value", "clear"}

RollingBack == {"restore", "unfix"}

-----------------------------------------------------------------------------
(* Starting and stopping.                                                  *)

\* The supply fails, the watchdog bites or __reset is called: RAM is lost.
Halt ==
  /\ pc' = "off"
  /\ op' = NoOp
  /\ i' = 0
  /\ nvmValid' = FALSE
  /\ written' = FALSE
  /\ didBugcheck' = FALSE

PowerLoss == pc # "off" /\ Halt /\ UNCHANGED <<data, magic, fixup>>

\* nvm_init up to the decision to roll back.
nvm_init ==
  /\ pc = "off"
  /\ nvmValid' = magic
  /\ pc' = IF magic /\ fixup.length # 0 THEN "restore" ELSE "idle"
  /\ UNCHANGED <<data, magic, fixup, op, i, written, didBugcheck>>

\* The roll back: nvm_raw_write of the backup, byte by byte.
RestoreByte ==
  /\ pc = "restore"
  /\ data' = [data EXCEPT ![fixup.offset + i] = fixup.backup[i]]
  /\ i' = i + 1
  /\ pc' = IF i + 1 = fixup.length THEN "unfix" ELSE "restore"
  /\ UNCHANGED <<magic, fixup, op, nvmValid, written, didBugcheck>>

\* Slip: a backup that has been restored stays in force.
Unfix_KeepsLength ==
  /\ pc = "unfix"
  /\ pc' = "idle"
  /\ i' = 0
  /\ UNCHANGED <<data, magic, fixup, op, nvmValid, written, didBugcheck>>

\* The roll back is complete: the backup is invalidated.
Unfix ==
  /\ pc = "unfix"
  /\ fixup' = [fixup EXCEPT !.length = 0]
  /\ pc' = "idle"
  /\ i' = 0
  /\ UNCHANGED <<data, magic, op, nvmValid, written, didBugcheck>>

\* A raw access of nvm_init reports an error: the chip is reset.
InitError ==
  /\ RawFails
  /\ pc \in RollingBack
  /\ Halt
  /\ UNCHANGED <<data, magic, fixup>>

\* The caller has given the fields their defaults and declares the memory
\* initialised (avr_init, AppInit: always after dfu_init_nvm has returned).
nvm_data_init ==
  /\ pc = "idle"
  /\ ~nvmValid
  /\ written
  /\ magic' = TRUE
  /\ nvmValid' = TRUE
  /\ UNCHANGED <<data, fixup, pc, op, i, written, didBugcheck>>

-----------------------------------------------------------------------------
(* nvm_write, one raw byte at a time.                                      *)

Start(f, new) ==
  /\ op' = [field |-> f, new |-> new]
  /\ i' = 0
  /\ pc' = "backup"

nvm_write(f, new) ==
  /\ pc = "idle"
  /\ Start(f, new)
  /\ UNCHANGED <<data, magic, fixup, nvmValid, written, didBugcheck>>

\* The old value goes to the backup area.  The code reads it into a buffer
\* first; the field does not change before the backup is complete.
BackupByte ==
  /\ pc = "backup"
  /\ i < op.field.length
  /\ fixup' = [fixup EXCEPT !.backup[i] = data[op.field.offset + i]]
  /\ i' = i + 1
  /\ UNCHANGED <<data, magic, pc, op, nvmValid, written, didBugcheck>>

\* Slip: the value is written before the backup counts.
HeaderOffset_Early ==
  /\ pc = "backup"
  /\ i = op.field.length
  /\ fixup' = [fixup EXCEPT !.offset = op.field.offset]
  /\ pc' = "value"
  /\ i' = 0
  /\ UNCHANGED <<data, magic, op, nvmValid, written, didBugcheck>>

\* The header, first its offset ...
HeaderOffset ==
  /\ pc = "backup"
  /\ i = op.field.length
  /\ fixup' = [fixup EXCEPT !.offset = op.field.offset]
  /\ pc' = "header"
  /\ UNCHANGED <<data, magic, op, i, nvmValid, written, didBugcheck>>

\* ... then its length, which makes the backup count.
HeaderLength ==
  /\ pc = "header"
  /\ fixup' = [fixup EXCEPT !.length = op.field.length]
  /\ pc' = "value"
  /\ i' = 0
  /\ UNCHANGED <<data, magic, op, nvmValid, written, didBugcheck>>

ValueByte ==
  /\ pc = "value"
  /\ LET a == op.field.offset + i IN data' = [data EXCEPT ![a] = op.new[a]]
  /\ i' = i + 1
  /\ pc' = IF i + 1 = op.field.length THEN "clear" ELSE "value"
  /\ UNCHANGED <<magic, fixup, op, nvmValid, written, didBugcheck>>

\* Slip: bug_check_ex returns after the bug log has been written.
ClearLength_NoReset ==
  /\ pc = "clear"
  /\ fixup' = [fixup EXCEPT !.length = 0]
  /\ pc' = "idle"
  /\ op' = NoOp
  /\ i' = 0
  /\ written' = TRUE
  /\ UNCHANGED <<data, magic, nvmValid, didBugcheck>>

\* The length is zeroed and nvm_write returns, to bug_check_ex if that is
\* who called it, which resets the chip.
ClearLength ==
  /\ pc = "clear"
  /\ fixup' = [fixup EXCEPT !.length = 0]
  /\ \/ /\ didBugcheck
        /\ Halt
     \/ /\ ~didBugcheck
        /\ pc' = "idle"
        /\ op' = NoOp
        /\ i' = 0
        /\ written' = TRUE
        /\ UNCHANGED <<nvmValid, didBugcheck>>
  /\ UNCHANGED <<data, magic>>

-----------------------------------------------------------------------------
(* bug_check_ex, called anywhere in the program and by nvm_write itself    *)
(* when a raw access fails.                                                *)

bug_check_ex(new) ==
  /\ \/ ~didBugcheck /\ didBugcheck' = TRUE /\ Start(BugLog, new)
        /\ UNCHANGED <<nvmValid, written>>
     \/ didBugcheck /\ Halt
  /\ UNCHANGED <<data, magic, fixup>>

\* The program's own bug checks fall between two writes.  nvm_write makes none
\* of its own before its last line, and what could interrupt it makes none: the
\* CSR calls one handler after the other, and of the AVR's interrupts only that
\* without a handler does (BADISR_vect), which nobody enables.
BugCheck(new) == pc = "idle" /\ bug_check_ex(new)

\* nvm_write, line 72: an error of any raw access ends in a bug check.
WriteError(new) == RawFails /\ pc \in Writing /\ bug_check_ex(new)

-----------------------------------------------------------------------------
\* A device that has never been started, or one of which only the EEPROM
\* content is known: without the magic number any content is possible.
Init ==
  /\ data \in [Addr -> Byte]
  /\ magic = FALSE
  /\ fixup \in [offset : 0 .. Size, length : 0 .. Size, backup : [Addr -> Byte]]
  /\ pc = "off"
  /\ op = NoOp
  /\ i = 0
  /\ nvmValid = FALSE
  /\ written = FALSE
  /\ didBugcheck = FALSE

Next ==
  \/ PowerLoss
  \/ nvm_init
  \/ RestoreByte
  \/ Unfix
  \/ InitError
  \/ nvm_data_init
  \/ \E f \in Fields : \E new \in [Cells(f) -> Byte] : nvm_write(f, new)
  \/ BackupByte
  \/ HeaderOffset
  \/ HeaderLength
  \/ ValueByte
  \/ ClearLength
  \/ \E new \in [Cells(BugLog) -> Byte] : BugCheck(new) \/ WriteError(new)

Spec == Init /\ [][Next]_vars

-----------------------------------------------------------------------------
(* Properties.                                                             *)

\* Every variable keeps its type.
TypeOK ==
  /\ data \in [Addr -> Byte]
  /\ magic \in BOOLEAN
  /\ fixup \in [offset : 0 .. Size, length : 0 .. Size, backup : [Addr -> Byte]]
  /\ pc \in {"off", "idle"} \cup Writing \cup RollingBack
  /\ op \in Ops \cup {NoOp}
  /\ i \in 0 .. Size
  /\ nvmValid \in BOOLEAN
  /\ written \in BOOLEAN
  /\ didBugcheck \in BOOLEAN

\* What the memory holds as far as a caller can ever tell: the data area
\* with the roll back that the next nvm_init would carry out applied to it.
Logical ==
  IF magic /\ fixup.length # 0
  THEN [a \in Addr |-> IF a \in fixup.offset .. fixup.offset + fixup.length - 1
                       THEN fixup.backup[a - fixup.offset]
                       ELSE data[a]]
  ELSE data

\* nvm.c behaves like a store in which each write happens at one instant:
\* no order of writes, bug checks, power losses and roll backs leaves a
\* mixture of old and new bytes (nvm.c:48-49).
Atomic == INSTANCE AtomicNvm
            WITH store <- Logical, valid <- magic, req <- op, None <- NoOp

WritesAreAtomic == Atomic!Spec

\* nvm_read copies straight from the data area, so whenever the program can
\* read, an initialised memory needs no roll back and what it reads is what
\* a restart would give it as well.
ReadsAreStable == pc = "idle" /\ nvmValid => fixup.length = 0

\* A bug check ends in a reset and in nothing else, even if the write of the
\* bug log fails in turn: the program never goes on (kernel.c:38-69).
BugCheckResets == didBugcheck => pc \in Writing
=============================================================================
