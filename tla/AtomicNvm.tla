----------------------------- MODULE AtomicNvm -----------------------------
(***************************************************************************)
(* What nvm.c promises its callers: a store in which a write replaces one  *)
(* field as a whole, at one instant, whatever power losses surround it.    *)
(* While the store has not been declared initialised its content means     *)
(* nothing and may change in any way.                                      *)
(***************************************************************************)
EXTENDS Naturals

CONSTANTS
  Size,    \* bytes in the data area
  Byte,    \* the values of a byte
  Fields,  \* the regions callers write: records [offset, length]
  None     \* no write has been requested

VARIABLES
  store,   \* the content a caller relies on
  valid,   \* the store has been declared initialised
  req      \* the write that has been requested and has not returned

Addr == 0 .. Size - 1

Cells(f) == f.offset .. f.offset + f.length - 1

\* The content `image` with the cells of f replaced by `new`.
Overwrite(image, f, new) ==
  [a \in Addr |-> IF a \in Cells(f) THEN new[a] ELSE image[a]]

Requests ==
  {None} \cup (UNION {[field : {f}, new : [Cells(f) -> Byte]] : f \in Fields})

Init == store \in [Addr -> Byte] /\ valid \in BOOLEAN /\ req = None

\* A write is requested, or the one in progress is given up by a restart or
\* in favour of another: this alone never changes the content.
Request == req' \in Requests /\ UNCHANGED <<store, valid>>

\* The requested write takes effect and returns.
Commit ==
  /\ valid
  /\ req # None
  /\ store' = Overwrite(store, req.field, req.new)
  /\ req' = None
  /\ UNCHANGED valid

\* Before the store is initialised its content means nothing.
Scribble ==
  /\ ~valid
  /\ store' \in [Addr -> Byte]
  /\ req' \in Requests
  /\ UNCHANGED valid

Declare == ~valid /\ valid' = TRUE /\ UNCHANGED <<store, req>>

Next == Request \/ Commit \/ Scribble \/ Declare

Spec == Init /\ [][Next]_<<store, valid, req>>
=============================================================================
