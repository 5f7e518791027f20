------------------------------ MODULE I2cLink ------------------------------
(***************************************************************************)
(* The link between the baseband and the flight controller: the master     *)
(* builtin_i2c_master_transfer (arch/csr/i2c.c), the interrupt handler of  *)
(* the slave (arch/avr/i2c_slave.c), and the bus with the slave controller *)
(* between them.                                                           *)
(*                                                                         *)
(* The controller (external) stretches the clock after an address and      *)
(* after a byte until the handler has answered, and raises an interrupt on *)
(* a stop condition if PIEN is set, without holding the bus: the next      *)
(* address may overtake the handling of a stop.                            *)
(***************************************************************************)
EXTENDS Integers, SequencesExt, FiniteSetsExt

CONSTANTS
  BufferSize,  \* TWIS_BUFFER_SIZE
  AddrBytes,   \* bytes of a register address
  ByteBase,    \* 256 in the code
  Endpoints,   \* the table I2C_ENDPOINTS, a sequence of
               \* [addr, kind, content, writable, commits]
  Transfers,   \* the transfers the master makes: [rwn, addr, n]
  High,        \* the byte a master reads from a released bus
  None

ASSUME SizeAssumption ==
  /\ BufferSize \in Nat \ {0} /\ AddrBytes \in Nat \ {0}
  /\ ByteBase \in Nat \ {0, 1}
ASSUME EndpointsAssumption ==
  /\ Endpoints \in Seq([addr : Nat, kind : {"info", "progmem", "once"},
                        randomAccess : BOOLEAN, content : Seq(Nat),
                        writable : BOOLEAN, commits : BOOLEAN])

\* addr >> (8 * i), for as many bytes as a register address may have.
Shifted(addr) ==
  LET shifted[i \in 0 .. AddrBytes] ==
        IF i = 0 THEN addr ELSE shifted[i - 1] \div ByteBase
  IN  shifted

\* A register address fits into its bytes, and nobody reads nothing.
ASSUME TransfersAssumption ==
  \A t \in Transfers :
    /\ t.rwn \in BOOLEAN
    /\ t.addr \in Nat /\ Shifted(t.addr)[AddrBytes] = 0
    /\ t.n \in Nat /\ (t.rwn => t.n > 0)

NoTransfer == [rwn |-> FALSE, addr |-> 0, n |-> 0]

\* A call of an endpoint's write function, or of its writeComplete.
CallType ==
  [call : {"write"}, endpoint : DOMAIN Endpoints, offset : Nat, data : Seq(Nat)]
    \cup [call : {"commit"}, endpoint : DOMAIN Endpoints]

\* A transfer that the master has ended.
EndedType ==
  [op : Transfers \cup {NoTransfer}, got : Seq(Nat \cup {High}),
   ok : BOOLEAN, broken : BOOLEAN, overtaken : BOOLEAN]

ASSUME NoneAssumption ==
  None \notin Nat /\ None \notin Seq(Nat) /\ None \notin Seq(CallType) /\ None \notin EndedType

VARIABLES
  \* the master
  pc,        \* "idle", "sending", "restarted", "reading" or "exit"
  op,        \* the transfer under way
  sent,      \* the number of bytes sent of the register address and data
  got,       \* the bytes read
  ok,        \* the status is sys_status_success
  \* the bus and the slave controller
  irq,       \* the pending interrupt
  dir,       \* TRUE: the master reads
  nack,      \* RXACK: the master's last answer
  data,      \* the byte on the bus
  attached,  \* the slave has been addressed and has acknowledged so far
  pien,      \* stop interrupts are enabled
  \* the driver of the slave
  twi,       \* the twi_slave_t
  \* history
  calls,     \* the calls of endpoint functions since the last start
  broken,    \* a bus error hit the transfer under way
  ended,     \* the last transfer whose stop the master has sent:
             \* [op, got, ok, broken, overtaken]
  handled    \* ... and the calls the slave has made for it, up to now or to
             \* the start that followed

master == <<pc, op, sent, got, ok>>
bus == <<irq, dir, nack, data, attached>>
history == <<calls, broken, ended, handled>>
vars == <<master, bus, pien, twi, history>>

-----------------------------------------------------------------------------
(* Endpoints (services/dfu_service.c).                                     *)

\* The endpoint with the largest address up to addr: an exact match is no
\* better than that, so randomAccess makes no difference.
twi_select_endpoint(addr) ==
  LET below == {i \in DOMAIN Endpoints : Endpoints[i].addr <= addr}
      nearest == {i \in below : \A j \in below : Endpoints[j].addr <= Endpoints[i].addr}
  IN  IF below = {} THEN None ELSE Max(nearest)

\* What a read function puts into a buffer of BufferSize bytes, or None for
\* an error: dfu_info returns what there is from the offset on, dfu_progmem
\* insists on the whole buffer, the others know no offset.
EndpointRead(e, offset) ==
  LET content == Endpoints[e].content
      from == SubSeq(content, offset + 1, Min({offset + BufferSize, Len(content)}))
  IN  CASE Endpoints[e].kind = "info" -> IF offset >= Len(content) THEN None ELSE from
        [] Endpoints[e].kind = "progmem" ->
             IF offset + BufferSize > Len(content) THEN None ELSE from
        [] Endpoints[e].kind = "once" -> IF offset > 0 THEN None ELSE from

\* ... with its result in the buffer, and the status of the call.
Filled(t) ==
  LET bytes == IF t.currentEndpoint = None THEN None
               ELSE EndpointRead(t.currentEndpoint, t.offset)
  IN  IF bytes = None THEN [twi |-> t, error |-> TRUE]
      ELSE [twi |-> [t EXCEPT !.bufLen = Len(bytes),
                              !.buffer = bytes \o SubSeq(@, Len(bytes) + 1, BufferSize)],
            error |-> FALSE]

-----------------------------------------------------------------------------
(* The driver of the slave.                                                *)

twis_start_transaction(t, rwn, extended) ==
  LET new == IF extended
             THEN [t EXCEPT !.offset = IF t.receivingAddr THEN @ ELSE @ + t.bufPos,
                            !.receivingAddr = FALSE]
             ELSE [t EXCEPT !.receivingAddr = TRUE, !.addr = 0, !.offset = 0,
                            !.currentEndpoint = None]
      empty == [new EXCEPT !.rwn = rwn, !.busy = TRUE,
                           !.bufLen = BufferSize, !.bufPos = 0]
  IN  IF rwn THEN Filled(empty) ELSE [twi |-> empty, error |-> FALSE]

\* Slip: the data goes to the endpoint whether or not the transaction is over.
Flushed_Always(t) ==
  IF ~t.rwn /\ ~t.receivingAddr /\ t.currentEndpoint # None
     /\ Endpoints[t.currentEndpoint].writable
  THEN <<[call |-> "write", endpoint |-> t.currentEndpoint, offset |-> t.offset,
          data |-> SubSeq(t.buffer, 1, t.bufPos)]>>
  ELSE <<>>

\* The call of the write function that twis_end_transaction makes, whose
\* result it ignores.
Flushed(t) ==
  IF t.busy /\ ~t.rwn /\ ~t.receivingAddr /\ t.currentEndpoint # None
     /\ Endpoints[t.currentEndpoint].writable
  THEN <<[call |-> "write", endpoint |-> t.currentEndpoint, offset |-> t.offset,
          data |-> SubSeq(t.buffer, 1, t.bufPos)]>>
  ELSE <<>>

\* Its effect on the driver. Called with an error status it is all there is.
twis_end_transaction(t) == [t EXCEPT !.busy = FALSE]

\* The answer of a handler: a byte is acknowledged, or the controller leaves
\* the transaction (CMD_COMPTRANS) and the driver aborts it.
Answer(result) ==
  /\ twi' = IF result.error THEN twis_end_transaction(result.twi) ELSE result.twi
  /\ attached' = ~result.error

\* Slip: stop interrupts stay enabled.
DisableStop_Not == UNCHANGED pien

DisableStop == pien' = FALSE

\* An address match.
twis_start_handler ==
  /\ irq = "start"
  /\ LET result == twis_start_transaction(twis_end_transaction(twi), dir, dir)
         flushed == calls \o Flushed(twi)
     IN  /\ Answer(result)
         /\ calls' = IF dir THEN flushed ELSE <<>>
         /\ handled' = IF dir \/ ended = None THEN handled ELSE flushed
  /\ DisableStop
  /\ irq' = "none"
  /\ UNCHANGED <<master, dir, nack, data, broken, ended>>

\* A stop condition.
twis_stop_handler ==
  /\ irq = "stop"
  /\ LET e == twi.currentEndpoint
         flushed == calls \o Flushed(twi)
         commit == IF ~twi.rwn /\ e # None /\ Endpoints[e].commits
                   THEN <<[call |-> "commit", endpoint |-> e]>> ELSE <<>>
     IN  /\ calls' = flushed \o commit
         /\ handled' = calls'
  /\ twi' = twis_end_transaction(twi)
  /\ DisableStop
  /\ irq' = "none"
  /\ UNCHANGED <<master, dir, nack, data, attached, broken, ended>>

BufferFull(t) == t.bufPos >= t.bufLen

AddressComplete(n) == n >= AddrBytes

\* A byte from the master: of the register address, or data.
AddressByte ==
  /\ irq = "data" /\ ~dir /\ twi.receivingAddr
  /\ LET addr == twi.addr * ByteBase + data
         e == twi_select_endpoint(addr)
         partial == [twi EXCEPT !.addr = addr, !.bufPos = @ + 1]
         whole == [partial EXCEPT !.bufPos = 0, !.receivingAddr = FALSE]
     IN  Answer(IF AddressComplete(partial.bufPos)
                THEN [twi |-> [whole EXCEPT !.currentEndpoint = e], error |-> e = None]
                ELSE [twi |-> partial, error |-> FALSE])
  /\ UNCHANGED calls

DataByte ==
  /\ irq = "data" /\ ~dir /\ ~twi.receivingAddr
  /\ LET room == IF BufferFull(twi)
                 THEN twis_start_transaction(twis_end_transaction(twi), FALSE, TRUE).twi
                 ELSE twi
     IN  Answer([twi |-> [room EXCEPT !.buffer[room.bufPos + 1] = data, !.bufPos = @ + 1],
                 error |-> FALSE])
  /\ calls' = IF BufferFull(twi) THEN calls \o Flushed(twi) ELSE calls

\* Slip: the handler does not enable stop interrupts.
EnableStop_Not == UNCHANGED pien

EnableStop == pien' = TRUE

twis_write_handler ==
  /\ AddressByte \/ DataByte
  /\ EnableStop
  /\ irq' = "none"
  /\ UNCHANGED <<master, dir, nack, data, broken, ended, handled>>

\* Slip: any NACK ends the transaction, be it one of an earlier transfer.
NackSeen_Stale == nack

\* RXACK keeps its value from one transfer to the next, and counts only
\* once a byte has been sent.
NackSeen == (twi.bufPos > 0 \/ twi.offset > 0) /\ nack

\* Slip: the transaction of a read stays open when the master has had enough.
EndOfRead_StaysBusy ==
  /\ NackSeen
  /\ irq' = "none" /\ attached' = FALSE
  /\ UNCHANGED <<twi, data>>

\* The byte was the last.
EndOfRead ==
  /\ NackSeen
  /\ irq' = "none" /\ attached' = FALSE
  /\ twi' = twis_end_transaction(twi)
  /\ UNCHANGED data

\* Another byte is sent, from a new buffer if this one is used up.
NextByte ==
  /\ ~NackSeen
  /\ LET result ==
           IF BufferFull(twi)
           THEN twis_start_transaction(twis_end_transaction(twi), TRUE, TRUE)
           ELSE [twi |-> twi, error |-> FALSE]
         t == result.twi
     IN  IF result.error \/ t.bufLen = 0
         THEN Answer([twi |-> t, error |-> TRUE]) /\ UNCHANGED data
         ELSE /\ Answer([twi |-> [t EXCEPT !.bufPos = @ + 1], error |-> FALSE])
              /\ data' = t.buffer[t.bufPos + 1]
  /\ irq' = "none"

twis_read_handler ==
  /\ irq = "data" /\ dir
  /\ EndOfRead \/ NextByte
  /\ UNCHANGED <<master, dir, nack, pien, calls, broken, ended, handled>>

\* A bus error or a collision.
twis_error_handler ==
  /\ irq = "error"
  /\ twi' = twis_end_transaction(twi)
  /\ irq' = "none"
  /\ UNCHANGED <<master, dir, nack, data, attached, pien, history>>

twi_slave_interrupt ==
  \/ twis_start_handler \/ twis_stop_handler
  \/ twis_write_handler \/ twis_read_handler \/ twis_error_handler

-----------------------------------------------------------------------------
(* The master.                                                             *)

\* The bytes after the chip address: the register, most significant byte
\* first, and the data of a write, which are numbered from 1.
Frame(t) ==
  [i \in 1 .. AddrBytes |-> Shifted(t.addr)[AddrBytes - i] % ByteBase]
  \o [i \in 1 .. IF t.rwn THEN 0 ELSE t.n |-> i]

\* The start condition and the address of the chip.
Start ==
  /\ pc = "idle" /\ irq \in {"none", "stop"}
  /\ \E t \in Transfers : op' = t
  /\ pc' = "sending"
  /\ irq' = "start" /\ dir' = FALSE /\ attached' = TRUE
  /\ ended' = IF ended = None THEN None ELSE [ended EXCEPT !.overtaken = irq = "stop"]
  /\ UNCHANGED <<sent, got, ok, nack, data, pien, twi, calls, broken, handled>>

\* The history of the transfer before is no longer needed.
Forget == ended' = None /\ handled' = None

\* The next byte; the slave has acknowledged the one before.
SendByte ==
  /\ pc = "sending" /\ irq = "none" /\ attached
  /\ sent < Len(Frame(op))
  /\ data' = Frame(op)[sent + 1] /\ sent' = sent + 1
  /\ irq' = "data"
  /\ Forget
  /\ UNCHANGED <<pc, op, got, ok, dir, nack, attached, pien, twi, calls, broken>>

AllSent ==
  /\ pc = "sending" /\ irq = "none" /\ attached
  /\ sent = Len(Frame(op))
  /\ UNCHANGED <<op, sent, got, ok, nack, data, attached, pien, twi, history>>

WriteDone == AllSent /\ ~op.rwn /\ pc' = "exit" /\ UNCHANGED <<irq, dir>>

Restart == AllSent /\ op.rwn /\ pc' = "restarted" /\ irq' = "start" /\ dir' = TRUE

\* Slip: I2cRawWaitAck's status is not looked at.
NotAcked_Ignored == pc = "sending" /\ pc = "restarted" /\ UNCHANGED vars

\* The slave has not acknowledged the last byte.
NotAcked ==
  /\ pc \in {"sending", "restarted"} /\ irq = "none" /\ ~attached
  /\ pc' = "exit" /\ ok' = FALSE
  /\ Forget
  /\ UNCHANGED <<op, sent, got, bus, pien, twi, calls, broken>>

\* The address of the read is acknowledged; the slave is asked for a byte.
ReadAcked ==
  /\ pc = "restarted" /\ irq = "none" /\ attached
  /\ pc' = "reading" /\ irq' = "data"
  /\ UNCHANGED <<op, sent, got, ok, dir, nack, data, attached, pien, twi, history>>

\* A byte is read and answered: with NACK if it is the last. A slave that has
\* left the transaction leaves the bus high.
ReadByte ==
  /\ pc = "reading" /\ irq = "none"
  /\ got' = Append(got, IF attached THEN data ELSE High)
  /\ pc' = IF Len(got') = op.n THEN "exit" ELSE pc
  /\ nack' = IF attached THEN Len(got') = op.n ELSE nack
  /\ irq' = IF attached THEN "data" ELSE "none"
  /\ UNCHANGED <<op, sent, ok, dir, data, attached, pien, twi, history>>

\* The stop condition.
Stop ==
  /\ pc = "exit" /\ irq = "none"
  /\ pc' = "idle" /\ op' = NoTransfer /\ sent' = 0 /\ got' = <<>> /\ ok' = TRUE
  /\ broken' = FALSE
  /\ irq' = IF pien THEN "stop" ELSE "none"
  /\ attached' = FALSE
  /\ ended' = [op |-> op, got |-> got, ok |-> ok, broken |-> broken, overtaken |-> FALSE]
  /\ handled' = None
  /\ UNCHANGED <<dir, nack, data, pien, twi, calls>>

\* A raw access of the master fails: a byte, an answer or a start condition
\* does not get through. The stop condition has to wait for a clock that the
\* slave stretches, so nothing is lost by failing behind its answer; an
\* access that fails before the slave is addressed leaves no trace in it.
RawFails ==
  /\ pc \in {"sending", "restarted", "reading"} /\ irq = "none"
  /\ pc' = "exit" /\ ok' = FALSE
  /\ Forget
  /\ UNCHANGED <<op, sent, got, bus, pien, twi, calls, broken>>

\* What the blocking call does as long as the bus lets it.
Progress == SendByte \/ WriteDone \/ Restart \/ NotAcked \/ ReadAcked \/ ReadByte \/ Stop

builtin_i2c_master_transfer == Progress \/ RawFails

\* Noise, or another master: the slave controller sees an illegal condition
\* on the bus and leaves the transaction.
BusError ==
  /\ attached /\ irq = "none"
  /\ irq' = "error" /\ attached' = FALSE /\ broken' = TRUE
  /\ UNCHANGED <<master, dir, nack, data, pien, twi, calls, ended, handled>>

-----------------------------------------------------------------------------
Init ==
  /\ pc = "idle" /\ op = NoTransfer /\ sent = 0 /\ got = <<>> /\ ok = TRUE
  /\ irq = "none" /\ dir = FALSE /\ nack = FALSE /\ data = 0 /\ attached = FALSE
  /\ pien = FALSE
  /\ twi = [busy |-> FALSE, rwn |-> FALSE, receivingAddr |-> FALSE,
            currentEndpoint |-> None, addr |-> 0, offset |-> 0,
            bufLen |-> 0, bufPos |-> 0, buffer |-> [i \in 1 .. BufferSize |-> 0]]
  /\ calls = <<>> /\ broken = FALSE /\ ended = None /\ handled = None

Next == Start \/ builtin_i2c_master_transfer \/ twi_slave_interrupt \/ BusError

Spec == Init /\ [][Next]_vars

\* The master's blocking call goes on as long as the bus lets it, and the
\* slave's interrupt, which no other interrupt can hold off for good, is
\* served. Nothing has to fail.
FairSpec ==
  Spec /\ WF_vars(Progress) /\ WF_vars(twi_slave_interrupt)

-----------------------------------------------------------------------------
(* Properties.                                                             *)

Served(addr, e) ==
  /\ Endpoints[e].addr <= addr
  /\ \A i \in DOMAIN Endpoints : Endpoints[i].addr <= addr => Endpoints[i].addr <= Endpoints[e].addr

Writes(cs) == {k \in DOMAIN cs : cs[k].call = "write"}
Commits(cs) == {k \in DOMAIN cs : cs[k].call = "commit"}

\* Where the data of a call ends.
End(c) == c.offset + Len(c.data)

\* However a write is cut into buffers, its endpoint gets the bytes the master
\* has sent, in order, each once and at its offset (i2c_slave.c:73); all of
\* them if the master has been told so and no bus error intervened.
Delivered ==
  (handled # None /\ ~ended.op.rwn) =>
    LET w == Writes(handled)
    IN  /\ \A k \in w : LET c == handled[k] IN
             /\ Served(ended.op.addr, c.endpoint)
             /\ k > 1 => k - 1 \in w
             /\ c.offset = IF k = 1 THEN 0 ELSE End(handled[k - 1])
             /\ c.data = [i \in 1 .. Len(c.data) |-> c.offset + i]
             /\ End(c) <= ended.op.n
        /\ (ended.ok /\ ~ended.broken) =>
             \/ \E k \in w : End(handled[k]) = ended.op.n
             \/ \E e \in DOMAIN Endpoints :
                  Served(ended.op.addr, e) /\ ~Endpoints[e].writable

\* Whatever becomes of a transfer, its endpoint is committed at most once,
\* after its last byte. A write that succeeds without a bus error and whose
\* stop is handled in time is committed; a read that succeeds never is. One
\* that fails before its second start is taken for a write of no bytes, and
\* is (i2c_slave.c:163-177, services.h:37).
CommittedOnce ==
  handled # None =>
    LET c == Commits(handled)
    IN  /\ c \subseteq {Len(handled)}
        /\ (ended.ok /\ ended.op.rwn) => c = {}
        /\ (ended.ok /\ ~ended.op.rwn /\ ~ended.broken) =>
             \E e \in DOMAIN Endpoints :
               /\ Served(ended.op.addr, e)
               /\ (Endpoints[e].commits /\ ~ended.overtaken) =>
                    c = {Len(handled)} /\ Last(handled).endpoint = e

\* How many bytes the read functions give away through the slave's buffer.
Readable(e) ==
  LET size == Len(Endpoints[e].content)
  IN  CASE Endpoints[e].kind = "info" -> size
        [] Endpoints[e].kind = "progmem" -> size - (size % BufferSize)
        [] Endpoints[e].kind = "once" -> Min({size, BufferSize})

\* The master reads what the endpoint holds, and a released bus behind its
\* end or after a bus error: no byte of the buffer is sent twice or left over
\* from another transfer (i2c_slave.c:233-258).
ReadsTrue ==
  (ended # None /\ ended.op.rwn /\ ended.ok) =>
    \E e \in DOMAIN Endpoints :
      /\ Served(ended.op.addr, e)
      /\ \A i \in DOMAIN ended.got :
           \/ i <= Readable(e) /\ ended.got[i] = Endpoints[e].content[i]
           \/ (ended.broken \/ i > Readable(e)) /\ ended.got[i] = High

\* A stop is only seen while the slave receives: "this should always hold"
\* (i2c_slave.c:173).
StopAfterWrite == irq = "stop" => ~twi.rwn

\* Once a transfer is over on the bus it is over for the slave. Only one that
\* has failed may leave something open there, a read or a transaction without
\* a byte: neither has anything to flush when the next start ends it
\* (i2c_slave.c:116-128).
NoneBusyWhenIdle ==
  (pc = "idle" /\ irq = "none" /\ twi.busy) =>
    /\ ended # None /\ ~ended.ok
    /\ twi.rwn \/ (twi.receivingAddr /\ twi.bufPos = 0)

\* A transfer of the master comes to an end, whatever the bus does.
TransferEnds == pc # "idle" ~> pc = "idle"
=============================================================================
