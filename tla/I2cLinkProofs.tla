--------------------------- MODULE I2cLinkProofs ---------------------------
(***************************************************************************)
(* Proofs about I2cLink, for any register map, any buffer and address size *)
(* and any transfers. IInv ties the state of the slave's driver to the     *)
(* transfer: the slave is done with a transfer once the bus is, and sees   *)
(* stops only while it receives. DataInv adds what has become of the bytes:*)
(* what the master writes is delivered in order and committed once, and    *)
(* what it reads is what the endpoint holds.                               *)
(***************************************************************************)
EXTENDS I2cLink, SequenceTheorems, WellFoundedInduction, TLAPS

-----------------------------------------------------------------------------
(* Numbers.                                                                *)

LEMMA LeastOf ==
  ASSUME NEW T \in SUBSET Nat, T # {}
  PROVE  \E n \in T : \A m \in T : n <= m
<1> DEFINE R == OpToRel(<, Nat)
<1>1. \E n \in T : \A m \in T : ~(<<m, n>> \in R)
  BY NatLessThanWellFounded, WFMin, Zenon
<1>2. \A m, n \in Nat : m < n => <<m, n>> \in R
  BY Zenon DEF OpToRel
<1>3. \A m \in T : m \in Nat
  OBVIOUS
<1> HIDE DEF R
<1>4. \A m, n \in T : ~(<<m, n>> \in R) => n <= m
  BY <1>2, <1>3
<1> QED BY <1>1, <1>4

\* The largest of some bounded numbers.
LEMMA MaxFacts ==
  ASSUME NEW T \in SUBSET Nat, T # {}, NEW b \in Nat, \A x \in T : x <= b
  PROVE  Max(T) \in T /\ \A x \in T : x <= Max(T)
<1> DEFINE U == {b - x : x \in T}
<1>1. U \in SUBSET Nat /\ U # {}
  <2>1. \A x \in T : b - x \in Nat
    OBVIOUS
  <2> QED BY <2>1
<1>2. PICK n \in U : \A m \in U : n <= m
  BY <1>1, LeastOf
<1>3. PICK x \in T : n = b - x
  BY <1>2
<1>4. \A y \in T : x >= y
  <2> TAKE y \in T
  <2>1. b - y \in U /\ n <= b - y
    BY <1>2
  <2> QED BY <1>3, <2>1
<1>5. Max(T) \in T /\ \A y \in T : Max(T) >= y
  BY <1>4 DEF Max
<1> QED BY <1>5

LEMMA MinFacts ==
  ASSUME NEW a \in Nat, NEW b \in Nat
  PROVE  /\ a <= b => Min({a, b}) = a
         /\ b <= a => Min({a, b}) = b
<1>1. CASE a <= b
  <2>1. a \in {a, b} /\ \A y \in {a, b} : a <= y
    BY <1>1
  <2>2. Min({a, b}) \in {a, b} /\ \A y \in {a, b} : Min({a, b}) <= y
    BY <2>1 DEF Min
  <2> QED BY <1>1, <2>2
<1>2. CASE b <= a
  <2>1. b \in {a, b} /\ \A y \in {a, b} : b <= y
    BY <1>2
  <2>2. Min({a, b}) \in {a, b} /\ \A y \in {a, b} : Min({a, b}) <= y
    BY <2>1 DEF Min
  <2> QED BY <1>2, <2>2
<1> QED BY <1>1, <1>2

LEMMA DivFacts ==
  ASSUME NEW a \in Nat, NEW b \in Nat \ {0}
  PROVE  /\ a \div b \in Nat /\ a % b \in Nat /\ a % b < b /\ (a % b) <= a
         /\ ((a \div b) * b) + (a % b) = a
  OBVIOUS

LEMMA ModFacts ==
  ASSUME NEW x \in Nat, NEW s \in Nat, NEW b \in Nat \ {0}, x % b = 0
  PROVE  /\ (x + b) % b = 0
         /\ x + b <= s => x + b <= s - (s % b)
         /\ x + b > s => s - (s % b) <= x
<1> DEFINE q == x \div b
           p == s \div b
           r == s % b
<1>1. q \in Nat /\ p \in Nat /\ r \in Nat /\ r < b /\ x = q * b /\ s = p * b + r
  BY DivFacts
<1> HIDE DEF q, p, r
<1>3. q * b + b = (q + 1) * b
  BY <1>1
<1>2. (x + b) % b = 0
  <2> DEFINE q1 == (x + b) \div b
             r1 == (x + b) % b
  <2>1. q1 \in Nat /\ r1 \in Nat /\ r1 < b /\ x + b = q1 * b + r1
    BY DivFacts
  <2> HIDE DEF q1, r1
  <2>2. q1 * b + r1 = (q + 1) * b
    BY <1>1, <1>3, <2>1
  <2>3. CASE q1 < q + 1
    <3>1. (q1 + 1) * b <= (q + 1) * b /\ (q1 + 1) * b = q1 * b + b
      BY <1>1, <2>1, <2>3
    <3> QED BY <1>1, <2>1, <2>2, <3>1
  <2>4. CASE q1 > q + 1
    <3>1. (q + 1) * b + b <= q1 * b
      <4>1. (q + 2) * b <= q1 * b /\ (q + 2) * b = (q + 1) * b + b
        BY <1>1, <2>1, <2>4
      <4> QED BY <4>1
    <3> QED BY <1>1, <2>1, <2>2, <3>1
  <2>5. CASE q1 = q + 1
    <3>1. r1 = 0
      BY <1>1, <2>1, <2>2, <2>5
    <3> QED BY <3>1 DEF r1
  <2> QED BY <1>1, <2>1, <2>3, <2>4, <2>5
<1>4. ASSUME x + b <= s PROVE x + b <= p * b
  <2>1. q + 1 <= p
    <3> SUFFICES ASSUME p <= q PROVE FALSE
      BY <1>1
    <3>1. p * b <= q * b
      BY <1>1
    <3> QED BY <1>1, <1>4, <3>1
  <2>2. (q + 1) * b <= p * b
    BY <1>1, <2>1
  <2> QED BY <1>1, <1>3, <2>2
<1>5. ASSUME x + b > s PROVE p * b <= x
  <2>1. p <= q
    <3> SUFFICES ASSUME q + 1 <= p PROVE FALSE
      BY <1>1
    <3>1. (q + 1) * b <= p * b
      BY <1>1
    <3> QED BY <1>1, <1>3, <1>5, <3>1
  <2> QED BY <1>1, <2>1
<1>6. s - r = p * b
  BY <1>1
<1> QED BY <1>2, <1>4, <1>5, <1>6 DEF r

-----------------------------------------------------------------------------
(* The operators of the model.                                             *)

\* Shifted is what its recursive definition says: otherwise there would be a
\* least length up to which there is no such function.
LEMMA ShiftedDefined ==
  ASSUME NEW addr
  PROVE  Shifted(addr) = [i \in 0 .. AddrBytes |->
                            IF i = 0 THEN addr ELSE Shifted(addr)[i - 1] \div ByteBase]
<1> DEFINE Up(f, n) == f = [i \in 0 .. n |-> IF i = 0 THEN addr ELSE f[i - 1] \div ByteBase]
           T == {n \in Nat : ~\E f : Up(f, n)}
<1>1. T = {}
  <2> SUFFICES ASSUME T # {} PROVE FALSE
    OBVIOUS
  <2>1. T \in SUBSET Nat
    OBVIOUS
  <2> HIDE DEF T
  <2>2. PICK m \in T : \A n \in T : m <= n
    BY <2>1, LeastOf
  <2>3. m \in Nat /\ (\A f : ~Up(f, m)) /\ (m > 0 => \E f : Up(f, m - 1))
    <3> HIDE DEF Up
    <3>1. m \in Nat /\ \A f : ~Up(f, m)
      BY DEF T
    <3>2. ASSUME m > 0 PROVE \E f : Up(f, m - 1)
      <4>1. m - 1 \in Nat /\ m - 1 \notin T
        BY <2>2, <3>1, <3>2
      <4> QED BY <4>1 DEF T
    <3> QED BY <3>1, <3>2
  <2>4. CASE m = 0
    <3> DEFINE f == [i \in 0 .. 0 |-> addr]
    <3>1. Up(f, 0)
      OBVIOUS
    <3> QED BY <2>3, <2>4, <3>1
  <2>5. CASE m > 0
    <3>1. PICK f : Up(f, m - 1)
      BY <2>3, <2>5
    <3> DEFINE g == [i \in 0 .. m |-> IF i = m THEN f[m - 1] \div ByteBase ELSE f[i]]
               h == [i \in 0 .. m |-> IF i = 0 THEN addr ELSE g[i - 1] \div ByteBase]
    <3>2. ASSUME NEW i \in 0 .. m PROVE g[i] = h[i]
      <4>1. CASE i = m
        BY <2>3, <2>5, <4>1
      <4>2. CASE i = 0
        BY <2>3, <2>5, <3>1, <4>2
      <4>3. CASE i # m /\ i # 0
        <5>1. i \in 0 .. m - 1 /\ i - 1 \in 0 .. m /\ i - 1 # m /\ m \in Nat
          BY <2>3, <4>3
        <5>2. f[i] = f[i - 1] \div ByteBase
          BY <3>1, <4>3, <5>1
        <5> QED BY <4>3, <5>1, <5>2
      <4> QED BY <4>1, <4>2, <4>3
    <3>3. g = h
      BY <3>2
    <3> HIDE DEF g
    <3>4. Up(g, m)
      BY <3>3
    <3> QED BY <2>3, <3>4
  <2> QED BY <2>3, <2>4, <2>5
<1>2. \E f : Up(f, AddrBytes)
  <2> HIDE DEF Up
  <2> QED BY <1>1, SizeAssumption
<1> QED BY <1>2 DEF Shifted

LEMMA ShiftedFacts ==
  ASSUME NEW addr \in Nat
  PROVE  /\ Shifted(addr)[0] = addr
         /\ \A i \in 0 .. AddrBytes : Shifted(addr)[i] \in Nat
         /\ \A i \in 1 .. AddrBytes : Shifted(addr)[i] = Shifted(addr)[i - 1] \div ByteBase
<1> DEFINE f == Shifted(addr)
           T == {i \in 0 .. AddrBytes : f[i] \notin Nat}
<1>1. f = [i \in 0 .. AddrBytes |-> IF i = 0 THEN addr ELSE f[i - 1] \div ByteBase]
  BY ShiftedDefined
<1> HIDE DEF f
<1>2. f[0] = addr /\ \A i \in 1 .. AddrBytes : f[i] = f[i - 1] \div ByteBase
  <2>1. 0 \in 0 .. AddrBytes /\ \A i \in 1 .. AddrBytes : i \in 0 .. AddrBytes /\ i # 0
    BY SizeAssumption
  <2> QED BY <1>1, <2>1
<1>3. T = {}
  <2> SUFFICES ASSUME T # {} PROVE FALSE
    OBVIOUS
  <2>1. T \in SUBSET Nat
    OBVIOUS
  <2> HIDE DEF T
  <2>2. PICK m \in T : \A n \in T : m <= n
    BY <2>1, LeastOf
  <2>3. m \in 1 .. AddrBytes
    BY <1>2 DEF T
  <2>4. f[m - 1] \in Nat
    <3>1. m - 1 \in 0 .. AddrBytes /\ m - 1 \notin T
      BY <2>2, <2>3, SizeAssumption
    <3> QED BY <3>1 DEF T
  <2>5. f[m] \in Nat
    <3>1. f[m - 1] \div ByteBase \in Nat
      BY <2>4, SizeAssumption, DivFacts
    <3> QED BY <1>2, <2>3, <3>1
  <2> QED BY <2>5 DEF T
<1> QED BY <1>2, <1>3 DEF f

\* Every register address of a transfer fits into its bytes.
LEMMA AddressFits ==
  ASSUME NEW t \in Transfers \cup {NoTransfer}
  PROVE  t.addr \in Nat /\ Shifted(t.addr)[AddrBytes] = 0
<1>1. CASE t \in Transfers
  BY <1>1, TransfersAssumption
<1>2. CASE t = NoTransfer
  <2> DEFINE f == Shifted(0)
             T == {i \in 0 .. AddrBytes : f[i] # 0}
  <2>1. /\ t.addr = 0 /\ f[0] = 0
        /\ \A i \in 1 .. AddrBytes : f[i] = f[i - 1] \div ByteBase
    BY <1>2, ShiftedFacts DEF NoTransfer
  <2> HIDE DEF f
  <2>2. T = {}
    <3> SUFFICES ASSUME T # {} PROVE FALSE
      OBVIOUS
    <3>1. T \in SUBSET Nat
      OBVIOUS
    <3> HIDE DEF T
    <3>2. PICK m \in T : \A n \in T : m <= n
      BY <3>1, LeastOf
    <3>3. m \in 1 .. AddrBytes
      BY <2>1 DEF T
    <3>4. m - 1 \in 0 .. AddrBytes /\ m - 1 \notin T
      BY <3>2, <3>3, SizeAssumption
    <3>5. f[m] = 0 \div ByteBase
      BY <2>1, <3>3, <3>4 DEF T
    <3>6. 0 \div ByteBase = 0
      BY SizeAssumption
    <3> QED BY <3>5, <3>6 DEF T
  <2>3. f[AddrBytes] = 0
    BY <2>2, SizeAssumption
  <2> QED BY <2>1, <2>3 DEF f
<1> QED BY <1>1, <1>2

\* The frame is the register address, byte by byte, and the data in order.
LEMMA FrameFacts ==
  ASSUME NEW t \in Transfers \cup {NoTransfer}
  PROVE  /\ t.n \in Nat /\ t.rwn \in BOOLEAN
         /\ Len(Frame(t)) = AddrBytes + (IF t.rwn THEN 0 ELSE t.n)
         /\ \A i \in 1 .. Len(Frame(t)) :
              Frame(t)[i] = IF i <= AddrBytes THEN Shifted(t.addr)[AddrBytes - i] % ByteBase
                            ELSE i - AddrBytes
         /\ \A i \in 1 .. Len(Frame(t)) : Frame(t)[i] \in Nat
<1> DEFINE n == IF t.rwn THEN 0 ELSE t.n
           register == [i \in 1 .. AddrBytes |-> Shifted(t.addr)[AddrBytes - i] % ByteBase]
           payload == [i \in 1 .. n |-> i]
<1>1. n \in Nat /\ AddrBytes \in Nat \ {0} /\ t.n \in Nat /\ t.rwn \in BOOLEAN
  <2>1. t.n \in Nat /\ t.rwn \in BOOLEAN
    <3>1. CASE t \in Transfers
      BY <3>1, TransfersAssumption
    <3>2. CASE t = NoTransfer
      BY <3>2 DEF NoTransfer
    <3> QED BY <3>1, <3>2
  <2> QED BY <2>1, SizeAssumption
<1>2. \A i \in 1 .. AddrBytes : Shifted(t.addr)[AddrBytes - i] % ByteBase \in Nat
  <2>1. t.addr \in Nat
    BY AddressFits
  <2>2. \A i \in 1 .. AddrBytes : Shifted(t.addr)[AddrBytes - i] \in Nat
    BY <1>1, <2>1, ShiftedFacts
  <2> QED BY <2>2, SizeAssumption, DivFacts
<1>3. register \in Seq(Nat) /\ Len(register) = AddrBytes
  BY <1>1, <1>2
<1>4. payload \in Seq(Nat) /\ Len(payload) = n
  BY <1>1
<1>5. Frame(t) = register \o payload
  BY DEF Frame
<1>6. \A i \in 1 .. AddrBytes : register[i] = Shifted(t.addr)[AddrBytes - i] % ByteBase
  OBVIOUS
<1>7. \A i \in 1 .. n : payload[i] = i
  OBVIOUS
<1> HIDE DEF register, payload, n
<1>8. /\ Len(Frame(t)) = AddrBytes + n /\ Frame(t) \in Seq(Nat)
      /\ \A i \in 1 .. AddrBytes + n :
           Frame(t)[i] = IF i <= AddrBytes THEN register[i] ELSE payload[i - AddrBytes]
  <2>1. /\ register \o payload \in Seq(Nat)
        /\ Len(register \o payload) = Len(register) + Len(payload)
        /\ \A i \in 1 .. Len(register) + Len(payload) :
             (register \o payload)[i] = IF i <= Len(register) THEN register[i]
                                       ELSE payload[i - Len(register)]
    BY <1>3, <1>4, ConcatProperties
  <2> QED BY <1>3, <1>4, <1>5, <2>1, Zenon
<1>9. ASSUME NEW i \in 1 .. AddrBytes + n
      PROVE  Frame(t)[i] = IF i <= AddrBytes THEN Shifted(t.addr)[AddrBytes - i] % ByteBase
                           ELSE i - AddrBytes
  <2>1. CASE i <= AddrBytes
    <3>1. i \in 1 .. AddrBytes /\ Frame(t)[i] = register[i]
      BY <1>1, <1>8, <2>1
    <3> QED BY <1>6, <2>1, <3>1
  <2>2. CASE ~(i <= AddrBytes)
    <3>1. i - AddrBytes \in 1 .. n /\ Frame(t)[i] = payload[i - AddrBytes]
      BY <1>1, <1>8, <2>2
    <3> QED BY <1>7, <2>2, <3>1
  <2> QED BY <2>1, <2>2
<1>10. \A i \in 1 .. AddrBytes + n : Frame(t)[i] \in Nat
  BY <1>1, <1>2, <1>9
<1> QED BY <1>1, <1>8, <1>9, <1>10 DEF n

LEMMA EndpointFacts ==
  ASSUME NEW e \in DOMAIN Endpoints
  PROVE  /\ Endpoints[e].addr \in Nat /\ Endpoints[e].content \in Seq(Nat)
         /\ Endpoints[e].kind \in {"info", "progmem", "once"}
         /\ Endpoints[e].writable \in BOOLEAN /\ Endpoints[e].commits \in BOOLEAN
         /\ e \in Nat
<1>1. Endpoints[e] \in [addr : Nat, kind : {"info", "progmem", "once"},
                        randomAccess : BOOLEAN, content : Seq(Nat),
                        writable : BOOLEAN, commits : BOOLEAN]
  BY EndpointsAssumption, ElementOfSeq, LenProperties
<1>2. e \in Nat
  BY EndpointsAssumption
<1> QED BY <1>1, <1>2

\* The endpoint that is selected serves the register.
LEMMA SelectFacts ==
  ASSUME NEW addr \in Nat, twi_select_endpoint(addr) # None
  PROVE  /\ twi_select_endpoint(addr) \in DOMAIN Endpoints
         /\ Served(addr, twi_select_endpoint(addr))
<1> DEFINE below == {i \in DOMAIN Endpoints : Endpoints[i].addr <= addr}
           nearest == {i \in below : \A j \in below : Endpoints[j].addr <= Endpoints[i].addr}
           addrs == {Endpoints[i].addr : i \in below}
<1>1. below # {} /\ twi_select_endpoint(addr) = Max(nearest)
  BY DEF twi_select_endpoint
<1>2. addrs \in SUBSET Nat /\ addrs # {} /\ \A x \in addrs : x <= addr
  BY <1>1, EndpointFacts
<1> HIDE DEF addrs
<1>3. Max(addrs) \in addrs /\ \A x \in addrs : x <= Max(addrs)
  BY <1>2, MaxFacts
<1>4. nearest # {}
  BY <1>3 DEF addrs
<1>5. nearest \in SUBSET Nat /\ \A i \in nearest : i <= Len(Endpoints)
  BY EndpointsAssumption
<1>6. Len(Endpoints) \in Nat
  BY EndpointsAssumption
<1>7. nearest \subseteq DOMAIN Endpoints /\ \A i \in nearest : Served(addr, i)
  BY DEF Served
<1> HIDE DEF nearest
<1>8. Max(nearest) \in nearest
  BY <1>4, <1>5, <1>6, MaxFacts
<1> QED BY <1>1, <1>7, <1>8

-----------------------------------------------------------------------------
(* The inductive invariant.                                                *)

\* The part of the types that the proofs need.
Typed ==
  /\ DOMAIN twi = {"busy", "rwn", "receivingAddr", "currentEndpoint", "addr",
                   "offset", "bufLen", "bufPos", "buffer"}
  /\ twi.bufPos \in Nat /\ twi.offset \in Nat /\ sent \in Nat
  /\ dir \in BOOLEAN /\ nack \in BOOLEAN /\ attached \in BOOLEAN /\ pien \in BOOLEAN
  /\ pc \in {"idle", "sending", "restarted", "reading", "exit"}
  /\ irq \in {"none", "start", "data", "stop", "error"}
  /\ op \in Transfers \cup {NoTransfer}

\* Stop interrupts are enabled while the slave receives, from the first byte
\* after a start on.
StopsEnabled ==
  /\ pien => ~twi.rwn
  /\ irq = "stop" => pien /\ pc = "idle"
  /\ (pc = "sending" /\ sent > 0 /\ irq \in {"none", "error"}) => pien
  /\ (pc = "idle" => sent = 0) /\ (irq = "start" /\ pc = "sending" => sent = 0)
  /\ (pc = "sending" /\ irq = "data") => sent > 0

\* Master and slave agree on the direction as long as the slave takes part.
SameDirection ==
  /\ pc = "sending" => ~dir
  /\ pc \in {"restarted", "reading"} => dir
  /\ (pc = "sending" /\ attached /\ irq \in {"none", "data"}) => ~twi.rwn
  /\ (pc \in {"restarted", "reading"} /\ attached /\ irq = "none") => ~pien /\ twi.rwn
  /\ irq = "data" => attached /\ pc \in {"sending", "reading", "exit"}
  /\ (irq = "data" /\ dir) => ~pien /\ twi.rwn
  /\ irq = "start" => pc \in {"sending", "restarted"}

\* A transaction with nothing to flush: a read, or one without a byte.
Harmless == twi.rwn \/ (twi.receivingAddr /\ twi.bufPos = 0)

\* A slave that has left a transfer is done with it; the one whose byte the
\* master has refused is about to find out. A transfer that has failed without
\* its knowing leaves it open, but harmless.
LeavesTransfer ==
  /\ irq = "error" => ~attached
  /\ (irq = "none" /\ ~attached /\ pc # "idle") => ~twi.busy
  /\ (pc = "reading" /\ irq = "none" /\ attached) => twi.bufPos > 0
  /\ (pc = "exit" /\ irq = "data") => dir /\ nack /\ twi.bufPos > 0
  /\ (pc = "sending" /\ sent = 0 /\ attached /\ irq = "none")
       => twi.receivingAddr /\ twi.bufPos = 0
  /\ (pc = "exit" /\ irq = "none" /\ ~pien /\ twi.busy) => ~ok /\ Harmless
  /\ (pc = "idle" /\ irq = "none" /\ twi.busy) => Harmless

IInv ==
  /\ Typed
  /\ StopsEnabled
  /\ SameDirection
  /\ LeavesTransfer

USE DEF Harmless

TwiFields == {"busy", "rwn", "receivingAddr", "currentEndpoint", "addr",
              "offset", "bufLen", "bufPos", "buffer"}

\* What the handlers rely on of a twi_slave_t.
Twi(t) == DOMAIN t = TwiFields /\ t.bufPos \in Nat /\ t.offset \in Nat

LEMMA EndFacts ==
  ASSUME NEW t, Twi(t)
  PROVE  /\ Twi(twis_end_transaction(t))
         /\ twis_end_transaction(t).busy = FALSE
         /\ twis_end_transaction(t).rwn = t.rwn
         /\ twis_end_transaction(t).bufPos = t.bufPos
         /\ twis_end_transaction(t).receivingAddr = t.receivingAddr
BY DEF Twi, TwiFields, twis_end_transaction

LEMMA FilledFacts ==
  ASSUME NEW t, Twi(t)
  PROVE  /\ Twi(Filled(t).twi)
         /\ Filled(t).twi.rwn = t.rwn
         /\ Filled(t).twi.bufPos = t.bufPos
         /\ Filled(t).error \in BOOLEAN
<1> DEFINE bytes == IF t.currentEndpoint = None THEN None
                    ELSE EndpointRead(t.currentEndpoint, t.offset)
           full == [t EXCEPT !.bufLen = Len(bytes),
                             !.buffer = bytes \o SubSeq(@, Len(bytes) + 1, BufferSize)]
<1>1. Filled(t) = IF bytes = None THEN [twi |-> t, error |-> TRUE]
                  ELSE [twi |-> full, error |-> FALSE]
  BY DEF Filled
<1>2. Twi(full) /\ full.rwn = t.rwn /\ full.bufPos = t.bufPos
  BY DEF Twi, TwiFields
<1> HIDE DEF full, bytes
<1>3. CASE bytes = None
  BY <1>1, <1>3 DEF Twi
<1>4. CASE bytes # None
  BY <1>1, <1>2, <1>4
<1> QED BY <1>3, <1>4

LEMMA StartFacts ==
  \A t : Twi(t) => \A rwn, extended \in BOOLEAN :
    /\ Twi(twis_start_transaction(t, rwn, extended).twi)
    /\ twis_start_transaction(t, rwn, extended).twi.rwn = rwn
    /\ twis_start_transaction(t, rwn, extended).twi.bufPos = 0
    /\ ~rwn /\ ~extended => twis_start_transaction(t, rwn, extended).twi.receivingAddr
    /\ twis_start_transaction(t, rwn, extended).error \in BOOLEAN
<1> SUFFICES ASSUME NEW t, Twi(t), NEW rwn \in BOOLEAN, NEW extended \in BOOLEAN
             PROVE  /\ Twi(twis_start_transaction(t, rwn, extended).twi)
                    /\ twis_start_transaction(t, rwn, extended).twi.rwn = rwn
                    /\ twis_start_transaction(t, rwn, extended).twi.bufPos = 0
                    /\ ~rwn /\ ~extended
                         => twis_start_transaction(t, rwn, extended).twi.receivingAddr
                    /\ twis_start_transaction(t, rwn, extended).error \in BOOLEAN
  BY Zenon
<1> DEFINE new == IF extended
                  THEN [t EXCEPT !.offset = IF t.receivingAddr THEN @ ELSE @ + t.bufPos,
                                 !.receivingAddr = FALSE]
                  ELSE [t EXCEPT !.receivingAddr = TRUE, !.addr = 0, !.offset = 0,
                                 !.currentEndpoint = None]
           empty == [new EXCEPT !.rwn = rwn, !.busy = TRUE,
                                !.bufLen = BufferSize, !.bufPos = 0]
<1>1. DOMAIN new = TwiFields /\ new.offset \in Nat /\ (~extended => new.receivingAddr)
  <2>1. CASE extended
    BY <2>1 DEF Twi, TwiFields
  <2>2. CASE ~extended
    BY <2>2 DEF Twi, TwiFields
  <2> QED BY <2>1, <2>2
<1>2. twis_start_transaction(t, rwn, extended)
        = IF rwn THEN Filled(empty) ELSE [twi |-> empty, error |-> FALSE]
  BY DEF twis_start_transaction
<1> HIDE DEF new
<1>3. /\ Twi(empty) /\ empty.rwn = rwn /\ empty.bufPos = 0
      /\ ~extended => empty.receivingAddr
  BY <1>1 DEF Twi, TwiFields
<1> HIDE DEF empty
<1>4. CASE rwn
  BY <1>2, <1>3, <1>4, FilledFacts
<1>5. CASE ~rwn
  BY <1>2, <1>3, <1>5
<1> QED BY <1>4, <1>5

\* The driver after a handler's answer.
LEMMA AnswerFacts ==
  ASSUME NEW STATE r, Twi(r.twi), r.error \in BOOLEAN, Answer(r)
  PROVE  /\ Twi(twi)' /\ attached' = ~r.error
         /\ twi'.rwn = r.twi.rwn /\ twi'.bufPos = r.twi.bufPos
         /\ twi'.receivingAddr = r.twi.receivingAddr
         /\ ~attached' => ~twi'.busy
<1>1. Twi(twis_end_transaction(r.twi)) /\ ~twis_end_transaction(r.twi).busy
      /\ twis_end_transaction(r.twi).rwn = r.twi.rwn
      /\ twis_end_transaction(r.twi).bufPos = r.twi.bufPos
      /\ twis_end_transaction(r.twi).receivingAddr = r.twi.receivingAddr
  BY EndFacts
<1>2. CASE r.error
  BY <1>1, <1>2 DEF Answer, Twi
<1>3. CASE ~r.error
  BY <1>3 DEF Answer, Twi
<1> QED BY <1>2, <1>3

\* There is a register address in every transfer.
LEMMA FramePositive ==
  ASSUME NEW t \in Transfers \cup {NoTransfer}
  PROVE  Len(Frame(t)) \in Nat \ {0}
BY FrameFacts, SizeAssumption

-----------------------------------------------------------------------------
LEMMA Initially == Init => IInv
<1> SUFFICES ASSUME Init PROVE IInv
  OBVIOUS
<1> USE DEF Init
<1>1. /\ DOMAIN twi = TwiFields /\ twi.bufPos = 0 /\ twi.offset = 0
      /\ twi.busy = FALSE /\ twi.rwn = FALSE
  BY DEF TwiFields
<1>2. Typed
  BY <1>1 DEF Typed, TwiFields
<1>3. StopsEnabled /\ SameDirection /\ LeavesTransfer
  BY <1>1 DEF StopsEnabled, SameDirection, LeavesTransfer
<1> QED BY <1>2, <1>3 DEF IInv

\* The interrupt handlers.
LEMMA SlavePreserves == ASSUME IInv, twi_slave_interrupt PROVE IInv'
<1>twi. Twi(twi) /\ dir \in BOOLEAN
  BY DEF IInv, Typed, Twi, TwiFields
<1>end. /\ Twi(twis_end_transaction(twi)) /\ ~twis_end_transaction(twi).busy
        /\ twis_end_transaction(twi).rwn = twi.rwn
        /\ twis_end_transaction(twi).bufPos = twi.bufPos
  BY <1>twi, EndFacts
<1>1. CASE twis_start_handler
  <2> DEFINE r == twis_start_transaction(twis_end_transaction(twi), dir, dir)
  <2>1. /\ Twi(r.twi) /\ r.twi.rwn = dir /\ r.error \in BOOLEAN
        /\ ~dir => r.twi.receivingAddr /\ r.twi.bufPos = 0
    <3>1. \A rwn, extended \in BOOLEAN :
            LET s == twis_start_transaction(twis_end_transaction(twi), rwn, extended)
            IN  /\ Twi(s.twi) /\ s.twi.rwn = rwn /\ s.error \in BOOLEAN
                /\ s.twi.bufPos = 0 /\ (~rwn /\ ~extended => s.twi.receivingAddr)
      <4> TAKE rwn \in BOOLEAN, extended \in BOOLEAN
      <4> DEFINE s == twis_start_transaction(twis_end_transaction(twi), rwn, extended)
      <4>1. /\ Twi(s.twi) /\ s.twi.rwn = rwn /\ s.error \in BOOLEAN /\ s.twi.bufPos = 0
            /\ (~rwn /\ ~extended => s.twi.receivingAddr)
        BY <1>end, StartFacts, Zenon
      <4> QED BY <4>1, Zenon
    <3> QED BY <1>twi, <3>1, Zenon
  <2>2. Answer(r) /\ irq = "start" /\ irq' = "none" /\ pien' = FALSE
        /\ UNCHANGED <<master, dir, nack>>
    BY <1>1 DEF twis_start_handler, DisableStop
  <2> HIDE DEF r
  <2>3. /\ Twi(twi)' /\ attached' = ~r.error /\ twi'.rwn = dir /\ (~attached' => ~twi'.busy)
        /\ ~dir => twi'.receivingAddr /\ twi'.bufPos = 0
    BY <2>1, <2>2, AnswerFacts
  <2>typed. Typed'
    BY <2>2, <2>3 DEF IInv, Typed, Twi, TwiFields, master
  <2>stops. StopsEnabled'
    BY <2>2, <2>3 DEF IInv, StopsEnabled, master
  <2>dir. SameDirection'
    BY <2>2, <2>3 DEF IInv, Typed, SameDirection, master
  <2>leaves. LeavesTransfer'
    BY <2>2, <2>3 DEF IInv, Typed, SameDirection, LeavesTransfer, master
  <2> QED BY <2>typed, <2>stops, <2>dir, <2>leaves DEF IInv
<1>2. CASE twis_stop_handler
  <2>1. irq = "stop" /\ irq' = "none" /\ pien' = FALSE /\ UNCHANGED <<master, dir, nack, attached>>
    BY <1>2 DEF twis_stop_handler, DisableStop
  <2>2. Twi(twi)' /\ ~twi'.busy /\ twi'.rwn = twi.rwn
    BY <1>2, <1>end DEF twis_stop_handler, Twi
  <2>typed. Typed'
    BY <2>1, <2>2 DEF IInv, Typed, Twi, TwiFields, master
  <2>stops. StopsEnabled'
    BY <2>1 DEF IInv, StopsEnabled, master
  <2>rest. SameDirection' /\ LeavesTransfer'
    BY <2>1, <2>2 DEF IInv, StopsEnabled, SameDirection, LeavesTransfer, master
  <2> QED BY <2>typed, <2>stops, <2>rest DEF IInv
<1>3. CASE twis_write_handler
  <2>1. /\ irq = "data" /\ dir = FALSE /\ irq' = "none" /\ pien' = TRUE
        /\ UNCHANGED <<master, dir, nack>>
    BY <1>twi, <1>3 DEF twis_write_handler, EnableStop, AddressByte, DataByte
  <2>sending. pc = "sending" /\ sent > 0
    BY <2>1 DEF IInv, StopsEnabled, SameDirection, LeavesTransfer
  <2>2. /\ Twi(twi)' /\ attached' \in BOOLEAN
        /\ twi'.rwn = twi.rwn \/ twi'.rwn = FALSE
        /\ ~attached' => ~twi'.busy
    <3>1. CASE AddressByte
      <4> DEFINE addr == twi.addr * ByteBase + data
                 e == twi_select_endpoint(addr)
                 partial == [twi EXCEPT !.addr = addr, !.bufPos = @ + 1]
                 whole == [partial EXCEPT !.bufPos = 0, !.receivingAddr = FALSE]
                 selected == [whole EXCEPT !.currentEndpoint = e]
                 r == IF AddressComplete(partial.bufPos)
                      THEN [twi |-> selected, error |-> e = None]
                      ELSE [twi |-> partial, error |-> FALSE]
      <4>1. Answer(r)
        BY <3>1 DEF AddressByte
      <4>2. Twi(partial) /\ Twi(selected) /\ partial.rwn = twi.rwn /\ selected.rwn = twi.rwn
        BY <1>twi DEF Twi, TwiFields
      <4> HIDE DEF partial, selected, e
      <4>3. Twi(r.twi) /\ r.twi.rwn = twi.rwn /\ r.error \in BOOLEAN
        BY <4>2
      <4> HIDE DEF r
      <4>4. Twi(twi)' /\ attached' = ~r.error /\ twi'.rwn = r.twi.rwn /\ (~attached' => ~twi'.busy)
        BY <4>1, <4>3, AnswerFacts
      <4> QED BY <4>3, <4>4
    <3>2. CASE DataByte
      <4> DEFINE fresh == twis_start_transaction(twis_end_transaction(twi), FALSE, TRUE).twi
                 room == IF BufferFull(twi) THEN fresh ELSE twi
                 stored == [room EXCEPT !.buffer[room.bufPos + 1] = data, !.bufPos = @ + 1]
                 r == [twi |-> stored, error |-> FALSE]
      <4>1. Answer(r)
        BY <3>2 DEF DataByte
      <4>2. Twi(fresh) /\ fresh.rwn = FALSE
        BY <1>end, StartFacts, Zenon
      <4> HIDE DEF fresh
      <4>3. Twi(room) /\ (room.rwn = twi.rwn \/ room.rwn = FALSE)
        BY <1>twi, <4>2
      <4> HIDE DEF room
      <4>4. Twi(stored) /\ stored.rwn = room.rwn
        BY <4>3 DEF Twi, TwiFields
      <4> HIDE DEF stored
      <4>5. Twi(r.twi) /\ r.twi.rwn = room.rwn /\ r.error = FALSE
        BY <4>4
      <4> HIDE DEF r
      <4>6. Twi(twi)' /\ attached' = ~r.error /\ twi'.rwn = r.twi.rwn /\ (~attached' => ~twi'.busy)
        BY <4>1, <4>5, AnswerFacts
      <4> QED BY <4>3, <4>5, <4>6
    <3> QED BY <1>3, <3>1, <3>2 DEF twis_write_handler
  <2>3. ~twi'.rwn
    \* A byte has been sent to a slave that takes part.
    BY <2>1, <2>2, <2>sending DEF IInv, SameDirection
  <2>typed. Typed'
    BY <2>1, <2>2 DEF IInv, Typed, Twi, TwiFields, master
  <2>stops. StopsEnabled'
    BY <2>1, <2>3, <2>sending DEF IInv, StopsEnabled, master
  <2>dir. SameDirection'
    BY <2>1, <2>3, <2>sending DEF IInv, SameDirection, master
  <2>rest. LeavesTransfer'
    BY <2>1, <2>2, <2>sending DEF IInv, LeavesTransfer, master
  <2> QED BY <2>typed, <2>stops, <2>dir, <2>rest DEF IInv
<1>4. CASE twis_read_handler
  <2>1. /\ irq = "data" /\ dir = TRUE /\ irq' = "none"
        /\ UNCHANGED <<master, dir, nack, pien>>
    BY <1>twi, <1>4 DEF twis_read_handler, EndOfRead, NextByte
  <2>2. /\ Twi(twi)' /\ attached' \in BOOLEAN
        /\ ~attached' => ~twi'.busy
        /\ attached' => twi'.bufPos > 0 /\ twi'.rwn /\ ~NackSeen
    <3>1. CASE EndOfRead
      BY <3>1, <1>end DEF EndOfRead, Twi
    <3>2. CASE NextByte
      <4> DEFINE fresh == twis_start_transaction(twis_end_transaction(twi), TRUE, TRUE)
                 result == IF BufferFull(twi) THEN fresh ELSE [twi |-> twi, error |-> FALSE]
                 left == [twi |-> result.twi, error |-> TRUE]
                 more == [result.twi EXCEPT !.bufPos = @ + 1]
                 byte == [twi |-> more, error |-> FALSE]
      <4>1. (Answer(left) \/ Answer(byte)) /\ ~NackSeen
        BY <3>2 DEF NextByte
      <4>2. Twi(fresh.twi) /\ fresh.twi.rwn = TRUE
        BY <1>end, StartFacts, Zenon
      <4> HIDE DEF fresh
      <4>3. Twi(result.twi) /\ result.twi.rwn
        BY <1>twi, <2>1, <4>2 DEF IInv, SameDirection
      <4> HIDE DEF result
      <4>4. Twi(more) /\ more.bufPos > 0 /\ more.rwn
        BY <4>3 DEF Twi, TwiFields
      <4> HIDE DEF more
      <4>5. Twi(left.twi) /\ left.error = TRUE /\ Twi(byte.twi) /\ byte.twi = more /\ byte.error = FALSE
        BY <4>3, <4>4
      <4> HIDE DEF left, byte
      <4>6. CASE Answer(left)
        <5>1. Twi(twi)' /\ attached' = ~left.error /\ (~attached' => ~twi'.busy)
          BY <4>5, <4>6, AnswerFacts
        <5> QED BY <4>5, <5>1
      <4>7. CASE Answer(byte)
        <5>1. /\ Twi(twi)' /\ attached' = ~byte.error /\ twi'.bufPos = byte.twi.bufPos
              /\ twi'.rwn = byte.twi.rwn
          BY <4>5, <4>7, AnswerFacts
        <5> QED BY <4>1, <4>4, <4>5, <5>1
      <4> QED BY <4>1, <4>6, <4>7
    <3> QED BY <1>4, <3>1, <3>2 DEF twis_read_handler
  <2>reads. pc \in {"reading", "exit"} /\ pien = FALSE /\ (pc = "exit" => NackSeen)
    BY <2>1 DEF IInv, Typed, SameDirection, LeavesTransfer, NackSeen
  <2>typed. Typed'
    BY <2>1, <2>2 DEF IInv, Typed, Twi, TwiFields, master
  <2>stops. StopsEnabled'
    BY <2>1, <2>reads DEF IInv, StopsEnabled, master
  <2>dir. SameDirection'
    BY <2>1, <2>2, <2>reads DEF IInv, SameDirection, master
  <2>rest. LeavesTransfer'
    BY <2>1, <2>2, <2>reads DEF IInv, LeavesTransfer, master
  <2> QED BY <2>typed, <2>stops, <2>dir, <2>rest DEF IInv
<1>5. CASE twis_error_handler
  <2>1. irq = "error" /\ irq' = "none" /\ UNCHANGED <<master, dir, nack, attached, pien>>
    BY <1>5 DEF twis_error_handler
  <2>2. Twi(twi)' /\ ~twi'.busy /\ twi'.rwn = twi.rwn
    BY <1>5, <1>end DEF twis_error_handler, Twi
  <2>typed. Typed'
    BY <2>1, <2>2 DEF IInv, Typed, Twi, TwiFields, master
  <2>stops. StopsEnabled'
    BY <2>1, <2>2 DEF IInv, StopsEnabled, master
  <2>dir. SameDirection'
    BY <2>1, <2>2 DEF IInv, SameDirection, LeavesTransfer, master
  <2>rest. LeavesTransfer'
    BY <2>1, <2>2 DEF IInv, LeavesTransfer, master
  <2> QED BY <2>typed, <2>stops, <2>dir, <2>rest DEF IInv
<1> QED BY <1>1, <1>2, <1>3, <1>4, <1>5 DEF twi_slave_interrupt

\* The steps of the master.
LEMMA MasterPreserves ==
  ASSUME IInv, Start \/ builtin_i2c_master_transfer
  PROVE  IInv'
<1> USE DEF IInv
<1>1. CASE Start
  <2> USE <1>1 DEF Start
  <2>1. Typed'
    BY DEF Typed
  <2>2. StopsEnabled' /\ SameDirection'
    BY DEF StopsEnabled, SameDirection
  <2>3. LeavesTransfer'
    BY DEF LeavesTransfer
  <2> QED BY <2>1, <2>2, <2>3
<1>2. CASE SendByte
  <2> USE <1>2 DEF SendByte
  <2>1. Typed'
    BY DEF Typed
  <2>2. StopsEnabled' /\ SameDirection'
    BY DEF Typed, StopsEnabled, SameDirection
  <2>3. LeavesTransfer'
    BY DEF LeavesTransfer
  <2> QED BY <2>1, <2>2, <2>3
<1>3. CASE WriteDone
  <2> USE <1>3 DEF WriteDone, AllSent
  <2>1. Typed'
    BY DEF Typed
  <2>2. pien
    \* A transfer sends at least a register address.
    <3>1. Len(Frame(op)) \in Nat \ {0}
      BY FramePositive DEF Typed
    <3> QED BY <3>1 DEF StopsEnabled
  <2>3. StopsEnabled' /\ SameDirection'
    BY DEF StopsEnabled, SameDirection
  <2>4. LeavesTransfer'
    BY <2>2 DEF LeavesTransfer
  <2> QED BY <2>1, <2>3, <2>4
<1>4. CASE Restart
  <2> USE <1>4 DEF Restart, AllSent
  <2>1. Typed'
    BY DEF Typed
  <2>2. StopsEnabled' /\ SameDirection'
    BY DEF StopsEnabled, SameDirection
  <2>3. LeavesTransfer'
    BY DEF LeavesTransfer
  <2> QED BY <2>1, <2>2, <2>3
<1>5. CASE NotAcked
  <2> USE <1>5 DEF NotAcked, bus
  <2>1. Typed'
    BY DEF Typed
  <2>2. StopsEnabled' /\ SameDirection'
    BY DEF StopsEnabled, SameDirection
  <2>3. LeavesTransfer'
    BY DEF LeavesTransfer
  <2> QED BY <2>1, <2>2, <2>3
<1>9. CASE RawFails
  <2> USE <1>9 DEF RawFails, bus
  <2>1. Typed'
    BY DEF Typed
  <2>2. StopsEnabled' /\ SameDirection'
    BY DEF StopsEnabled, SameDirection
  <2>3. LeavesTransfer'
    BY DEF Typed, StopsEnabled, SameDirection, LeavesTransfer
  <2> QED BY <2>1, <2>2, <2>3
<1>6. CASE ReadAcked
  <2> USE <1>6 DEF ReadAcked
  <2>1. Typed'
    BY DEF Typed
  <2>2. StopsEnabled' /\ SameDirection'
    BY DEF StopsEnabled, SameDirection
  <2>3. LeavesTransfer'
    BY DEF LeavesTransfer
  <2> QED BY <2>1, <2>2, <2>3
<1>7. CASE ReadByte
  <2> USE <1>7 DEF ReadByte
  <2>1. /\ pc = "reading" /\ irq = "none" /\ pc' \in {"reading", "exit"}
        /\ nack' \in BOOLEAN /\ irq' = IF attached THEN "data" ELSE "none"
        /\ (attached /\ pc' = "exit" => nack')
        /\ UNCHANGED <<op, sent, dir, attached, pien, twi>>
    BY DEF Typed
  <2>2. Typed'
    BY <2>1 DEF Typed
  <2>3. StopsEnabled' /\ SameDirection'
    BY <2>1 DEF StopsEnabled, SameDirection
  <2>4. LeavesTransfer'
    BY <2>1 DEF SameDirection, LeavesTransfer
  <2> QED BY <2>2, <2>3, <2>4
<1>8. CASE Stop
  <2> USE <1>8 DEF Stop
  <2>1. Typed'
    BY DEF Typed
  <2>2. StopsEnabled' /\ SameDirection'
    BY DEF StopsEnabled, SameDirection
  <2>3. LeavesTransfer'
    BY DEF LeavesTransfer
  <2> QED BY <2>1, <2>2, <2>3
<1> QED BY <1>1, <1>2, <1>3, <1>4, <1>5, <1>6, <1>7, <1>8, <1>9
   DEF builtin_i2c_master_transfer, Progress

LEMMA StepPreserves == IInv /\ [Next]_vars => IInv'
<1> SUFFICES ASSUME IInv, [Next]_vars PROVE IInv'
  OBVIOUS
<1>1. CASE Start \/ builtin_i2c_master_transfer
  BY <1>1, MasterPreserves
<1>2. CASE twi_slave_interrupt
  BY <1>2, SlavePreserves
<1>3. CASE BusError
  BY <1>3 DEF BusError, IInv, Typed, StopsEnabled, SameDirection, LeavesTransfer, master
<1>4. CASE UNCHANGED vars
  BY <1>4 DEF vars, master, bus, IInv, Typed, StopsEnabled, SameDirection,
              LeavesTransfer
<1> QED BY <1>1, <1>2, <1>3, <1>4 DEF Next

-----------------------------------------------------------------------------
(* The inductive invariant of the data.                                    *)

TwiType ==
  [busy : BOOLEAN, rwn : BOOLEAN, receivingAddr : BOOLEAN,
   currentEndpoint : DOMAIN Endpoints \cup {None}, addr : Nat, offset : Nat,
   bufLen : Nat, bufPos : Nat, buffer : [1 .. BufferSize -> Nat]]

DataTyped ==
  /\ twi \in TwiType
  /\ data \in Nat /\ got \in Seq(Nat \cup {High}) /\ calls \in Seq(CallType)
  /\ ok \in BOOLEAN /\ broken \in BOOLEAN
  /\ ended \in EndedType \cup {None} /\ handled \in Seq(CallType) \cup {None}

\* Until the driver has handled a start it is still about the transfer before.
Over == pc = "idle" \/ (pc = "sending" /\ irq = "start")

Subject == IF Over THEN ended.op ELSE op

Known == Over => ended # None

\* How many bytes of the frame the slave has dealt with.
Taken == IF irq = "data" THEN sent - 1 ELSE sent

Selected(t, addr) ==
  t.currentEndpoint \in DOMAIN Endpoints /\ Served(addr, t.currentEndpoint)

Receiving(t) == t.busy /\ ~t.rwn /\ ~t.receivingAddr

\* The buffer holds what the master has sent from the offset on.
Buffered(t, o) ==
  /\ Selected(t, o.addr)
  /\ t.bufLen = BufferSize /\ t.bufPos <= BufferSize
  /\ t.offset + t.bufPos <= o.n
  /\ \A j \in 1 .. t.bufPos : t.buffer[j] = t.offset + j

\* The calls so far are pieces of the data of transfer o.
Pieces(cs, o) ==
  \A k \in DOMAIN cs :
    /\ cs[k].call = "write"
    /\ Served(o.addr, cs[k].endpoint)
    /\ cs[k].offset = IF k = 1 THEN 0 ELSE End(cs[k - 1])
    /\ cs[k].data = [i \in 1 .. Len(cs[k].data) |-> cs[k].offset + i]
    /\ End(cs[k]) <= o.n

Upto(cs) == IF cs = <<>> THEN 0 ELSE End(cs[Len(cs)])

\* They reach up to what is in the buffer.
Chain(cs, o, t) ==
  /\ Pieces(cs, o)
  /\ t.currentEndpoint = None => cs = <<>>
  /\ (t.currentEndpoint # None /\ Endpoints[t.currentEndpoint].writable)
       => Upto(cs) = t.offset

Settled == Over /\ ended # None /\ handled # None

WriteBooks ==
  /\ (Known /\ Receiving(twi)) => Buffered(twi, Subject)
  /\ (Known /\ ~Settled) =>
       /\ \A k \in DOMAIN calls : calls[k].call = "write"
       /\ ~Subject.rwn => ~twi.rwn /\ Chain(calls, Subject, twi)
  /\ Settled => calls = handled /\ ~twi.busy

AddressBooks ==
  (pc = "sending" /\ attached /\ irq \in {"none", "data"} /\ Taken < AddrBytes) =>
    /\ twi.busy /\ ~twi.rwn /\ twi.receivingAddr /\ twi.currentEndpoint = None
    /\ twi.bufPos = Taken /\ twi.offset = 0 /\ twi.bufLen = BufferSize
    /\ twi.addr = Shifted(op.addr)[AddrBytes - Taken]

\* The slave has the register address.
Addressed ==
  \/ pc = "sending" /\ irq \in {"none", "data"} /\ Taken >= AddrBytes
  \/ pc = "exit" /\ ~op.rwn /\ ok
  \/ pc = "restarted" /\ irq = "start"

DataBooks ==
  /\ (attached /\ Addressed) =>
       Receiving(twi) /\ twi.offset + twi.bufPos = Taken - AddrBytes
  /\ (pc = "restarted" \/ (pc = "exit" /\ ~op.rwn /\ ok /\ attached)) => sent = Len(Frame(op))
  /\ (pc = "sending" /\ irq = "data") => sent > 0 /\ data = Frame(op)[sent]
  /\ pc = "sending" => sent <= Len(Frame(op))

Whole(o) == Receiving(twi) /\ twi.offset + twi.bufPos = o.n

EndBooks ==
  /\ pc # "exit" => ok
  /\ pc = "idle" => ~attached /\ irq \in {"none", "stop"}
  /\ irq = "start" => attached
  /\ irq = "stop" => ended # None /\ handled = None
  /\ (pc = "idle" /\ ended # None) => ~ended.overtaken
  /\ (pc = "exit" /\ ~op.rwn /\ ok /\ ~broken) => attached /\ irq = "none"
  /\ (Over /\ ended # None /\ handled = None /\ ~ended.op.rwn /\ ended.ok /\ ~ended.broken) =>
         /\ Whole(ended.op)
         /\ irq = "stop" \/ (irq = "start" /\ ended.overtaken)
  /\ (irq = "stop" /\ ended # None /\ ended.op.rwn) => ~ended.ok
  /\ (pc = "idle" /\ irq = "none" /\ twi.busy) => ended # None /\ ~ended.ok

\* The buffer holds what the endpoint has from the offset on.
Loaded(t, addr) ==
  /\ Selected(t, addr)
  /\ t.busy /\ t.rwn /\ ~t.receivingAddr
  /\ t.bufLen <= BufferSize /\ t.bufPos <= t.bufLen
  /\ LET e == Endpoints[t.currentEndpoint]
     IN  /\ t.offset + t.bufLen <= Readable(t.currentEndpoint)
         /\ \A j \in 1 .. t.bufLen : t.buffer[j] = e.content[t.offset + j]
         /\ e.kind = "progmem" => t.bufLen = BufferSize /\ t.offset % BufferSize = 0
         /\ e.kind = "info" => t.bufLen > 0
         /\ e.kind = "once" => t.offset = 0 /\ t.bufLen = Readable(t.currentEndpoint)

GotTrue(e) ==
  \A i \in DOMAIN got :
     \/ i <= Readable(e) /\ got[i] = Endpoints[e].content[i]
     \/ (broken \/ i > Readable(e)) /\ got[i] = High

ReadBooks ==
  /\ pc \in {"idle", "sending", "restarted"} => got = <<>>
  /\ (pc \in {"restarted", "reading"} \/ (pc = "exit" /\ irq = "data")) => op.rwn
  /\ (attached /\ ((pc = "restarted" /\ irq = "none") \/ (pc = "reading" /\ irq \in {"none", "data"})))
       => Loaded(twi, op.addr)
  /\ (attached /\ pc = "restarted" /\ irq = "none") => twi.offset = 0 /\ twi.bufPos = 0
  /\ (attached /\ pc = "reading" /\ irq = "data")
       => twi.offset + twi.bufPos = Len(got) /\ (got # <<>> => ~nack)
  /\ (attached /\ pc = "reading" /\ irq = "none")
       => /\ twi.offset + twi.bufPos = Len(got) + 1
          /\ twi.bufPos > 0 /\ data = twi.buffer[twi.bufPos]
  /\ (pc = "reading" /\ ~attached) => broken \/ Len(got) >= Readable(twi.currentEndpoint)
  /\ (op.rwn /\ pc \in {"reading", "exit"} /\ ok) =>
       Selected(twi, op.addr) /\ GotTrue(twi.currentEndpoint) /\ ~pien

DataInv == /\ DataTyped /\ WriteBooks /\ AddressBooks /\ DataBooks /\ EndBooks /\ ReadBooks
           /\ Delivered /\ CommittedOnce /\ ReadsTrue

-----------------------------------------------------------------------------
(* What the functions of an endpoint return, and the driver makes of it.   *)

LEMMA ReadableFacts ==
  ASSUME NEW e \in DOMAIN Endpoints
  PROVE  /\ Readable(e) \in Nat /\ Readable(e) <= Len(Endpoints[e].content)
         /\ Endpoints[e].kind = "info" => Readable(e) = Len(Endpoints[e].content)
         /\ Endpoints[e].kind = "progmem" =>
              Readable(e) = Len(Endpoints[e].content) - (Len(Endpoints[e].content) % BufferSize)
         /\ Endpoints[e].kind = "once" =>
              /\ Readable(e) <= BufferSize
              /\ Readable(e) = Min({BufferSize, Len(Endpoints[e].content)})
<1> DEFINE size == Len(Endpoints[e].content)
<1>1. size \in Nat /\ BufferSize \in Nat \ {0}
  BY EndpointFacts, SizeAssumption
<1>2. size % BufferSize \in Nat /\ size % BufferSize <= size
  BY <1>1, DivFacts
<1>3. CASE Endpoints[e].kind = "info"
  <2>1. Readable(e) = size
    BY <1>3 DEF Readable
  <2> QED BY <1>1, <1>3, <2>1
<1>4. CASE Endpoints[e].kind = "progmem"
  <2>1. Readable(e) = size - (size % BufferSize)
    BY <1>4 DEF Readable
  <2> DEFINE rest == size % BufferSize
  <2>2. rest \in Nat /\ rest <= size /\ Readable(e) = size - rest
    BY <1>2, <2>1
  <2> HIDE DEF rest, size
  <2>3. Readable(e) \in Nat /\ Readable(e) <= size
    BY <1>1, <2>2
  <2> QED BY <1>4, <2>2, <2>3 DEF rest, size
<1>5. CASE Endpoints[e].kind = "once"
  <2>1. Readable(e) = Min({size, BufferSize}) /\ {size, BufferSize} = {BufferSize, size}
    BY <1>5 DEF Readable
  <2>2. Readable(e) = Min({BufferSize, size})
    BY <2>1
  <2>3. Min({BufferSize, size}) \in Nat /\ Min({BufferSize, size}) <= size
        /\ Min({BufferSize, size}) <= BufferSize
    BY <1>1, MinFacts
  <2> HIDE DEF size
  <2> QED BY <1>5, <2>2, <2>3 DEF size
<1> QED BY <1>3, <1>4, <1>5, EndpointFacts

LEMMA ReadFacts ==
  ASSUME NEW e \in DOMAIN Endpoints, NEW offset \in Nat
  PROVE  LET r == EndpointRead(e, offset)
             kind == Endpoints[e].kind
             size == Len(Endpoints[e].content)
         IN  /\ r # None =>
                  /\ r \in Seq(Nat) /\ Len(r) <= BufferSize /\ offset + Len(r) <= size
                  /\ \A j \in 1 .. Len(r) : r[j] = Endpoints[e].content[offset + j]
                  /\ kind = "info" => Len(r) > 0
                  /\ kind = "progmem" => Len(r) = BufferSize
                  /\ kind = "once" => offset = 0 /\ Len(r) = Readable(e)
             /\ r = None =>
                  /\ kind = "info" => size <= offset
                  /\ kind = "progmem" => offset + BufferSize > size
                  /\ kind = "once" => offset > 0
<1> DEFINE r == EndpointRead(e, offset)
           content == Endpoints[e].content
           kind == Endpoints[e].kind
           size == Len(content)
           m == Min({offset + BufferSize, size})
           from == SubSeq(content, offset + 1, m)
           refused == \/ kind = "info" /\ offset >= size
                      \/ kind = "progmem" /\ offset + BufferSize > size
                      \/ kind = "once" /\ offset > 0
<1>1. /\ content \in Seq(Nat) /\ size \in Nat /\ BufferSize \in Nat \ {0}
      /\ kind \in {"info", "progmem", "once"} /\ DOMAIN content = 1 .. size
      /\ \A i \in 1 .. size : content[i] \in Nat
  BY EndpointFacts, SizeAssumption, LenProperties, ElementOfSeq
<1>2. r = IF refused THEN None ELSE from
  BY <1>1 DEF EndpointRead
<1>3. m \in Nat /\ m <= size /\ m <= offset + BufferSize
      /\ (offset + BufferSize <= size => m = offset + BufferSize)
      /\ (size <= offset + BufferSize => m = size)
  <2>1. offset + BufferSize \in Nat
    BY <1>1
  <2> HIDE DEF size
  <2>2. /\ offset + BufferSize <= size => m = offset + BufferSize
        /\ size <= offset + BufferSize => m = size
    BY <1>1, <2>1, MinFacts
  <2> HIDE DEF m
  <2> QED BY <1>1, <2>1, <2>2
<1>readable. kind = "once" => Readable(e) = Min({BufferSize, size})
  BY ReadableFacts
<1> HIDE DEF m, content, size, kind
<1>4. \A i \in offset + 1 .. m : content[i] \in Nat
  BY <1>1, <1>3
<1>5. /\ from \in Seq(Nat)
      /\ Len(from) = IF offset + 1 <= m THEN m - (offset + 1) + 1 ELSE 0
      /\ \A i \in 1 .. m - (offset + 1) + 1 : from[i] = content[offset + 1 + i - 1]
  BY <1>3, <1>4, SubSeqProperties
<1> HIDE DEF from
<1>6. from # None
  BY <1>5, NoneAssumption
<1>7. CASE refused
  <2>1. r = None
    BY <1>2, <1>7
  <2>2. /\ kind = "info" => size <= offset
        /\ kind = "progmem" => offset + BufferSize > size
        /\ kind = "once" => offset > 0
    BY <1>1, <1>7
  <2> HIDE DEF r
  <2> QED BY <2>1, <2>2 DEF r, kind, size, content
<1>8. CASE ~refused
  <2>1. r = from
    BY <1>2, <1>8
  <2>2. offset <= m
    BY <1>1, <1>3, <1>8
  <2>3. Len(from) = m - offset
    BY <1>3, <1>5, <2>2
  <2>4. \A j \in 1 .. Len(from) : from[j] = content[offset + j]
    <3> SUFFICES ASSUME NEW j \in 1 .. Len(from) PROVE from[j] = content[offset + j]
      OBVIOUS
    <3>1. j \in 1 .. m - (offset + 1) + 1 /\ offset + 1 + j - 1 = offset + j
      BY <1>3, <2>3
    <3> QED BY <1>5, <3>1
  <2>5. Len(from) <= BufferSize /\ offset + Len(from) <= size
    BY <1>1, <1>3, <2>2, <2>3
  <2>6. kind = "info" => Len(from) > 0
    BY <1>1, <1>3, <1>8, <2>3
  <2>7. kind = "progmem" => Len(from) = BufferSize
    BY <1>1, <1>3, <1>8, <2>3
  <2>8. kind = "once" => offset = 0 /\ Len(from) = Readable(e)
    <3> SUFFICES ASSUME kind = "once" PROVE offset = 0 /\ Len(from) = Readable(e)
      OBVIOUS
    <3>1. offset = 0
      BY <1>8
    <3>2. m = Min({BufferSize, size})
      BY <1>1, <3>1 DEF m
    <3> QED BY <1>3, <1>readable, <2>3, <3>1, <3>2
  <2> HIDE DEF r
  <2> QED BY <1>5, <1>6, <2>1, <2>4, <2>5, <2>6, <2>7, <2>8, Zenon DEF r, kind, size, content
<1> QED BY <1>7, <1>8

LEMMA TwiFacts ==
  ASSUME NEW t \in TwiType
  PROVE  /\ t.busy \in BOOLEAN /\ t.rwn \in BOOLEAN /\ t.receivingAddr \in BOOLEAN
         /\ t.currentEndpoint \in DOMAIN Endpoints \cup {None}
         /\ t.addr \in Nat /\ t.offset \in Nat /\ t.bufLen \in Nat /\ t.bufPos \in Nat
         /\ t.buffer \in [1 .. BufferSize -> Nat]
BY DEF TwiType

\* The bytes that have been read replace the front of the buffer.
LEMMA BufferFacts ==
  ASSUME NEW b \in [1 .. BufferSize -> Nat], NEW s \in Seq(Nat), Len(s) <= BufferSize
  PROVE  LET new == s \o SubSeq(b, Len(s) + 1, BufferSize)
         IN  /\ new \in [1 .. BufferSize -> Nat]
             /\ \A j \in 1 .. Len(s) : new[j] = s[j]
<1> DEFINE rest == SubSeq(b, Len(s) + 1, BufferSize)
<1>1. Len(s) \in Nat /\ BufferSize \in Nat \ {0}
  BY SizeAssumption
<1>2. /\ rest \in Seq(Nat)
      /\ Len(rest) = IF Len(s) + 1 <= BufferSize THEN BufferSize - (Len(s) + 1) + 1 ELSE 0
  <2>1. \A i \in Len(s) + 1 .. BufferSize : b[i] \in Nat
    BY <1>1
  <2> QED BY <1>1, <2>1, SubSeqProperties
<1> HIDE DEF rest
<1>3. Len(rest) = BufferSize - Len(s)
  BY <1>1, <1>2
<1>4. /\ s \o rest \in Seq(Nat) /\ Len(s \o rest) = Len(s) + Len(rest)
      /\ \A i \in 1 .. Len(s) + Len(rest) :
           (s \o rest)[i] = IF i <= Len(s) THEN s[i] ELSE rest[i - Len(s)]
  BY <1>2, ConcatProperties
<1>5. s \o rest \in [1 .. BufferSize -> Nat]
  <2>1. Len(s \o rest) = BufferSize
    BY <1>1, <1>3, <1>4
  <2>2. s \o rest \in [1 .. Len(s \o rest) -> Nat]
    BY <1>4, LenProperties, Zenon
  <2> QED BY <2>1, <2>2
<1>6. ASSUME NEW j \in 1 .. Len(s) PROVE (s \o rest)[j] = s[j]
  <2>1. j \in 1 .. Len(s) + Len(rest) /\ j <= Len(s)
    BY <1>1, <1>3
  <2> QED BY <1>4, <2>1
<1> QED BY <1>5, <1>6 DEF rest

\* From an offset at which a read may go on, the buffer is loaded with what
\* the endpoint has there, and an error means that it has no more.
Continues(t) ==
  /\ t.busy /\ t.rwn /\ ~t.receivingAddr /\ t.bufPos = 0
  /\ Endpoints[t.currentEndpoint].kind = "progmem" => t.offset % BufferSize = 0
  /\ Endpoints[t.currentEndpoint].kind = "once" =>
       t.offset = 0 \/ Readable(t.currentEndpoint) <= t.offset

LEMMA FilledLoads ==
  ASSUME NEW t \in TwiType, NEW addr, Selected(t, addr), Continues(t)
  PROVE  /\ Filled(t).error \in BOOLEAN
         /\ Filled(t).error => Filled(t).twi = t /\ Readable(t.currentEndpoint) <= t.offset
         /\ ~Filled(t).error =>
              /\ Filled(t).twi \in TwiType /\ Loaded(Filled(t).twi, addr)
              /\ Filled(t).twi.offset = t.offset /\ Filled(t).twi.bufPos = 0
              /\ Filled(t).twi.currentEndpoint = t.currentEndpoint
<1> DEFINE e == t.currentEndpoint
           bytes == EndpointRead(e, t.offset)
           size == Len(Endpoints[e].content)
           full == [t EXCEPT !.bufLen = Len(bytes),
                             !.buffer = bytes \o SubSeq(@, Len(bytes) + 1, BufferSize)]
<1>1. e \in DOMAIN Endpoints /\ e # None /\ t.offset \in Nat /\ Served(addr, e)
  <2>1. e \in DOMAIN Endpoints /\ Served(addr, e)
    BY DEF Selected
  <2>2. e \in Nat /\ t.offset \in Nat
    BY <2>1, EndpointFacts, TwiFacts
  <2> QED BY <2>1, <2>2, NoneAssumption
<1>2. Filled(t) = IF bytes = None THEN [twi |-> t, error |-> TRUE]
                  ELSE [twi |-> full, error |-> FALSE]
  BY <1>1 DEF Filled
<1>3. /\ bytes # None =>
           /\ bytes \in Seq(Nat) /\ Len(bytes) <= BufferSize /\ t.offset + Len(bytes) <= size
           /\ \A j \in 1 .. Len(bytes) : bytes[j] = Endpoints[e].content[t.offset + j]
           /\ Endpoints[e].kind = "info" => Len(bytes) > 0
           /\ Endpoints[e].kind = "progmem" => Len(bytes) = BufferSize
           /\ Endpoints[e].kind = "once" => t.offset = 0 /\ Len(bytes) = Readable(e)
      /\ bytes = None =>
           /\ Endpoints[e].kind = "info" => size <= t.offset
           /\ Endpoints[e].kind = "progmem" => t.offset + BufferSize > size
           /\ Endpoints[e].kind = "once" => t.offset > 0
  BY <1>1, ReadFacts
<1>4. /\ Endpoints[e].kind \in {"info", "progmem", "once"}
      /\ size \in Nat /\ BufferSize \in Nat \ {0}
  BY <1>1, EndpointFacts, SizeAssumption, LenProperties
<1>5. /\ Readable(e) \in Nat
      /\ Endpoints[e].kind = "info" => Readable(e) = size
      /\ Endpoints[e].kind = "progmem" => Readable(e) = size - (size % BufferSize)
  BY <1>1, ReadableFacts
<1>6. /\ t.busy /\ t.rwn /\ ~t.receivingAddr /\ t.bufPos = 0
      /\ Endpoints[e].kind = "progmem" => t.offset % BufferSize = 0
      /\ Endpoints[e].kind = "once" => t.offset = 0 \/ Readable(e) <= t.offset
  BY DEF Continues
<1>7. Endpoints[e].kind = "progmem" =>
        /\ t.offset + BufferSize <= size => t.offset + BufferSize <= Readable(e)
        /\ t.offset + BufferSize > size => Readable(e) <= t.offset
  <2> SUFFICES ASSUME Endpoints[e].kind = "progmem"
               PROVE  /\ t.offset + BufferSize <= size => t.offset + BufferSize <= Readable(e)
                      /\ t.offset + BufferSize > size => Readable(e) <= t.offset
    OBVIOUS
  <2>1. t.offset % BufferSize = 0 /\ Readable(e) = size - (size % BufferSize)
    BY <1>5, <1>6
  <2> HIDE DEF size, e
  <2>2. /\ t.offset + BufferSize <= size => t.offset + BufferSize <= size - (size % BufferSize)
        /\ t.offset + BufferSize > size => size - (size % BufferSize) <= t.offset
    BY <1>1, <1>4, <2>1, ModFacts
  <2> QED BY <2>1, <2>2
<1> HIDE DEF bytes, size
<1>8. CASE bytes = None
  <2>1. Filled(t).error = TRUE /\ Filled(t).twi = t
    BY <1>2, <1>8
  <2> HIDE DEF full, e
  <2>2. Readable(e) <= t.offset
    BY <1>1, <1>3, <1>4, <1>5, <1>6, <1>7, <1>8
  <2> QED BY <2>1, <2>2 DEF e
<1>9. CASE bytes # None
  <2> DEFINE new == bytes \o SubSeq(t.buffer, Len(bytes) + 1, BufferSize)
  <2>1. Filled(t).error = FALSE /\ Filled(t).twi = full
    BY <1>2, <1>9
  <2>2. /\ new \in [1 .. BufferSize -> Nat]
        /\ \A j \in 1 .. Len(bytes) : new[j] = bytes[j]
    BY <1>3, <1>9, TwiFacts, BufferFacts
  <2>3. full = [t EXCEPT !.bufLen = Len(bytes), !.buffer = new] /\ Len(bytes) \in Nat
    BY <1>3, <1>9, LenProperties
  <2> HIDE DEF new, full
  <2>4. full \in TwiType
    BY <2>2, <2>3 DEF TwiType
  <2>5. /\ full.busy = t.busy /\ full.rwn = t.rwn /\ full.receivingAddr = t.receivingAddr
        /\ full.currentEndpoint = e /\ full.offset = t.offset /\ full.bufPos = t.bufPos
        /\ full.bufLen = Len(bytes) /\ full.buffer = new
    BY <2>3 DEF TwiType
  <2>6. t.offset + Len(bytes) <= Readable(e)
    BY <1>1, <1>3, <1>4, <1>5, <1>6, <1>7, <1>9, <2>3
  <2>7. \A j \in 1 .. Len(bytes) : new[j] = Endpoints[e].content[t.offset + j]
    BY <1>3, <1>9, <2>2
  <2> HIDE DEF e
  <2>8. /\ Selected(full, addr) /\ full.busy /\ full.rwn /\ ~full.receivingAddr
        /\ full.bufLen <= BufferSize /\ full.bufPos <= full.bufLen
    BY <1>1, <1>3, <1>6, <1>9, <2>3, <2>5 DEF Selected
  <2>9. /\ full.offset + full.bufLen <= Readable(full.currentEndpoint)
        /\ \A j \in 1 .. full.bufLen :
             full.buffer[j] = Endpoints[full.currentEndpoint].content[full.offset + j]
    BY <2>5, <2>6, <2>7
  <2>10. /\ Endpoints[e].kind = "progmem" =>
              full.bufLen = BufferSize /\ full.offset % BufferSize = 0
         /\ Endpoints[e].kind = "info" => full.bufLen > 0
         /\ Endpoints[e].kind = "once" =>
              full.offset = 0 /\ full.bufLen = Readable(full.currentEndpoint)
    BY <1>3, <1>6, <1>9, <2>5
  <2>11. Loaded(full, addr)
    BY <2>5, <2>8, <2>9, <2>10 DEF Loaded
  <2> QED BY <1>6, <2>1, <2>4, <2>5, <2>11 DEF e
<1> QED BY <1>8, <1>9

\* A transaction is started for a write.
LEMMA StartsWrite ==
  ASSUME NEW t \in TwiType
  PROVE  LET r == twis_start_transaction(twis_end_transaction(t), FALSE, FALSE)
         IN  /\ r.error = FALSE /\ r.twi \in TwiType
             /\ r.twi.busy /\ ~r.twi.rwn /\ r.twi.receivingAddr
             /\ r.twi.currentEndpoint = None /\ r.twi.addr = 0 /\ r.twi.offset = 0
             /\ r.twi.bufLen = BufferSize /\ r.twi.bufPos = 0
<1> DEFINE s == twis_end_transaction(t)
           new == [s EXCEPT !.receivingAddr = TRUE, !.addr = 0, !.offset = 0,
                            !.currentEndpoint = None]
           empty == [new EXCEPT !.rwn = FALSE, !.busy = TRUE,
                                !.bufLen = BufferSize, !.bufPos = 0]
           r == twis_start_transaction(s, FALSE, FALSE)
<1>1. s \in TwiType
  BY DEF TwiType, twis_end_transaction
<1>2. r = [twi |-> empty, error |-> FALSE]
  BY DEF twis_start_transaction
<1> HIDE DEF s, r
<1>3. new \in TwiType /\ new.receivingAddr = TRUE /\ new.addr = 0 /\ new.offset = 0
      /\ new.currentEndpoint = None
  BY <1>1 DEF TwiType
<1> HIDE DEF new
<1>4. /\ empty \in TwiType
      /\ empty.busy = TRUE /\ empty.rwn = FALSE /\ empty.receivingAddr = TRUE
      /\ empty.currentEndpoint = None /\ empty.addr = 0 /\ empty.offset = 0
      /\ empty.bufLen = BufferSize /\ empty.bufPos = 0
  BY <1>3, SizeAssumption DEF TwiType
<1> HIDE DEF empty
<1>5. r.error = FALSE /\ r.twi = empty
  BY <1>2
<1> QED BY <1>4, <1>5 DEF r, s

\* The state from which a transaction goes on, before the buffer is filled.
Extended(t, rwn) ==
  [t EXCEPT !.offset = @ + t.bufPos, !.receivingAddr = FALSE, !.rwn = rwn, !.busy = TRUE,
            !.bufLen = BufferSize, !.bufPos = 0]

LEMMA ExtendedFacts ==
  ASSUME NEW t \in TwiType, ~t.receivingAddr, NEW rwn \in BOOLEAN
  PROVE  /\ twis_start_transaction(twis_end_transaction(t), rwn, TRUE)
              = IF rwn THEN Filled(Extended(t, rwn))
                ELSE [twi |-> Extended(t, rwn), error |-> FALSE]
         /\ Extended(t, rwn) \in TwiType
         /\ Extended(t, rwn).busy = TRUE /\ Extended(t, rwn).rwn = rwn
         /\ Extended(t, rwn).receivingAddr = FALSE
         /\ Extended(t, rwn).currentEndpoint = t.currentEndpoint
         /\ Extended(t, rwn).offset = t.offset + t.bufPos
         /\ Extended(t, rwn).bufLen = BufferSize /\ Extended(t, rwn).bufPos = 0
         /\ Extended(t, rwn).buffer = t.buffer
<1> DEFINE s == twis_end_transaction(t)
           new == [s EXCEPT !.offset = IF s.receivingAddr THEN @ ELSE @ + s.bufPos,
                            !.receivingAddr = FALSE]
           empty == [new EXCEPT !.rwn = rwn, !.busy = TRUE,
                                !.bufLen = BufferSize, !.bufPos = 0]
           x == Extended(t, rwn)
<1>1. /\ x \in TwiType
      /\ x.busy = TRUE /\ x.rwn = rwn /\ x.receivingAddr = FALSE
      /\ x.currentEndpoint = t.currentEndpoint /\ x.offset = t.offset + t.bufPos
      /\ x.bufLen = BufferSize /\ x.bufPos = 0 /\ x.buffer = t.buffer /\ x.addr = t.addr
  <2> DEFINE o == t.offset + t.bufPos
  <2>1. o \in Nat /\ BufferSize \in Nat
    BY TwiFacts, SizeAssumption
  <2>2. x = [t EXCEPT !.offset = o, !.receivingAddr = FALSE, !.rwn = rwn, !.busy = TRUE,
                      !.bufLen = BufferSize, !.bufPos = 0]
    BY DEF Extended
  <2> HIDE DEF o, x
  <2>3. x \in TwiType
    BY <2>1, <2>2 DEF TwiType
  <2>4. /\ x.busy = TRUE /\ x.rwn = rwn /\ x.receivingAddr = FALSE
        /\ x.currentEndpoint = t.currentEndpoint /\ x.offset = o
        /\ x.bufLen = BufferSize /\ x.bufPos = 0 /\ x.buffer = t.buffer /\ x.addr = t.addr
    BY <2>2 DEF TwiType
  <2> QED BY <2>3, <2>4 DEF o
<1>2. /\ s \in TwiType /\ s.receivingAddr = FALSE /\ s.bufPos = t.bufPos /\ s.offset = t.offset
      /\ s.currentEndpoint = t.currentEndpoint /\ s.addr = t.addr /\ s.buffer = t.buffer
  BY DEF TwiType, twis_end_transaction
<1>3. twis_start_transaction(s, rwn, TRUE)
        = IF rwn THEN Filled(empty) ELSE [twi |-> empty, error |-> FALSE]
  BY DEF twis_start_transaction
<1> HIDE DEF s, x
<1>4. /\ new \in TwiType /\ new.receivingAddr = FALSE /\ new.offset = t.offset + t.bufPos
      /\ new.currentEndpoint = t.currentEndpoint /\ new.addr = t.addr /\ new.buffer = t.buffer
  <2> DEFINE o == t.offset + t.bufPos
  <2>1. o \in Nat
    BY TwiFacts
  <2>2. new = [s EXCEPT !.offset = o, !.receivingAddr = FALSE]
    BY <1>2
  <2> HIDE DEF o, new
  <2>3. new \in TwiType
    BY <1>2, <2>1, <2>2 DEF TwiType
  <2>4. /\ new.receivingAddr = FALSE /\ new.offset = o
        /\ new.currentEndpoint = t.currentEndpoint /\ new.addr = t.addr /\ new.buffer = t.buffer
    BY <1>2, <2>2 DEF TwiType
  <2> QED BY <2>3, <2>4 DEF o
<1> HIDE DEF new
<1>5. /\ empty \in TwiType
      /\ empty.busy = TRUE /\ empty.rwn = rwn /\ empty.receivingAddr = FALSE
      /\ empty.currentEndpoint = t.currentEndpoint /\ empty.offset = t.offset + t.bufPos
      /\ empty.bufLen = BufferSize /\ empty.bufPos = 0 /\ empty.buffer = t.buffer
      /\ empty.addr = t.addr
  BY <1>4, SizeAssumption DEF TwiType
<1> HIDE DEF empty
<1>6. empty = x
  BY <1>1, <1>5 DEF TwiType
<1> QED BY <1>1, <1>3, <1>6 DEF s, x

\* Room is made for more data of a write.
LEMMA StartsPiece ==
  ASSUME NEW t \in TwiType, ~t.receivingAddr
  PROVE  twis_start_transaction(twis_end_transaction(t), FALSE, TRUE).twi = Extended(t, FALSE)
<1>1. twis_start_transaction(twis_end_transaction(t), FALSE, TRUE)
        = [twi |-> Extended(t, FALSE), error |-> FALSE]
  <2>1. FALSE \in BOOLEAN
    OBVIOUS
  <2> QED BY <2>1, ExtendedFacts
<1> DEFINE x == Extended(t, FALSE)
           r == twis_start_transaction(twis_end_transaction(t), FALSE, TRUE)
<1>2. r = [twi |-> x, error |-> FALSE]
  BY <1>1
<1> HIDE DEF x, r
<1>3. r.twi = x
  BY <1>2
<1> QED BY <1>3 DEF x, r

\* The buffer of a read is filled, or filled again.
LEMMA StartsRead ==
  ASSUME NEW t \in TwiType, ~t.receivingAddr, NEW addr, Selected(t, addr),
         Endpoints[t.currentEndpoint].kind = "progmem" => (t.offset + t.bufPos) % BufferSize = 0,
         Endpoints[t.currentEndpoint].kind = "once" =>
           t.offset + t.bufPos = 0 \/ Readable(t.currentEndpoint) <= t.offset + t.bufPos
  PROVE  LET r == twis_start_transaction(twis_end_transaction(t), TRUE, TRUE)
         IN  /\ r.error \in BOOLEAN /\ r.twi \in TwiType
             /\ r.twi.currentEndpoint = t.currentEndpoint /\ r.twi.rwn
             /\ r.twi.offset = t.offset + t.bufPos /\ r.twi.bufPos = 0
             /\ r.error => Readable(t.currentEndpoint) <= t.offset + t.bufPos
             /\ ~r.error => Loaded(r.twi, addr)
<1> DEFINE x == Extended(t, TRUE)
           r == twis_start_transaction(twis_end_transaction(t), TRUE, TRUE)
<1>1. /\ r = Filled(x) /\ x \in TwiType
      /\ x.busy = TRUE /\ x.rwn = TRUE /\ x.receivingAddr = FALSE
      /\ x.currentEndpoint = t.currentEndpoint /\ x.offset = t.offset + t.bufPos /\ x.bufPos = 0
  BY ExtendedFacts
<1> HIDE DEF x, r
<1>2. Selected(x, addr) /\ Continues(x)
  BY <1>1 DEF Selected, Continues
<1>3. /\ r.error \in BOOLEAN
      /\ r.error => r.twi = x /\ Readable(x.currentEndpoint) <= x.offset
      /\ ~r.error => /\ r.twi \in TwiType /\ Loaded(r.twi, addr)
                     /\ r.twi.offset = x.offset /\ r.twi.bufPos = 0
                     /\ r.twi.currentEndpoint = x.currentEndpoint
  BY <1>1, <1>2, FilledLoads
<1>4. Loaded(r.twi, addr) => r.twi.rwn
  BY DEF Loaded
<1> QED BY <1>1, <1>3, <1>4 DEF r

LEMMA FlushExtends ==
  ASSUME NEW t \in TwiType, NEW cs \in Seq(CallType), NEW o,
         Receiving(t) => Buffered(t, o)
  PROVE  LET all == cs \o Flushed(t)
             flushes == Receiving(t) /\ Endpoints[t.currentEndpoint].writable
         IN  /\ all \in Seq(CallType)
             /\ ~t.busy => all = cs
             /\ (\A k \in DOMAIN cs : cs[k].call = "write")
                  => \A k \in DOMAIN all : all[k].call = "write"
             /\ Chain(cs, o, t) =>
                  /\ Pieces(all, o)
                  /\ flushes => all # <<>> /\ Upto(all) = t.offset + t.bufPos
                  /\ ~flushes => all = cs
<1> DEFINE e == t.currentEndpoint
           flushes == Receiving(t) /\ Endpoints[e].writable
           c == [call |-> "write", endpoint |-> e, offset |-> t.offset,
                 data |-> SubSeq(t.buffer, 1, t.bufPos)]
           all == cs \o Flushed(t)
           n == Len(cs)
<1>cs. n \in Nat /\ DOMAIN cs = 1 .. n /\ cs \o <<>> = cs
  BY LenProperties, ConcatEmptySeq
<1>1. CASE ~flushes
  <2>1. Flushed(t) = <<>>
    BY <1>1 DEF Flushed, Receiving
  <2>2. all = cs
    BY <1>cs, <2>1
  <2>3. Chain(cs, o, t) => Pieces(all, o)
    BY <2>2 DEF Chain
  <2> HIDE DEF all, e
  <2> QED BY <1>1, <2>2, <2>3 DEF all, e
<1>2. CASE flushes
  <2>1. /\ e \in DOMAIN Endpoints /\ Served(o.addr, e) /\ t.busy /\ t.bufPos <= BufferSize
        /\ t.offset + t.bufPos <= o.n /\ \A j \in 1 .. t.bufPos : t.buffer[j] = t.offset + j
    BY <1>2 DEF Buffered, Selected, Receiving
  <2>2. e # None
    BY <2>1, EndpointFacts, NoneAssumption
  <2>3. Flushed(t) = <<c>>
    BY <1>2, <2>2 DEF Flushed, Receiving
  <2>4. t.bufPos \in Nat /\ t.offset \in Nat /\ t.buffer \in [1 .. BufferSize -> Nat]
    BY TwiFacts
  <2>5. /\ c.data \in Seq(Nat) /\ Len(c.data) = t.bufPos
        /\ c.data = [i \in 1 .. Len(c.data) |-> c.offset + i]
    <3> DEFINE d == SubSeq(t.buffer, 1, t.bufPos)
    <3>1. \A i \in 1 .. t.bufPos : t.buffer[i] \in Nat
      BY <2>1, <2>4, SizeAssumption
    <3>2. /\ d \in Seq(Nat) /\ Len(d) = (IF 1 <= t.bufPos THEN t.bufPos - 1 + 1 ELSE 0)
          /\ \A i \in 1 .. t.bufPos - 1 + 1 : d[i] = t.buffer[1 + i - 1]
      BY <2>4, <3>1, SubSeqProperties
    <3> HIDE DEF d
    <3>3. d \in Seq(Nat) /\ Len(d) = t.bufPos
      BY <2>4, <3>2
    <3>4. \A i \in 1 .. t.bufPos : d[i] = t.offset + i
      <4> SUFFICES ASSUME NEW i \in 1 .. t.bufPos PROVE d[i] = t.offset + i
        OBVIOUS
      <4>1. i \in 1 .. t.bufPos - 1 + 1 /\ 1 + i - 1 = i
        BY <2>4
      <4> QED BY <2>1, <3>2, <4>1
    <3>5. d = [i \in 1 .. Len(d) |-> t.offset + i]
      BY <2>4, <3>3, <3>4, LenProperties
    <3>6. c.data = d /\ c.offset = t.offset
      BY DEF d
    <3> QED BY <3>3, <3>5, <3>6
  <2>6. c \in CallType /\ c.call = "write" /\ c.endpoint = e /\ c.offset = t.offset
    BY <2>1, <2>4, <2>5 DEF CallType
  <2>7. End(c) = t.offset + t.bufPos
    BY <2>5, <2>6 DEF End
  <2> HIDE DEF c
  <2>8. /\ all \in Seq(CallType) /\ Len(all) = n + 1 /\ DOMAIN all = 1 .. n + 1
        /\ all[n + 1] = c /\ \A k \in 1 .. n : all[k] = cs[k]
    <3>1. all = Append(cs, c)
      BY <2>3, <2>6, AppendIsConcat
    <3> HIDE DEF all
    <3> QED BY <1>cs, <2>6, <3>1, AppendProperties, LenProperties
  <2> HIDE DEF all, n, e
  <2>9. (\A k \in DOMAIN cs : cs[k].call = "write") => \A k \in DOMAIN all : all[k].call = "write"
    <3> SUFFICES ASSUME \A k \in 1 .. n : cs[k].call = "write", NEW k \in 1 .. n + 1
                 PROVE  all[k].call = "write"
      BY <1>cs, <2>8
    <3>1. k \in 1 .. n \/ k = n + 1
      BY <1>cs
    <3> QED BY <2>6, <2>8, <3>1
  <2>10. all # <<>> /\ Upto(all) = t.offset + t.bufPos
    <3>1. all # <<>>
      BY <1>cs, <2>8
    <3> QED BY <2>7, <2>8, <3>1 DEF Upto
  <2>11. ASSUME Chain(cs, o, t) PROVE Pieces(all, o)
    <3>1. Pieces(cs, o) /\ Upto(cs) = t.offset
      BY <1>2, <2>2, <2>11 DEF Chain, e
    <3>2. ASSUME NEW k \in 1 .. n + 1
          PROVE  /\ all[k].call = "write"
                 /\ Served(o.addr, all[k].endpoint)
                 /\ all[k].offset = IF k = 1 THEN 0 ELSE End(all[k - 1])
                 /\ all[k].data = [i \in 1 .. Len(all[k].data) |-> all[k].offset + i]
                 /\ End(all[k]) <= o.n
      <4>1. CASE k \in 1 .. n
        <5>1. all[k] = cs[k] /\ (k # 1 => all[k - 1] = cs[k - 1])
          BY <1>cs, <2>8, <4>1
        <5> QED BY <1>cs, <3>1, <4>1, <5>1 DEF Pieces
      <4>2. CASE k = n + 1
        <5>1. all[k] = c
          BY <2>8, <4>2
        <5>2. t.offset = IF k = 1 THEN 0 ELSE End(all[k - 1])
          <6>1. cs = <<>> <=> k = 1
            BY <1>cs, <4>2, EmptySeq DEF n
          <6>2. k # 1 => k - 1 = n /\ n \in 1 .. n
            BY <1>cs, <4>2
          <6> QED BY <2>8, <3>1, <6>1, <6>2 DEF Upto, n
        <5> QED BY <2>1, <2>5, <2>6, <2>7, <5>1, <5>2
      <4> QED BY <1>cs, <4>1, <4>2
    <3> QED BY <2>8, <3>2 DEF Pieces
  <2> HIDE DEF flushes
  <2> QED BY <1>2, <2>1, <2>8, <2>9, <2>10, <2>11 DEF flushes, all, e
<1> QED BY <1>1, <1>2

-----------------------------------------------------------------------------
(* The steps that leave the slave's driver alone.                          *)

LEMMA TransferFacts ==
  ASSUME IInv
  PROVE  op.n \in Nat /\ op.rwn \in BOOLEAN /\ op.addr \in Nat
<1>1. op \in Transfers \cup {NoTransfer}
  BY DEF IInv, Typed
<1> QED BY <1>1, FrameFacts, AddressFits

LEMMA EndedFacts ==
  ASSUME DataTyped, ended # None
  PROVE  /\ ended \in EndedType
         /\ ended.op.n \in Nat /\ ended.op.rwn \in BOOLEAN /\ ended.op.addr \in Nat
         /\ ended.ok \in BOOLEAN /\ ended.broken \in BOOLEAN /\ ended.overtaken \in BOOLEAN
<1>1. ended \in EndedType
  BY DEF DataTyped
<1>2. /\ ended.op \in Transfers \cup {NoTransfer}
      /\ ended.ok \in BOOLEAN /\ ended.broken \in BOOLEAN /\ ended.overtaken \in BOOLEAN
  BY <1>1 DEF EndedType
<1> QED BY <1>1, <1>2, FrameFacts, AddressFits

\* What was true of a transfer stays true, and nothing is claimed of none.
LEMMA HistoryKept ==
  ASSUME DataInv, UNCHANGED <<ended, handled>>
  PROVE  Delivered' /\ CommittedOnce' /\ ReadsTrue'
<1>1. Delivered'
  BY DEF DataInv, Delivered
<1>2. CommittedOnce'
  BY DEF DataInv, CommittedOnce
<1>3. ReadsTrue'
  BY DEF DataInv, ReadsTrue
<1> QED BY <1>1, <1>2, <1>3

LEMMA HistoryForgotten ==
  ASSUME Forget
  PROVE  Delivered' /\ CommittedOnce' /\ ReadsTrue'
BY DEF Forget, Delivered, CommittedOnce, ReadsTrue

\* The books of a write stay right while neither the driver nor its calls
\* change, nor the transfer they are about.
LEMMA WritesKept ==
  ASSUME WriteBooks, UNCHANGED <<twi, calls>>,
         Known' => Known /\ Subject' = Subject,
         Settled' => Settled /\ handled' = handled, Settled => Settled' \/ ~Known'
  PROVE  WriteBooks'
<1>1. ASSUME Known', Receiving(twi') PROVE Buffered(twi', Subject')
  <2>1. Buffered(twi, Subject)
    BY <1>1 DEF WriteBooks
  <2> QED BY <1>1, <2>1
<1>2. ASSUME Known', ~Settled'
      PROVE  /\ \A k \in DOMAIN calls' : calls'[k].call = "write"
             /\ ~Subject'.rwn => ~twi'.rwn /\ Chain(calls', Subject', twi')
  <2>1. /\ \A k \in DOMAIN calls : calls[k].call = "write"
        /\ ~Subject.rwn => ~twi.rwn /\ Chain(calls, Subject, twi)
    BY <1>2 DEF WriteBooks
  <2> QED BY <1>2, <2>1
<1>3. Settled' => calls' = handled' /\ ~twi'.busy
  BY DEF WriteBooks
<1> QED BY <1>1, <1>2, <1>3 DEF WriteBooks

LEMMA DataInitially == Init => DataInv
<1> SUFFICES ASSUME Init PROVE DataInv
  OBVIOUS
<1> USE DEF Init
<1>1. DataTyped
  <2>1. twi \in TwiType
    <3> DEFINE b == [i \in 1 .. BufferSize |-> 0]
    <3>1. b \in [1 .. BufferSize -> Nat]
      OBVIOUS
    <3> HIDE DEF b
    <3> QED BY <3>1 DEF TwiType, b
  <2>2. got \in Seq(Nat \cup {High}) /\ calls \in Seq(CallType)
    BY EmptySeq
  <2> QED BY <2>1, <2>2 DEF DataTyped
<1>2. WriteBooks
  BY DEF WriteBooks, Known, Over, Settled, Receiving
<1>3. AddressBooks /\ DataBooks
  BY DEF AddressBooks, DataBooks, Addressed
<1>4. EndBooks
  BY DEF EndBooks
<1>5. ReadBooks
  BY DEF ReadBooks
<1>6. Delivered /\ CommittedOnce /\ ReadsTrue
  BY DEF Delivered, CommittedOnce, ReadsTrue
<1> QED BY <1>1, <1>2, <1>3, <1>4, <1>5, <1>6 DEF DataInv

LEMMA StartKeeps ==
  ASSUME IInv, IInv', DataInv, Start
  PROVE  DataInv'
<1>0. /\ pc = "idle" /\ irq \in {"none", "stop"} /\ pc' = "sending" /\ irq' = "start"
      /\ attached' = TRUE /\ sent' = sent /\ got' = got
      /\ UNCHANGED <<ok, data, twi, calls, broken, handled>>
      /\ ended' = IF ended = None THEN None ELSE [ended EXCEPT !.overtaken = irq = "stop"]
      /\ ~ended.overtaken \/ ended = None
  BY DEF Start, DataInv, EndBooks
<1>1. /\ ended = None <=> ended' = None
      /\ ended # None =>
           /\ ended' \in EndedType /\ ended'.op = ended.op /\ ended'.got = ended.got
           /\ ended'.ok = ended.ok /\ ended'.broken = ended.broken
           /\ ended'.overtaken <=> irq = "stop"
  <2>1. CASE ended = None
    BY <1>0, <2>1
  <2>2. CASE ended # None
    <3> DEFINE late == irq = "stop"
    <3>1. ended \in EndedType /\ late \in BOOLEAN
      BY <2>2 DEF DataInv, DataTyped
    <3>2. ended' = [ended EXCEPT !.overtaken = late]
      BY <1>0, <2>2
    <3> HIDE DEF late
    <3>3. /\ ended' \in EndedType /\ ended'.op = ended.op /\ ended'.got = ended.got
          /\ ended'.ok = ended.ok /\ ended'.broken = ended.broken
          /\ ended'.overtaken = late
      BY <3>1, <3>2 DEF EndedType
    <3>4. ended' # None
      BY <3>3, NoneAssumption
    <3> QED BY <2>2, <3>3, <3>4 DEF late
  <2> QED BY <2>1, <2>2
<1>2. DataTyped'
  BY <1>0, <1>1 DEF DataInv, DataTyped
<1>3. WriteBooks'
  <2>1. Over /\ Over'
    BY <1>0 DEF Over
  <2>2. Known' => Known /\ Subject' = Subject
    BY <1>1, <2>1 DEF Known, Subject
  <2>3. (Settled' => Settled) /\ (Settled => Settled') /\ handled' = handled
    BY <1>0, <1>1, <2>1 DEF Settled
  <2> QED BY <1>0, <2>2, <2>3, WritesKept DEF DataInv
<1>4. AddressBooks'
  BY <1>0 DEF AddressBooks
<1>5. DataBooks'
  <2>1. sent' = 0 /\ op' \in Transfers \cup {NoTransfer}
    BY <1>0 DEF IInv, StopsEnabled, Typed
  <2>2. Len(Frame(op')) \in Nat
    BY <2>1, FramePositive
  <2>3. ~Addressed'
    BY <1>0 DEF Addressed
  <2> QED BY <1>0, <2>1, <2>2, <2>3 DEF DataBooks
<1>6. EndBooks'
  <2>1. Over /\ Over'
    BY <1>0 DEF Over
  <2> QED BY <1>0, <1>1, <2>1 DEF DataInv, EndBooks, Whole
<1>7. ReadBooks'
  BY <1>0 DEF DataInv, ReadBooks
<1>8. Delivered'
  BY <1>0, <1>1 DEF DataInv, Delivered
<1>9. CommittedOnce'
  <2>1. CASE irq = "stop"
    \* Nothing has been handled of it yet.
    BY <1>0, <2>1 DEF DataInv, EndBooks, CommittedOnce
  <2>2. CASE irq # "stop"
    BY <1>0, <1>1, <2>2 DEF DataInv, CommittedOnce
  <2> QED BY <2>1, <2>2
<1>10. ReadsTrue'
  BY <1>0, <1>1 DEF DataInv, ReadsTrue
<1> QED BY <1>2, <1>3, <1>4, <1>5, <1>6, <1>7, <1>8, <1>9, <1>10 DEF DataInv

LEMMA SendByteKeeps ==
  ASSUME IInv, IInv', DataInv, SendByte
  PROVE  DataInv'
<1>0. /\ pc = "sending" /\ irq = "none" /\ attached /\ pc' = "sending" /\ irq' = "data"
      /\ sent < Len(Frame(op)) /\ sent' = sent + 1 /\ data' = Frame(op)[sent + 1]
      /\ ended' = None /\ handled' = None
      /\ UNCHANGED <<op, got, ok, attached, twi, calls, broken>>
  BY DEF SendByte, Forget
<1>1. /\ sent \in Nat /\ Len(Frame(op)) \in Nat
      /\ \A i \in 1 .. Len(Frame(op)) : Frame(op)[i] \in Nat
  <2>1. op \in Transfers \cup {NoTransfer} /\ sent \in Nat
    BY DEF IInv, Typed
  <2> QED BY <2>1, FrameFacts, FramePositive
<1>2. DataTyped'
  <2>1. data' \in Nat
    BY <1>0, <1>1
  <2> QED BY <1>0, <2>1 DEF DataInv, DataTyped
<1>3. ~Over /\ ~Over' /\ Taken' = Taken
  BY <1>0, <1>1 DEF Over, Taken
<1>4. WriteBooks'
  <2>1. Known' => Known /\ Subject' = Subject
    BY <1>0, <1>3 DEF Known, Subject
  <2>2. ~Settled' /\ ~Settled
    BY <1>3 DEF Settled
  <2> QED BY <1>0, <2>1, <2>2, WritesKept DEF DataInv
<1>5. AddressBooks'
  BY <1>0, <1>3 DEF DataInv, AddressBooks
<1>6. DataBooks'
  <2>1. Addressed' => Addressed
    BY <1>0, <1>3 DEF Addressed
  <2>2. (attached' /\ Addressed')
           => Receiving(twi') /\ twi'.offset + twi'.bufPos = Taken' - AddrBytes
    BY <1>0, <1>3, <2>1 DEF DataInv, DataBooks
  <2>3. sent' > 0 /\ data' = Frame(op')[sent'] /\ sent' <= Len(Frame(op'))
    BY <1>0, <1>1
  <2> QED BY <1>0, <2>2, <2>3 DEF DataBooks
<1>7. EndBooks'
  BY <1>0, <1>3 DEF DataInv, EndBooks
<1>8. ReadBooks'
  BY <1>0 DEF DataInv, ReadBooks
<1>9. Delivered' /\ CommittedOnce' /\ ReadsTrue'
  BY HistoryForgotten DEF SendByte
<1> QED BY <1>2, <1>4, <1>5, <1>6, <1>7, <1>8, <1>9 DEF DataInv

LEMMA WriteDoneKeeps ==
  ASSUME IInv, IInv', DataInv, WriteDone
  PROVE  DataInv'
<1>0. /\ pc = "sending" /\ irq = "none" /\ attached /\ ~op.rwn /\ pc' = "exit" /\ irq' = "none"
      /\ sent = Len(Frame(op))
      /\ UNCHANGED <<op, sent, got, ok, data, attached, twi, calls, broken, ended, handled>>
  BY DEF WriteDone, AllSent, history
<1>1. sent \in Nat /\ sent >= AddrBytes
  <2>1. op \in Transfers \cup {NoTransfer} /\ sent \in Nat
    BY DEF IInv, Typed
  <2> QED BY <1>0, <2>1, FrameFacts, SizeAssumption
<1>2. DataTyped'
  BY <1>0 DEF DataInv, DataTyped
<1>3. ~Over /\ ~Over' /\ Taken' = Taken /\ Taken = sent
  BY <1>0 DEF Over, Taken
<1>4. WriteBooks'
  <2>1. Known' => Known /\ Subject' = Subject
    BY <1>0, <1>3 DEF Known, Subject
  <2>2. ~Settled' /\ ~Settled
    BY <1>3 DEF Settled
  <2> QED BY <1>0, <2>1, <2>2, WritesKept DEF DataInv
<1>5. AddressBooks'
  BY <1>0 DEF AddressBooks
<1>6. DataBooks'
  <2>1. Addressed
    BY <1>0, <1>1, <1>3 DEF Addressed
  <2> QED BY <1>0, <1>3, <2>1 DEF DataInv, DataBooks
<1>7. EndBooks'
  BY <1>0, <1>3 DEF DataInv, EndBooks
<1>8. ReadBooks'
  BY <1>0 DEF DataInv, ReadBooks
<1>9. Delivered' /\ CommittedOnce' /\ ReadsTrue'
  BY <1>0, HistoryKept
<1> QED BY <1>2, <1>4, <1>5, <1>6, <1>7, <1>8, <1>9 DEF DataInv

LEMMA RestartKeeps ==
  ASSUME IInv, IInv', DataInv, Restart
  PROVE  DataInv'
<1>0. /\ pc = "sending" /\ irq = "none" /\ attached /\ op.rwn
      /\ pc' = "restarted" /\ irq' = "start" /\ sent = Len(Frame(op))
      /\ UNCHANGED <<op, sent, got, ok, data, attached, twi, calls, broken, ended, handled>>
  BY DEF Restart, AllSent, history
<1>1. sent \in Nat /\ sent >= AddrBytes
  <2>1. op \in Transfers \cup {NoTransfer} /\ sent \in Nat
    BY DEF IInv, Typed
  <2> QED BY <1>0, <2>1, FrameFacts, SizeAssumption
<1>2. DataTyped'
  BY <1>0 DEF DataInv, DataTyped
<1>3. ~Over /\ ~Over' /\ Taken' = Taken /\ Taken = sent
  BY <1>0 DEF Over, Taken
<1>4. WriteBooks'
  <2>1. Known' => Known /\ Subject' = Subject
    BY <1>0, <1>3 DEF Known, Subject
  <2>2. ~Settled' /\ ~Settled
    BY <1>3 DEF Settled
  <2> QED BY <1>0, <2>1, <2>2, WritesKept DEF DataInv
<1>5. AddressBooks'
  BY <1>0 DEF AddressBooks
<1>6. DataBooks'
  <2>1. Addressed
    BY <1>0, <1>1, <1>3 DEF Addressed
  <2> QED BY <1>0, <1>3, <2>1 DEF DataInv, DataBooks
<1>7. EndBooks'
  BY <1>0, <1>3 DEF DataInv, EndBooks
<1>8. ReadBooks'
  BY <1>0 DEF DataInv, ReadBooks
<1>9. Delivered' /\ CommittedOnce' /\ ReadsTrue'
  BY <1>0, HistoryKept
<1> QED BY <1>2, <1>4, <1>5, <1>6, <1>7, <1>8, <1>9 DEF DataInv

LEMMA NotAckedKeeps ==
  ASSUME IInv, IInv', DataInv, NotAcked
  PROVE  DataInv'
<1>0. /\ pc \in {"sending", "restarted"} /\ irq = "none" /\ ~attached
      /\ pc' = "exit" /\ ok' = FALSE /\ ended' = None /\ handled' = None
      /\ UNCHANGED <<op, sent, got, irq, data, attached, twi, calls, broken>>
  BY DEF NotAcked, Forget, bus
<1>2. DataTyped'
  BY <1>0 DEF DataInv, DataTyped
<1>3. ~Over /\ ~Over'
  BY <1>0 DEF Over
<1>4. WriteBooks'
  <2>1. Known' => Known /\ Subject' = Subject
    BY <1>0, <1>3 DEF Known, Subject
  <2>2. ~Settled' /\ ~Settled
    BY <1>3 DEF Settled
  <2> QED BY <1>0, <2>1, <2>2, WritesKept DEF DataInv
<1>5. AddressBooks' /\ DataBooks'
  BY <1>0 DEF AddressBooks, DataBooks
<1>7. EndBooks'
  BY <1>0, <1>3 DEF EndBooks
<1>8. ReadBooks'
  BY <1>0 DEF ReadBooks
<1>9. Delivered' /\ CommittedOnce' /\ ReadsTrue'
  BY HistoryForgotten DEF NotAcked
<1> QED BY <1>2, <1>4, <1>5, <1>7, <1>8, <1>9 DEF DataInv

LEMMA RawFailsKeeps ==
  ASSUME IInv, IInv', DataInv, RawFails
  PROVE  DataInv'
<1>0. /\ pc \in {"sending", "restarted", "reading"} /\ irq = "none"
      /\ pc' = "exit" /\ ok' = FALSE /\ ended' = None /\ handled' = None
      /\ UNCHANGED <<op, sent, got, irq, data, attached, twi, calls, broken>>
  BY DEF RawFails, Forget, bus
<1>2. DataTyped'
  BY <1>0 DEF DataInv, DataTyped
<1>3. ~Over /\ ~Over'
  BY <1>0 DEF Over
<1>4. WriteBooks'
  <2>1. Known' => Known /\ Subject' = Subject
    BY <1>0, <1>3 DEF Known, Subject
  <2>2. ~Settled' /\ ~Settled
    BY <1>3 DEF Settled
  <2> QED BY <1>0, <2>1, <2>2, WritesKept DEF DataInv
<1>5. AddressBooks' /\ DataBooks'
  BY <1>0 DEF AddressBooks, DataBooks, Addressed
<1>7. EndBooks'
  BY <1>0, <1>3 DEF EndBooks
<1>8. ReadBooks'
  BY <1>0 DEF ReadBooks
<1>9. Delivered' /\ CommittedOnce' /\ ReadsTrue'
  BY HistoryForgotten DEF RawFails
<1> QED BY <1>2, <1>4, <1>5, <1>7, <1>8, <1>9 DEF DataInv

LEMMA ReadAckedKeeps ==
  ASSUME IInv, IInv', DataInv, ReadAcked
  PROVE  DataInv'
<1>0. /\ pc = "restarted" /\ irq = "none" /\ attached /\ pc' = "reading" /\ irq' = "data"
      /\ UNCHANGED <<op, sent, got, ok, data, attached, pien, twi, calls, broken, ended, handled>>
  BY DEF ReadAcked, history
<1>2. DataTyped'
  BY <1>0 DEF DataInv, DataTyped
<1>3. ~Over /\ ~Over'
  BY <1>0 DEF Over
<1>4. WriteBooks'
  <2>1. Known' => Known /\ Subject' = Subject
    BY <1>0, <1>3 DEF Known, Subject
  <2>2. ~Settled' /\ ~Settled
    BY <1>3 DEF Settled
  <2> QED BY <1>0, <2>1, <2>2, WritesKept DEF DataInv
<1>5. AddressBooks' /\ DataBooks'
  BY <1>0 DEF AddressBooks, DataBooks, Addressed
<1>7. EndBooks'
  BY <1>0, <1>3 DEF DataInv, EndBooks
<1>8. ReadBooks'
  <2>1. got = <<>> /\ op.rwn /\ Loaded(twi, op.addr) /\ twi.offset = 0 /\ twi.bufPos = 0
    BY <1>0 DEF DataInv, ReadBooks
  <2>2. Loaded(twi', op'.addr)
    BY <1>0, <2>1
  <2>3. Selected(twi', op'.addr)
    BY <2>2 DEF Loaded
  <2>4. twi'.offset + twi'.bufPos = Len(got') /\ got' = <<>>
    BY <1>0, <2>1, EmptySeq
  <2>5. ~pien'
    BY <1>0 DEF IInv, SameDirection
  <2>6. GotTrue(twi.currentEndpoint)'
    BY <2>4 DEF GotTrue
  <2> QED BY <1>0, <2>1, <2>2, <2>3, <2>4, <2>5, <2>6 DEF ReadBooks
<1>9. Delivered' /\ CommittedOnce' /\ ReadsTrue'
  BY <1>0, HistoryKept
<1> QED BY <1>2, <1>4, <1>5, <1>7, <1>8, <1>9 DEF DataInv

LEMMA BusErrorKeeps ==
  ASSUME IInv, IInv', DataInv, BusError
  PROVE  DataInv'
<1>0. /\ attached /\ irq = "none" /\ irq' = "error" /\ attached' = FALSE /\ broken' = TRUE
      /\ UNCHANGED <<pc, op, sent, got, ok, data, pien, twi, calls, ended, handled>>
      /\ pc # "idle"
  BY DEF BusError, master, DataInv, EndBooks
<1>2. DataTyped'
  BY <1>0 DEF DataInv, DataTyped
<1>3. ~Over /\ ~Over'
  BY <1>0 DEF Over
<1>4. WriteBooks'
  <2>1. Known' => Known /\ Subject' = Subject
    BY <1>0, <1>3 DEF Known, Subject
  <2>2. ~Settled' /\ ~Settled
    BY <1>3 DEF Settled
  <2> QED BY <1>0, <2>1, <2>2, WritesKept DEF DataInv
<1>5. AddressBooks' /\ DataBooks'
  BY <1>0 DEF DataInv, AddressBooks, DataBooks
<1>7. EndBooks'
  BY <1>0, <1>3 DEF DataInv, EndBooks
<1>8. ReadBooks'
  <2>1. GotTrue(twi.currentEndpoint) => GotTrue(twi.currentEndpoint)'
    BY <1>0 DEF GotTrue
  <2> QED BY <1>0, <2>1 DEF DataInv, ReadBooks
<1>9. Delivered' /\ CommittedOnce' /\ ReadsTrue'
  BY <1>0, HistoryKept
<1> QED BY <1>2, <1>4, <1>5, <1>7, <1>8, <1>9 DEF DataInv

LEMMA ReadByteKeeps ==
  ASSUME IInv, IInv', DataInv, ReadByte
  PROVE  DataInv'
<1> DEFINE byte == IF attached THEN data ELSE High
           e == twi.currentEndpoint
<1>0. /\ pc = "reading" /\ irq = "none" /\ got' = Append(got, byte)
      /\ pc' = IF Len(got') = op.n THEN "exit" ELSE pc
      /\ nack' = (IF attached THEN Len(got') = op.n ELSE nack)
      /\ irq' = IF attached THEN "data" ELSE "none"
      /\ UNCHANGED <<op, sent, ok, data, attached, pien, twi, calls, broken, ended, handled>>
  BY DEF ReadByte, history
<1>1. got \in Seq(Nat \cup {High}) /\ byte \in Nat \cup {High} /\ Len(got) \in Nat
  BY LenProperties DEF DataInv, DataTyped
<1>2. /\ got' \in Seq(Nat \cup {High}) /\ Len(got') = Len(got) + 1
      /\ (\A i \in 1 .. Len(got) : got'[i] = got[i]) /\ got'[Len(got) + 1] = byte
      /\ DOMAIN got' = 1 .. Len(got) + 1 /\ DOMAIN got = 1 .. Len(got)
  <2> HIDE DEF byte
  <2>1. /\ got' \in Seq(Nat \cup {High}) /\ Len(got') = Len(got) + 1
        /\ (\A i \in 1 .. Len(got) : got'[i] = got[i]) /\ got'[Len(got) + 1] = byte
    BY <1>0, <1>1, AppendProperties
  <2>2. DOMAIN got' = 1 .. Len(got') /\ DOMAIN got = 1 .. Len(got)
    BY <1>1, <2>1, LenProperties
  <2> QED BY <2>1, <2>2
<1>3. DataTyped'
  BY <1>0, <1>2 DEF DataInv, DataTyped
<1>4. ~Over /\ ~Over' /\ pc' \in {"reading", "exit"} /\ irq' # "start"
  BY <1>0 DEF Over
<1>5. WriteBooks'
  <2>1. Known' => Known /\ Subject' = Subject
    BY <1>0, <1>4 DEF Known, Subject
  <2>2. ~Settled' /\ ~Settled
    BY <1>4 DEF Settled
  <2> QED BY <1>0, <2>1, <2>2, WritesKept DEF DataInv
<1>6. op.rwn /\ ok
  BY <1>0 DEF DataInv, ReadBooks, EndBooks
<1>7. AddressBooks' /\ DataBooks'
  BY <1>0, <1>4, <1>6 DEF AddressBooks, DataBooks, Addressed
<1>8. EndBooks'
  BY <1>0, <1>4, <1>6 DEF DataInv, EndBooks
<1>9. Selected(twi, op.addr) /\ GotTrue(e) /\ ~pien
  BY <1>0, <1>6 DEF DataInv, ReadBooks
<1>10. e \in DOMAIN Endpoints /\ Readable(e) \in Nat
  BY <1>9, ReadableFacts DEF Selected
<1>11. \/ attached /\ Len(got) + 1 <= Readable(e) /\ byte = Endpoints[e].content[Len(got) + 1]
       \/ ~attached /\ byte = High /\ (broken \/ Len(got) + 1 > Readable(e))
  <2>1. CASE attached
    <3>1. /\ Loaded(twi, op.addr) /\ twi.offset + twi.bufPos = Len(got) + 1
          /\ twi.bufPos > 0 /\ data = twi.buffer[twi.bufPos]
      BY <1>0, <2>1 DEF DataInv, ReadBooks
    <3>2. /\ twi.bufPos <= twi.bufLen /\ twi.offset + twi.bufLen <= Readable(e)
          /\ \A j \in 1 .. twi.bufLen : twi.buffer[j] = Endpoints[e].content[twi.offset + j]
      BY <3>1 DEF Loaded
    <3>3. twi.bufPos \in Nat /\ twi.bufLen \in Nat /\ twi.offset \in Nat
      BY TwiFacts DEF DataInv, DataTyped
    <3>4. twi.bufPos \in 1 .. twi.bufLen
      BY <3>1, <3>2, <3>3
    <3>5. data = Endpoints[e].content[Len(got) + 1]
      BY <3>1, <3>2, <3>4
    <3>6. Len(got) + 1 <= Readable(e)
      BY <1>1, <1>10, <3>1, <3>2, <3>3
    <3> QED BY <2>1, <3>5, <3>6
  <2>2. CASE ~attached
    <3>1. broken \/ Len(got) >= Readable(e)
      BY <1>0, <2>2 DEF DataInv, ReadBooks
    <3> QED BY <1>1, <1>10, <2>2, <3>1
  <2> QED BY <2>1, <2>2
<1>12. GotTrue(e)'
  <2> HIDE DEF byte, e
  <2>1. e' = e /\ broken' = broken
    BY <1>0 DEF e
  <2>2. ASSUME NEW i \in 1 .. Len(got) + 1
        PROVE  \/ i <= Readable(e) /\ got'[i] = Endpoints[e].content[i]
               \/ (broken \/ i > Readable(e)) /\ got'[i] = High
    <3>1. CASE i \in 1 .. Len(got)
      BY <1>2, <1>9, <3>1 DEF GotTrue
    <3>2. CASE i = Len(got) + 1
      BY <1>2, <1>11, <3>2
    <3> QED BY <1>1, <3>1, <3>2
  <2> QED BY <1>2, <2>1, <2>2 DEF GotTrue
<1> HIDE DEF byte
<1>13. ReadBooks'
  <2>1. ASSUME attached', pc' = "reading", irq' = "data"
        PROVE  /\ Loaded(twi', op'.addr) /\ twi'.offset + twi'.bufPos = Len(got') /\ ~nack'
    <3>1. Loaded(twi, op.addr) /\ twi.offset + twi.bufPos = Len(got) + 1
      BY <1>0, <2>1 DEF DataInv, ReadBooks
    <3>2. ~nack'
      BY <1>0, <2>1
    <3> QED BY <1>0, <1>2, <3>1, <3>2
  <2>2. ASSUME attached', irq' = "none" PROVE FALSE
    BY <1>0, <2>2
  <2>3. ASSUME pc' = "reading", ~attached'
        PROVE  broken' \/ Len(got') >= Readable(twi'.currentEndpoint)
    <3>1. broken \/ Len(got) >= Readable(e)
      BY <1>0, <2>3 DEF DataInv, ReadBooks
    <3> QED BY <1>0, <1>1, <1>2, <1>10, <3>1
  <2>4. Selected(twi', op'.addr) /\ GotTrue(twi.currentEndpoint)' /\ ~pien'
    BY <1>0, <1>9, <1>12
  <2> QED BY <1>0, <1>4, <1>6, <2>1, <2>2, <2>3, <2>4 DEF ReadBooks
<1>14. Delivered' /\ CommittedOnce' /\ ReadsTrue'
  BY <1>0, HistoryKept
<1> QED BY <1>3, <1>5, <1>7, <1>8, <1>13, <1>14 DEF DataInv

LEMMA StopKeeps ==
  ASSUME IInv, IInv', DataInv, Stop
  PROVE  DataInv'
<1>0. /\ pc = "exit" /\ irq = "none" /\ pc' = "idle" /\ sent' = 0 /\ got' = <<>>
      /\ ok' = TRUE /\ broken' = FALSE /\ irq' = (IF pien THEN "stop" ELSE "none")
      /\ attached' = FALSE /\ handled' = None
      /\ ended' = [op |-> op, got |-> got, ok |-> ok, broken |-> broken, overtaken |-> FALSE]
      /\ UNCHANGED <<data, pien, twi, calls>>
  BY DEF Stop
<1>1. /\ ended' \in EndedType /\ ended' # None
      /\ ended'.op = op /\ ended'.got = got /\ ended'.ok = ok /\ ended'.broken = broken
      /\ ended'.overtaken = FALSE
  <2>1. op \in Transfers \cup {NoTransfer} /\ got \in Seq(Nat \cup {High})
        /\ ok \in BOOLEAN /\ broken \in BOOLEAN
    BY DEF IInv, Typed, DataInv, DataTyped
  <2>2. ended' \in EndedType
    BY <1>0, <2>1 DEF EndedType
  <2> QED BY <1>0, <2>2, NoneAssumption
<1>2. DataTyped'
  <2>1. got' \in Seq(Nat \cup {High})
    BY <1>0, EmptySeq
  <2> QED BY <1>0, <1>1, <2>1 DEF DataInv, DataTyped
<1>3. ~Over /\ Over' /\ Known /\ Known' /\ Subject' = Subject /\ ~Settled /\ ~Settled'
  BY <1>0, <1>1 DEF Over, Known, Subject, Settled
<1>4. WriteBooks'
  BY <1>0, <1>3, WritesKept DEF DataInv
<1>5. AddressBooks' /\ DataBooks'
  BY <1>0 DEF AddressBooks, DataBooks, Addressed
<1>6. ASSUME ~op.rwn, ok, ~broken PROVE Whole(op) /\ pien
  <2>1. attached /\ Addressed /\ Taken = sent
    BY <1>0, <1>6 DEF DataInv, EndBooks, Addressed, Taken
  <2>2. /\ Receiving(twi) /\ twi.offset + twi.bufPos = Taken - AddrBytes
        /\ sent = Len(Frame(op))
    BY <1>0, <1>6, <2>1 DEF DataInv, DataBooks
  <2>3. Len(Frame(op)) = AddrBytes + op.n /\ op.n \in Nat
    <3>1. op \in Transfers \cup {NoTransfer}
      BY DEF IInv, Typed
    <3> QED BY <1>6, <3>1, FrameFacts
  <2>4. twi.offset + twi.bufPos = op.n
    BY <2>1, <2>2, <2>3, SizeAssumption
  <2>5. twi.busy
    BY <2>2 DEF Receiving
  <2>6. pien
    BY <1>0, <1>6, <2>5 DEF IInv, LeavesTransfer
  <2> QED BY <2>2, <2>4, <2>6 DEF Whole
<1>7. ASSUME op.rwn, ok PROVE Selected(twi, op.addr) /\ GotTrue(twi.currentEndpoint) /\ ~pien
  BY <1>0, <1>7 DEF DataInv, ReadBooks
<1>8. EndBooks'
  <2>1. ASSUME ~op.rwn, ok, ~broken PROVE irq' = "stop"
    BY <1>0, <1>6, <2>1
  <2>2. (irq' = "stop" /\ op.rwn) => ~ok
    BY <1>0, <1>7
  <2>3. Whole(ended.op)' <=> Receiving(twi') /\ twi'.offset + twi'.bufPos = op.n
    BY <1>1 DEF Whole
  <2>4. ASSUME ~op.rwn, ok, ~broken PROVE Receiving(twi') /\ twi'.offset + twi'.bufPos = op.n
    BY <1>0, <1>6, <2>4 DEF Whole
  <2>5. (irq' = "none" /\ twi'.busy) => ~ok
    BY <1>0 DEF IInv, LeavesTransfer
  <2> QED BY <1>0, <1>1, <2>1, <2>2, <2>3, <2>4, <2>5 DEF EndBooks
<1>9. ReadBooks'
  BY <1>0 DEF ReadBooks
<1>10. Delivered' /\ CommittedOnce'
  BY <1>0 DEF Delivered, CommittedOnce
<1>11. ReadsTrue'
  <2> SUFFICES ASSUME op.rwn, ok
               PROVE  \E e \in DOMAIN Endpoints :
                        /\ Served(op.addr, e)
                        /\ \A i \in DOMAIN got :
                             \/ i <= Readable(e) /\ got[i] = Endpoints[e].content[i]
                             \/ (broken \/ i > Readable(e)) /\ got[i] = High
    BY <1>1 DEF ReadsTrue
  <2>1. Selected(twi, op.addr) /\ GotTrue(twi.currentEndpoint)
    BY <1>7
  <2> QED BY <2>1 DEF Selected, GotTrue
<1> QED BY <1>2, <1>4, <1>5, <1>8, <1>9, <1>10, <1>11 DEF DataInv

LEMMA ErrorKeeps ==
  ASSUME IInv, IInv', DataInv, twis_error_handler
  PROVE  DataInv'
<1>0. /\ irq = "error" /\ irq' = "none" /\ twi' = twis_end_transaction(twi)
      /\ ~attached /\ pc # "idle"
      /\ UNCHANGED <<pc, op, sent, got, ok, data, attached, pien, calls, broken, ended, handled>>
  BY DEF twis_error_handler, master, history, IInv, LeavesTransfer, DataInv, EndBooks
<1>1. /\ twi' \in TwiType /\ twi'.busy = FALSE /\ twi'.rwn = twi.rwn
      /\ twi'.currentEndpoint = twi.currentEndpoint /\ twi'.offset = twi.offset
  BY <1>0 DEF DataInv, DataTyped, TwiType, twis_end_transaction
<1>2. DataTyped'
  BY <1>0, <1>1 DEF DataInv, DataTyped
<1>3. ~Over /\ ~Over'
  BY <1>0 DEF Over
<1>4. WriteBooks'
  <2>1. ~Settled' /\ ~Settled /\ Subject = op /\ Subject' = op /\ Known
    BY <1>0, <1>3 DEF Settled, Subject, Known
  <2>2. ~Receiving(twi')
    BY <1>1 DEF Receiving
  <2>3. /\ \A k \in DOMAIN calls : calls[k].call = "write"
        /\ ~op.rwn => ~twi.rwn /\ Chain(calls, op, twi)
    BY <2>1 DEF DataInv, WriteBooks
  <2>4. Chain(calls, op, twi) => Chain(calls, op, twi')
    BY <1>1 DEF Chain
  <2>5. /\ \A k \in DOMAIN calls' : calls'[k].call = "write"
        /\ ~Subject'.rwn => ~twi'.rwn /\ Chain(calls', Subject', twi')
    BY <1>0, <1>1, <2>1, <2>3, <2>4
  <2> QED BY <2>1, <2>2, <2>5 DEF WriteBooks
<1>5. AddressBooks' /\ DataBooks'
  BY <1>0 DEF DataInv, AddressBooks, DataBooks
<1>6. EndBooks'
  BY <1>0, <1>3 DEF DataInv, EndBooks
<1>7. ReadBooks'
  <2>1. Selected(twi, op.addr) => Selected(twi', op'.addr)
    BY <1>0, <1>1 DEF Selected
  <2>2. GotTrue(twi.currentEndpoint) => GotTrue(twi.currentEndpoint)'
    BY <1>0, <1>1 DEF GotTrue
  <2> QED BY <1>0, <1>1, <2>1, <2>2 DEF DataInv, ReadBooks
<1>8. Delivered' /\ CommittedOnce' /\ ReadsTrue'
  BY <1>0, HistoryKept
<1> QED BY <1>2, <1>4, <1>5, <1>6, <1>7, <1>8 DEF DataInv

-----------------------------------------------------------------------------
(* The interrupt handlers of the slave.                                    *)

\* When the slave is done with a write, the calls it has made add up to the
\* data of the transfer.
LEMMA PiecesDeliver ==
  ASSUME NEW cs \in Seq(CallType), Pieces(cs, ended.op), NEW tail,
         tail = <<>> \/ \E c \in CallType : c.call = "commit" /\ tail = <<c>>,
         handled' = cs \o tail, ended' = ended, ended.op.n \in Nat,
         (ended.ok /\ ~ended.broken) =>
           \/ cs # <<>> /\ Upto(cs) = ended.op.n
           \/ \E e \in DOMAIN Endpoints : Served(ended.op.addr, e) /\ ~Endpoints[e].writable
  PROVE  /\ Delivered'
         /\ Writes(handled') = 1 .. Len(cs)
         /\ tail = <<>> => Commits(handled') = {}
         /\ tail # <<>> =>
              Commits(handled') = {Len(handled')} /\ handled'[Len(handled')] = tail[1]
<1> DEFINE n == Len(cs)
<1>1. n \in Nat /\ DOMAIN cs = 1 .. n
  BY LenProperties
<1>2. /\ handled' \in Seq(CallType) /\ DOMAIN handled' = 1 .. Len(handled')
      /\ \A k \in 1 .. n : handled'[k] = cs[k]
      /\ tail = <<>> => Len(handled') = n
      /\ tail # <<>> => Len(handled') = n + 1 /\ handled'[n + 1] = tail[1]
                        /\ handled'[n + 1].call = "commit"
  <2>1. CASE tail = <<>>
    <3>1. handled' = cs
      BY <2>1, ConcatEmptySeq
    <3> QED BY <1>1, <2>1, <3>1
  <2>2. CASE tail # <<>>
    <3>1. PICK c \in CallType : c.call = "commit" /\ tail = <<c>>
      BY <2>2
    <3>2. handled' = Append(cs, c) /\ tail[1] = c
      BY <3>1, AppendIsConcat
    <3>3. /\ handled' \in Seq(CallType) /\ Len(handled') = n + 1
          /\ (\A k \in 1 .. n : handled'[k] = cs[k]) /\ handled'[n + 1] = c
      BY <3>2, AppendProperties
    <3>4. DOMAIN handled' = 1 .. Len(handled')
      BY <3>3, LenProperties
    <3> QED BY <2>2, <3>1, <3>2, <3>3, <3>4
  <2> QED BY <2>1, <2>2
<1>3. \A k \in 1 .. n :
        /\ cs[k].call = "write"
        /\ Served(ended.op.addr, cs[k].endpoint)
        /\ cs[k].offset = IF k = 1 THEN 0 ELSE End(cs[k - 1])
        /\ cs[k].data = [i \in 1 .. Len(cs[k].data) |-> cs[k].offset + i]
        /\ End(cs[k]) <= ended.op.n
  BY <1>1 DEF Pieces
<1> HIDE DEF n
<1>4. \A k \in DOMAIN handled' : k \in 1 .. n \/ (tail # <<>> /\ k = n + 1)
  <2> TAKE k \in DOMAIN handled'
  <2>1. CASE tail = <<>>
    BY <1>1, <1>2, <2>1
  <2>2. CASE tail # <<>>
    BY <1>1, <1>2, <2>2
  <2> QED BY <2>1, <2>2
<1>5. 1 .. n \subseteq DOMAIN handled' /\ (tail # <<>> => n + 1 \in DOMAIN handled')
  BY <1>1, <1>2
<1>kinds. /\ \A k \in 1 .. n : handled'[k].call = "write"
          /\ tail # <<>> => handled'[n + 1].call = "commit" /\ n + 1 \notin 1 .. n
  BY <1>1, <1>2, <1>3
<1> DEFINE h == handled'
<1>6. Writes(h) = 1 .. n
  <2> HIDE DEF h
  <2>1. \A k \in DOMAIN h : h[k].call = "write" <=> k \in 1 .. n
    BY <1>4, <1>kinds DEF h
  <2> QED BY <1>5, <2>1 DEF Writes, h
<1>7. /\ tail = <<>> => Commits(h) = {}
      /\ tail # <<>> => Commits(h) = {n + 1}
  <2> HIDE DEF h
  <2>1. \A k \in DOMAIN h : h[k].call = "commit" <=> tail # <<>> /\ k = n + 1
    BY <1>4, <1>kinds DEF h
  <2>2. tail # <<>> => n + 1 \in DOMAIN h
    BY <1>5 DEF h
  <2> QED BY <2>1, <2>2 DEF Commits
<1>8. ASSUME NEW k \in 1 .. n
      PROVE  /\ Served(ended.op.addr, handled'[k].endpoint)
             /\ k > 1 => k - 1 \in 1 .. n
             /\ handled'[k].offset = IF k = 1 THEN 0 ELSE End(handled'[k - 1])
             /\ handled'[k].data
                  = [i \in 1 .. Len(handled'[k].data) |-> handled'[k].offset + i]
             /\ End(handled'[k]) <= ended.op.n
  <2>1. k # 1 => k - 1 \in 1 .. n
    BY <1>1
  <2>2. handled'[k] = cs[k] /\ (k # 1 => handled'[k - 1] = cs[k - 1])
    BY <1>2, <2>1
  <2> QED BY <1>1, <1>3, <2>1, <2>2
<1>9. (ended.ok /\ ~ended.broken) =>
        \/ \E k \in 1 .. n : End(handled'[k]) = ended.op.n
        \/ \E e \in DOMAIN Endpoints : Served(ended.op.addr, e) /\ ~Endpoints[e].writable
  <2> SUFFICES ASSUME cs # <<>>, Upto(cs) = ended.op.n
               PROVE  \E k \in 1 .. n : End(handled'[k]) = ended.op.n
    OBVIOUS
  <2>1. n \in 1 .. n
    BY <1>1, EmptySeq DEF n
  <2>2. End(handled'[n]) = ended.op.n
    BY <1>2, <2>1 DEF Upto, n
  <2> QED BY <2>1, <2>2
<1>10. Delivered'
  BY <1>6, <1>8, <1>9, Zenon DEF Delivered
<1> QED BY <1>2, <1>6, <1>7, <1>10 DEF n

\* The only commit among the calls is one that comes after them.
LEMMA CommitsLast ==
  ASSUME NEW cs \in Seq(CallType), \A k \in DOMAIN cs : cs[k].call = "write", NEW tail,
         tail = <<>> \/ \E c \in CallType : c.call = "commit" /\ tail = <<c>>
  PROVE  Commits(cs \o tail) \subseteq {Len(cs \o tail)}
<1>1. CASE tail = <<>>
  <2>1. cs \o tail = cs
    BY <1>1, ConcatEmptySeq
  <2>2. Commits(cs) = {}
    BY DEF Commits
  <2> QED BY <2>1, <2>2
<1>2. CASE tail # <<>>
  <2> DEFINE h == cs \o tail
             n == Len(cs)
  <2>1. PICK c \in CallType : c.call = "commit" /\ tail = <<c>>
    BY <1>2
  <2>2. h = Append(cs, c)
    BY <2>1, AppendIsConcat
  <2> HIDE DEF h
  <2>3. /\ n \in Nat /\ DOMAIN cs = 1 .. n /\ h \in Seq(CallType)
        /\ Len(h) = n + 1 /\ DOMAIN h = 1 .. n + 1
        /\ \A k \in 1 .. n : h[k] = cs[k]
    BY <2>2, AppendProperties, LenProperties
  <2> HIDE DEF n
  <2>4. ASSUME NEW k \in DOMAIN h, h[k].call = "commit" PROVE k = Len(h)
    <3>1. k \in 1 .. n \/ k = n + 1
      BY <2>3
    <3>2. k \in 1 .. n => h[k].call = "write"
      BY <2>3
    <3> QED BY <2>3, <2>4, <3>1, <3>2
  <2>5. Commits(h) \subseteq {Len(h)}
    BY <2>4 DEF Commits
  <2> QED BY <2>5 DEF h
<1> QED BY <1>1, <1>2

\* Between a transfer and the handling of its stop, or of the start that has
\* overtaken it.
LEMMA UnsettledFacts ==
  ASSUME IInv, DataInv, Over, ended # None, handled = None
  PROVE  LET all == calls \o Flushed(twi)
         IN  /\ all \in Seq(CallType) /\ \A k \in DOMAIN all : all[k].call = "write"
             /\ ~ended.op.rwn =>
                  /\ Pieces(all, ended.op) /\ ~twi.rwn
                  /\ (ended.ok /\ ~ended.broken) =>
                       /\ Selected(twi, ended.op.addr)
                       /\ \/ all # <<>> /\ Upto(all) = ended.op.n
                          \/ ~Endpoints[twi.currentEndpoint].writable
<1> DEFINE all == calls \o Flushed(twi)
<1>1. twi \in TwiType /\ calls \in Seq(CallType)
  BY DEF DataInv, DataTyped
<1>2. Subject = ended.op /\ Known /\ ~Settled
  BY DEF Subject, Known, Settled
<1>3. /\ Receiving(twi) => Buffered(twi, ended.op)
      /\ \A k \in DOMAIN calls : calls[k].call = "write"
      /\ ~ended.op.rwn => ~twi.rwn /\ Chain(calls, ended.op, twi)
  BY <1>2 DEF DataInv, WriteBooks
<1>4. /\ all \in Seq(CallType)
      /\ \A k \in DOMAIN all : all[k].call = "write"
      /\ Chain(calls, ended.op, twi) =>
           /\ Pieces(all, ended.op)
           /\ (Receiving(twi) /\ Endpoints[twi.currentEndpoint].writable)
                => all # <<>> /\ Upto(all) = twi.offset + twi.bufPos
  BY <1>1, <1>3, FlushExtends
<1> HIDE DEF all
<1>5. ASSUME ~ended.op.rwn, ended.ok, ~ended.broken
      PROVE  /\ Selected(twi, ended.op.addr)
             /\ \/ all # <<>> /\ Upto(all) = ended.op.n
                \/ ~Endpoints[twi.currentEndpoint].writable
  <2>1. Receiving(twi) /\ twi.offset + twi.bufPos = ended.op.n
    BY <1>5 DEF DataInv, EndBooks, Whole
  <2>2. Selected(twi, ended.op.addr)
    BY <1>3, <2>1 DEF Buffered
  <2> QED BY <1>3, <1>4, <1>5, <2>1, <2>2
<1> QED BY <1>3, <1>4, <1>5 DEF all

\* An address match for a write: a transfer begins.
LEMMA StartWriteKeeps ==
  ASSUME IInv, IInv', DataInv, twis_start_handler, ~dir
  PROVE  DataInv'
<1> DEFINE r == twis_start_transaction(twis_end_transaction(twi), dir, dir)
           all == calls \o Flushed(twi)
<1>0. /\ irq = "start" /\ irq' = "none" /\ Answer(r) /\ calls' = <<>>
      /\ handled' = (IF ended = None THEN handled ELSE all)
      /\ UNCHANGED <<pc, op, sent, got, ok, data, broken, ended>>
  BY DEF twis_start_handler, master
<1>1. /\ dir = FALSE /\ pc = "sending" /\ sent = 0 /\ op \in Transfers \cup {NoTransfer}
  BY <1>0 DEF IInv, Typed, SameDirection, StopsEnabled
<1>2. /\ r.error = FALSE /\ r.twi \in TwiType
      /\ r.twi.busy /\ ~r.twi.rwn /\ r.twi.receivingAddr
      /\ r.twi.currentEndpoint = None /\ r.twi.addr = 0 /\ r.twi.offset = 0
      /\ r.twi.bufLen = BufferSize /\ r.twi.bufPos = 0
  <2>1. twi \in TwiType
    BY DEF DataInv, DataTyped
  <2> QED BY <1>1, <2>1, StartsWrite
<1> HIDE DEF r
<1>3. twi' = r.twi /\ attached' = TRUE
  BY <1>0, <1>2 DEF Answer
<1>4. Over /\ ~Over' /\ Subject' = op /\ ~Settled' /\ Taken' = 0
  BY <1>0, <1>1 DEF Over, Subject, Settled, Taken
<1>5. ASSUME ended = None
      PROVE  DataTyped' /\ Delivered' /\ CommittedOnce' /\ ReadsTrue'
  <2>1. DataTyped'
    BY <1>0, <1>2, <1>3, <1>5, EmptySeq DEF DataInv, DataTyped
  <2>2. Delivered' /\ CommittedOnce' /\ ReadsTrue'
    BY <1>0, <1>5, HistoryKept
  <2> QED BY <2>1, <2>2
<1>6. ASSUME ended # None /\ handled # None
      PROVE  DataTyped' /\ Delivered' /\ CommittedOnce' /\ ReadsTrue'
  <2>1. calls = handled /\ ~twi.busy /\ calls \in Seq(CallType)
    BY <1>4, <1>6 DEF Settled, DataInv, DataTyped, WriteBooks
  <2>2. all = calls
    BY <2>1, ConcatEmptySeq DEF Flushed
  <2>3. handled' = handled
    BY <1>0, <1>6, <2>1, <2>2
  <2>4. DataTyped'
    BY <1>0, <1>2, <1>3, <2>3, EmptySeq DEF DataInv, DataTyped
  <2>5. Delivered' /\ CommittedOnce' /\ ReadsTrue'
    BY <1>0, <2>3, HistoryKept
  <2> QED BY <2>4, <2>5
<1>7. ASSUME ended # None /\ handled = None
      PROVE  DataTyped' /\ Delivered' /\ CommittedOnce' /\ ReadsTrue'
  <2>1. /\ all \in Seq(CallType) /\ \A k \in DOMAIN all : all[k].call = "write"
        /\ ~ended.op.rwn =>
             /\ Pieces(all, ended.op) /\ ~twi.rwn
             /\ (ended.ok /\ ~ended.broken) =>
                  /\ Selected(twi, ended.op.addr)
                  /\ \/ all # <<>> /\ Upto(all) = ended.op.n
                     \/ ~Endpoints[twi.currentEndpoint].writable
    BY <1>4, <1>7, UnsettledFacts
  <2> HIDE DEF all
  <2>2. handled' = all /\ all = all \o <<>> /\ ended' = ended
    BY <1>0, <1>7, <2>1, ConcatEmptySeq
  <2>3. /\ ended.op.n \in Nat /\ ended.op.rwn \in BOOLEAN
        /\ ended.ok \in BOOLEAN /\ ended.broken \in BOOLEAN
    BY <1>7, EndedFacts DEF DataInv
  <2>4. DataTyped'
    BY <1>0, <1>2, <1>3, <2>1, <2>2, EmptySeq DEF DataInv, DataTyped
  <2>5. Delivered'
    <3>1. CASE ended.op.rwn
      BY <2>2, <3>1 DEF Delivered
    <3>2. CASE ~ended.op.rwn
      <4>1. (ended.ok /\ ~ended.broken) =>
              \/ all # <<>> /\ Upto(all) = ended.op.n
              \/ \E e \in DOMAIN Endpoints : Served(ended.op.addr, e) /\ ~Endpoints[e].writable
        BY <2>1, <3>2 DEF Selected
      <4>2. handled' = all \o <<>>
        BY <2>2
      <4> QED BY <2>1, <2>2, <2>3, <3>2, <4>1, <4>2, PiecesDeliver
    <3> QED BY <3>1, <3>2
  <2>6. CommittedOnce'
    <3>1. Commits(handled') = {}
      BY <2>1, <2>2 DEF Commits
    <3>2. ASSUME ~ended.op.rwn, ended.ok, ~ended.broken
          PROVE  /\ twi.currentEndpoint \in DOMAIN Endpoints
                 /\ Served(ended.op.addr, twi.currentEndpoint) /\ ended.overtaken
      <4>1. ended.overtaken
        BY <1>0, <1>4, <1>7, <3>2 DEF DataInv, EndBooks
      <4> QED BY <2>1, <3>2, <4>1 DEF Selected
    <3> QED BY <2>2, <3>1, <3>2 DEF CommittedOnce
  <2>7. ReadsTrue'
    BY <2>2 DEF DataInv, ReadsTrue
  <2> QED BY <2>4, <2>5, <2>6, <2>7
<1> HIDE DEF all
<1>8. WriteBooks'
  <2>1. ~Receiving(twi')
    BY <1>2, <1>3 DEF Receiving
  <2>2. DOMAIN calls' = {} /\ calls' = <<>>
    BY <1>0
  <2>3. Chain(calls', Subject', twi')
    BY <1>2, <1>3, <2>2 DEF Chain, Pieces
  <2> QED BY <1>2, <1>3, <1>4, <2>1, <2>2, <2>3 DEF WriteBooks
<1>9. AddressBooks'
  <2>1. Shifted(op.addr)[AddrBytes - 0] = 0
    BY <1>1, AddressFits, SizeAssumption
  <2> QED BY <1>0, <1>2, <1>3, <1>4, <2>1 DEF AddressBooks
<1>10. DataBooks'
  <2>1. ~Addressed'
    BY <1>0, <1>1, <1>4, SizeAssumption DEF Addressed
  <2>2. Len(Frame(op)) \in Nat
    BY <1>1, FramePositive
  <2> QED BY <1>0, <1>1, <2>1, <2>2 DEF DataBooks
<1>11. EndBooks'
  BY <1>0, <1>1, <1>4 DEF DataInv, EndBooks
<1>12. ReadBooks'
  BY <1>0, <1>1 DEF DataInv, ReadBooks
<1> QED BY <1>5, <1>6, <1>7, <1>8, <1>9, <1>10, <1>11, <1>12 DEF DataInv

\* An address match for a read, after the register address.
LEMMA StartReadKeeps ==
  ASSUME IInv, IInv', DataInv, twis_start_handler, dir
  PROVE  DataInv'
<1> DEFINE r == twis_start_transaction(twis_end_transaction(twi), dir, dir)
           all == calls \o Flushed(twi)
           e == twi.currentEndpoint
<1>0. /\ irq = "start" /\ irq' = "none" /\ Answer(r) /\ calls' = all
      /\ UNCHANGED <<pc, op, sent, got, ok, data, broken, ended, handled>>
  BY DEF twis_start_handler, master
<1>1. /\ dir = TRUE /\ pc = "restarted" /\ op \in Transfers \cup {NoTransfer}
  BY <1>0 DEF IInv, Typed, SameDirection
<1>2. op.rwn /\ attached /\ got = <<>> /\ ok /\ sent = Len(Frame(op))
  BY <1>0, <1>1 DEF DataInv, ReadBooks, EndBooks, DataBooks
<1>3. ~Over /\ ~Over' /\ Subject = op /\ Subject' = op /\ ~Settled /\ ~Settled' /\ Known
  BY <1>0, <1>1 DEF Over, Subject, Settled, Known
<1>4. /\ Receiving(twi) /\ Buffered(twi, op) /\ twi.offset + twi.bufPos = 0
      /\ twi \in TwiType /\ calls \in Seq(CallType)
      /\ \A k \in DOMAIN calls : calls[k].call = "write"
  <2>1. Addressed /\ Taken = sent
    BY <1>0, <1>1 DEF Addressed, Taken
  <2>2. Receiving(twi) /\ twi.offset + twi.bufPos = Taken - AddrBytes
    BY <1>2, <2>1 DEF DataInv, DataBooks
  <2>3. Len(Frame(op)) = AddrBytes
    BY <1>1, <1>2, FrameFacts, SizeAssumption
  <2>4. twi.offset + twi.bufPos = 0
    BY <1>2, <2>1, <2>2, <2>3, SizeAssumption
  <2>5. Buffered(twi, op) /\ \A k \in DOMAIN calls : calls[k].call = "write"
    BY <1>3, <2>2 DEF DataInv, WriteBooks
  <2> QED BY <2>2, <2>4, <2>5 DEF DataInv, DataTyped
<1>5. Selected(twi, op.addr) /\ ~twi.receivingAddr
  BY <1>4 DEF Buffered, Receiving
<1>6. /\ r.error \in BOOLEAN /\ r.twi \in TwiType
      /\ r.twi.currentEndpoint = e /\ r.twi.rwn
      /\ r.twi.offset = 0 /\ r.twi.bufPos = 0
      /\ ~r.error => Loaded(r.twi, op.addr)
  <2>1. (twi.offset + twi.bufPos) % BufferSize = 0
    BY <1>4, SizeAssumption
  <2>2. /\ r.error \in BOOLEAN /\ r.twi \in TwiType
        /\ r.twi.currentEndpoint = e /\ r.twi.rwn
        /\ r.twi.offset = twi.offset + twi.bufPos /\ r.twi.bufPos = 0
        /\ ~r.error => Loaded(r.twi, op.addr)
    BY <1>1, <1>4, <1>5, <2>1, StartsRead
  <2> HIDE DEF r
  <2> QED BY <1>4, <2>2
<1>7. all \in Seq(CallType) /\ \A k \in DOMAIN all : all[k].call = "write"
  BY <1>4, FlushExtends
<1> HIDE DEF r, all
<1>8. /\ twi' \in TwiType /\ twi'.rwn /\ attached' = ~r.error
      /\ twi'.offset = 0 /\ twi'.bufPos = 0
      /\ attached' => Loaded(twi', op.addr)
  <2>1. CASE r.error
    <3>1. twi' = twis_end_transaction(r.twi) /\ attached' = FALSE
      BY <1>0, <2>1 DEF Answer
    <3>2. /\ twis_end_transaction(r.twi) \in TwiType
          /\ twis_end_transaction(r.twi).rwn = r.twi.rwn
          /\ twis_end_transaction(r.twi).offset = r.twi.offset
          /\ twis_end_transaction(r.twi).bufPos = r.twi.bufPos
      BY <1>6 DEF TwiType, twis_end_transaction
    <3> QED BY <1>6, <2>1, <3>1, <3>2
  <2>2. CASE ~r.error
    BY <1>0, <1>6, <2>2 DEF Answer
  <2> QED BY <2>1, <2>2
<1>9. DataTyped'
  BY <1>0, <1>7, <1>8 DEF DataInv, DataTyped
<1>10. WriteBooks'
  <2>1. ~Receiving(twi')
    BY <1>8 DEF Receiving
  <2> QED BY <1>0, <1>2, <1>3, <1>7, <2>1 DEF WriteBooks
<1>11. AddressBooks' /\ DataBooks'
  BY <1>0, <1>1, <1>2 DEF AddressBooks, DataBooks, Addressed
<1>12. EndBooks'
  BY <1>0, <1>1, <1>3 DEF DataInv, EndBooks
<1>13. ReadBooks'
  BY <1>0, <1>1, <1>2, <1>8 DEF ReadBooks
<1>14. Delivered' /\ CommittedOnce' /\ ReadsTrue'
  BY <1>0, HistoryKept
<1> QED BY <1>9, <1>10, <1>11, <1>12, <1>13, <1>14 DEF DataInv

\* The stop of a transfer.
LEMMA StopHandlerKeeps ==
  ASSUME IInv, IInv', DataInv, twis_stop_handler
  PROVE  DataInv'
<1> DEFINE e == twi.currentEndpoint
           all == calls \o Flushed(twi)
           commit == IF ~twi.rwn /\ e # None /\ Endpoints[e].commits
                     THEN <<[call |-> "commit", endpoint |-> e]>> ELSE <<>>
<1>0. /\ irq = "stop" /\ irq' = "none" /\ calls' = all \o commit /\ handled' = calls'
      /\ twi' = twis_end_transaction(twi)
      /\ UNCHANGED <<pc, op, sent, got, ok, data, attached, broken, ended>>
  BY DEF twis_stop_handler, master
<1>1. /\ pc = "idle" /\ Over /\ Over' /\ ended # None /\ handled = None /\ ended' = ended
      /\ ~ended.overtaken
  BY <1>0 DEF IInv, StopsEnabled, Over, DataInv, EndBooks
<1>2. /\ all \in Seq(CallType) /\ \A k \in DOMAIN all : all[k].call = "write"
      /\ ~ended.op.rwn =>
           /\ Pieces(all, ended.op) /\ ~twi.rwn
           /\ (ended.ok /\ ~ended.broken) =>
                /\ Selected(twi, ended.op.addr)
                /\ \/ all # <<>> /\ Upto(all) = ended.op.n
                   \/ ~Endpoints[twi.currentEndpoint].writable
  BY <1>1, UnsettledFacts
<1>3. /\ ended.op.n \in Nat /\ ended.op.rwn \in BOOLEAN
      /\ ended.ok \in BOOLEAN /\ ended.broken \in BOOLEAN /\ twi \in TwiType
      /\ e \in DOMAIN Endpoints \cup {None}
  <2>1. twi \in TwiType
    BY DEF DataInv, DataTyped
  <2> QED BY <1>1, <2>1, EndedFacts, TwiFacts DEF DataInv
<1>4. commit = <<>> \/ \E c \in CallType : c.call = "commit" /\ commit = <<c>>
  <2>1. CASE ~twi.rwn /\ e # None /\ Endpoints[e].commits
    <3> DEFINE c == [call |-> "commit", endpoint |-> e]
    <3>1. c \in CallType /\ c.call = "commit"
      BY <1>3, <2>1 DEF CallType
    <3>2. commit = <<c>>
      BY <2>1
    <3> HIDE DEF c, commit
    <3> QED BY <3>1, <3>2
  <2>2. CASE ~(~twi.rwn /\ e # None /\ Endpoints[e].commits)
    BY <2>2
  <2> QED BY <2>1, <2>2
<1>5. (e # None /\ ~twi.rwn /\ Endpoints[e].commits) =>
        commit # <<>> /\ commit[1].endpoint = e
  OBVIOUS
<1>6. calls' \in Seq(CallType) /\ calls' # None
  <2>1. commit \in Seq(CallType)
    BY <1>4, EmptySeq
  <2> HIDE DEF all, commit
  <2>2. all \o commit \in Seq(CallType)
    BY <1>2, <2>1, ConcatProperties
  <2> QED BY <1>0, <2>2, NoneAssumption
<1>7. twi' \in TwiType /\ twi'.busy = FALSE
  BY <1>0, <1>3 DEF TwiType, twis_end_transaction
<1> HIDE DEF all, commit
<1>8. ended.op.rwn => ~ended.ok
  BY <1>0, <1>1 DEF DataInv, EndBooks
<1>9. ASSUME ~ended.op.rwn
      PROVE  /\ Delivered'
             /\ commit # <<>> =>
                  Commits(handled') = {Len(handled')} /\ handled'[Len(handled')] = commit[1]
  <2>1. (ended.ok /\ ~ended.broken) =>
          \/ all # <<>> /\ Upto(all) = ended.op.n
          \/ \E i \in DOMAIN Endpoints : Served(ended.op.addr, i) /\ ~Endpoints[i].writable
    BY <1>2, <1>9 DEF Selected
  <2>2. handled' = all \o commit /\ Pieces(all, ended.op)
    BY <1>0, <1>2, <1>9
  <2> QED BY <1>1, <1>2, <1>3, <1>4, <2>1, <2>2, PiecesDeliver
<1>10. Delivered'
  BY <1>1, <1>9 DEF Delivered
<1>11. CommittedOnce'
  <2>0. Commits(handled') \subseteq {Len(handled')}
    BY <1>0, <1>2, <1>4, CommitsLast
  <2> SUFFICES ASSUME ended.ok, ~ended.broken
               PROVE  \E i \in DOMAIN Endpoints :
                        /\ Served(ended.op.addr, i)
                        /\ Endpoints[i].commits =>
                             Commits(handled') = {Len(handled')} /\ Last(handled').endpoint = i
    BY <1>1, <1>8, <2>0 DEF CommittedOnce
  <2>1. e \in DOMAIN Endpoints /\ Served(ended.op.addr, e) /\ ~twi.rwn
    BY <1>2, <1>3, <1>8 DEF Selected
  <2>2. e # None
    BY <2>1, EndpointFacts, NoneAssumption
  <2>3. Endpoints[e].commits =>
          Commits(handled') = {Len(handled')} /\ handled'[Len(handled')].endpoint = e
    BY <1>5, <1>8, <1>9, <2>1, <2>2
  <2> QED BY <2>1, <2>3 DEF Last
<1>12. ReadsTrue'
  BY <1>1 DEF DataInv, ReadsTrue
<1>13. DataTyped'
  BY <1>0, <1>6, <1>7 DEF DataInv, DataTyped
<1>14. WriteBooks'
  <2>1. ~Receiving(twi') /\ Settled'
    BY <1>0, <1>1, <1>6, <1>7 DEF Receiving, Settled
  <2> QED BY <1>0, <1>7, <2>1 DEF WriteBooks
<1>15. AddressBooks' /\ DataBooks'
  BY <1>0, <1>1 DEF AddressBooks, DataBooks, Addressed
<1>16. EndBooks'
  BY <1>0, <1>1, <1>6, <1>7 DEF DataInv, EndBooks
<1>17. ReadBooks'
  BY <1>0, <1>1 DEF DataInv, ReadBooks
<1> QED BY <1>10, <1>11, <1>12, <1>13, <1>14, <1>15, <1>16, <1>17 DEF DataInv

\* What the bytes of a write find: the slave takes part, and the byte is the
\* next one of the frame.
LEMMA ByteArrives ==
  ASSUME IInv, DataInv, irq = "data", ~dir
  PROVE  /\ pc = "sending" /\ attached /\ got = <<>> /\ ok
         /\ op \in Transfers \cup {NoTransfer}
         /\ sent \in Nat \ {0} /\ sent <= Len(Frame(op)) /\ data = Frame(op)[sent]
         /\ Taken = sent - 1
         /\ ~Over /\ Subject = op /\ Known /\ ~Settled
<1>1. /\ pc = "sending" /\ attached /\ op \in Transfers \cup {NoTransfer} /\ sent \in Nat
  BY DEF IInv, Typed, SameDirection, LeavesTransfer
<1>2. sent > 0 /\ data = Frame(op)[sent] /\ sent <= Len(Frame(op)) /\ got = <<>> /\ ok
  BY <1>1 DEF DataInv, DataBooks, ReadBooks, EndBooks
<1> QED BY <1>1, <1>2 DEF Taken, Over, Subject, Known, Settled

\* A byte of the register address.
LEMMA AddressByteKeeps ==
  ASSUME IInv, IInv', DataInv, twis_write_handler, AddressByte
  PROVE  DataInv'
<1> DEFINE addr == twi.addr * ByteBase + data
           e == twi_select_endpoint(addr)
           partial == [twi EXCEPT !.addr = addr, !.bufPos = @ + 1]
           whole == [partial EXCEPT !.bufPos = 0, !.receivingAddr = FALSE]
           selected == [whole EXCEPT !.currentEndpoint = e]
           r == IF AddressComplete(partial.bufPos)
                THEN [twi |-> selected, error |-> e = None]
                ELSE [twi |-> partial, error |-> FALSE]
<1>0. /\ irq = "data" /\ ~dir /\ twi.receivingAddr /\ irq' = "none" /\ Answer(r)
      /\ UNCHANGED <<pc, op, sent, got, ok, data, calls, broken, ended, handled>>
  BY DEF AddressByte, twis_write_handler, master
<1>1. /\ pc = "sending" /\ attached /\ got = <<>> /\ ok /\ op \in Transfers \cup {NoTransfer}
      /\ sent \in Nat \ {0} /\ sent <= Len(Frame(op)) /\ data = Frame(op)[sent]
      /\ Taken = sent - 1 /\ ~Over /\ Subject = op /\ Known /\ ~Settled
  BY <1>0, ByteArrives
<1>2. Taken < AddrBytes
  <2> SUFFICES ASSUME Taken >= AddrBytes PROVE FALSE
    BY <1>1, SizeAssumption
  <2>1. Addressed
    BY <1>0, <1>1 DEF Addressed
  <2> QED BY <1>0, <1>1, <2>1 DEF DataInv, DataBooks, Receiving
<1>3. /\ twi.busy /\ ~twi.rwn /\ twi.receivingAddr /\ twi.currentEndpoint = None
      /\ twi.bufPos = sent - 1 /\ twi.offset = 0 /\ twi.bufLen = BufferSize
      /\ twi.addr = Shifted(op.addr)[AddrBytes - (sent - 1)] /\ twi \in TwiType
  BY <1>0, <1>1, <1>2 DEF DataInv, DataTyped, AddressBooks
<1>4. addr = Shifted(op.addr)[AddrBytes - sent] /\ addr \in Nat
  <2> DEFINE i == AddrBytes - sent
             a == Shifted(op.addr)
  <2>1. /\ i \in 0 .. AddrBytes /\ i + 1 \in 1 .. AddrBytes /\ i + 1 - 1 = i
        /\ AddrBytes - (sent - 1) = i + 1
    BY <1>1, <1>2, SizeAssumption
  <2>2. data = a[i] % ByteBase
    <3>1. sent \in 1 .. Len(Frame(op)) /\ sent <= AddrBytes
      BY <1>1, <1>2, FramePositive, SizeAssumption
    <3> QED BY <1>1, <3>1, FrameFacts
  <2> HIDE DEF i
  <2>3. twi.addr = a[i] \div ByteBase /\ a[i] \in Nat
    <3>1. op.addr \in Nat
      BY <1>1, AddressFits
    <3>2. a[i + 1] = a[i + 1 - 1] \div ByteBase /\ a[i] \in Nat
      BY <2>1, <3>1, ShiftedFacts
    <3> QED BY <1>3, <2>1, <3>2
  <2> HIDE DEF a
  <2>4. ((a[i] \div ByteBase) * ByteBase) + (a[i] % ByteBase) = a[i]
    BY <2>3, SizeAssumption, DivFacts
  <2>5. addr = a[i]
    BY <2>2, <2>3, <2>4
  <2> QED BY <2>3, <2>5 DEF a, i
<1> HIDE DEF addr
<1>5. /\ partial \in TwiType /\ partial.busy = twi.busy /\ partial.rwn = twi.rwn
      /\ partial.receivingAddr = twi.receivingAddr /\ partial.offset = twi.offset
      /\ partial.currentEndpoint = twi.currentEndpoint
      /\ partial.bufLen = twi.bufLen /\ partial.addr = addr /\ partial.bufPos = sent
  <2> DEFINE p == twi.bufPos + 1
  <2>1. p = sent /\ p \in Nat
    BY <1>1, <1>3
  <2>2. partial = [twi EXCEPT !.addr = addr, !.bufPos = p]
    BY <1>3 DEF TwiType
  <2> HIDE DEF p, partial
  <2>3. partial \in TwiType
    BY <1>3, <1>4, <2>1, <2>2 DEF TwiType
  <2>4. /\ partial.busy = twi.busy /\ partial.rwn = twi.rwn
        /\ partial.receivingAddr = twi.receivingAddr /\ partial.offset = twi.offset
        /\ partial.currentEndpoint = twi.currentEndpoint
        /\ partial.bufLen = twi.bufLen /\ partial.addr = addr /\ partial.bufPos = p
    BY <1>3, <2>2 DEF TwiType
  <2> QED BY <2>1, <2>3, <2>4
<1>6. ~Over' /\ Subject' = op /\ ~Settled' /\ Taken' = sent
  BY <1>0, <1>1 DEF Over, Subject, Settled, Taken
<1>7. Delivered' /\ CommittedOnce' /\ ReadsTrue'
  BY <1>0, HistoryKept
<1>8. EndBooks' /\ ReadBooks'
  <2>1. EndBooks'
    BY <1>0, <1>1, <1>6 DEF DataInv, EndBooks
  <2>2. ReadBooks'
    BY <1>0, <1>1 DEF DataInv, ReadBooks
  <2> QED BY <2>1, <2>2
<1>9. /\ \A k \in DOMAIN calls : calls[k].call = "write"
      /\ ~op.rwn => Chain(calls, op, twi)
  BY <1>1 DEF DataInv, WriteBooks
<1>10. CASE sent < AddrBytes
  <2>1. r = [twi |-> partial, error |-> FALSE]
    BY <1>1, <1>5, <1>10, SizeAssumption DEF AddressComplete
  <2> HIDE DEF partial, r
  <2>3. twi' = partial /\ attached' = TRUE
    BY <1>0, <2>1 DEF Answer
  <2>4. DataTyped'
    BY <1>0, <1>5, <2>3 DEF DataInv, DataTyped
  <2>5. WriteBooks'
    <3>1. ~Receiving(twi')
      BY <1>3, <1>5, <2>3 DEF Receiving
    <3>2. Chain(calls, op, twi) => Chain(calls', Subject', twi')
      BY <1>0, <1>5, <1>6, <2>3 DEF Chain
    <3> QED BY <1>0, <1>3, <1>6, <1>9, <1>5, <2>3, <3>1, <3>2 DEF WriteBooks
  <2>6. AddressBooks'
    BY <1>0, <1>3, <1>4, <1>5, <1>6, <2>3 DEF AddressBooks
  <2>7. DataBooks'
    <3>1. ~Addressed'
      BY <1>0, <1>1, <1>6, <1>10, SizeAssumption DEF Addressed
    <3> QED BY <1>0, <1>1, <3>1 DEF DataBooks
  <2> QED BY <1>7, <1>8, <2>4, <2>5, <2>6, <2>7 DEF DataInv
<1>11. CASE sent = AddrBytes
  <2>1. addr = op.addr /\ op.addr \in Nat /\ op.n \in Nat
    <3>1. op.addr \in Nat /\ op.n \in Nat
      BY <1>1, AddressFits, FrameFacts
    <3>2. AddrBytes - sent = 0
      BY <1>11, SizeAssumption
    <3> QED BY <1>4, <3>1, <3>2, ShiftedFacts
  <2>2. r = [twi |-> selected, error |-> e = None]
    BY <1>5, <1>11, SizeAssumption DEF AddressComplete
  <2>3. e = None \/ (e \in DOMAIN Endpoints /\ Served(op.addr, e))
    BY <2>1, SelectFacts
  <2> HIDE DEF e
  <2>4. /\ selected \in TwiType /\ selected.busy = TRUE /\ selected.rwn = FALSE
        /\ selected.receivingAddr = FALSE /\ selected.offset = 0 /\ selected.bufPos = 0
        /\ selected.currentEndpoint = e /\ selected.bufLen = BufferSize
    <3>1. /\ partial \in TwiType /\ partial.busy = TRUE /\ partial.rwn = FALSE
          /\ partial.offset = 0 /\ partial.bufLen = BufferSize
      BY <1>3, <1>5
    <3> HIDE DEF partial
    <3>2. /\ whole \in TwiType /\ whole.busy = TRUE /\ whole.rwn = FALSE
          /\ whole.receivingAddr = FALSE /\ whole.offset = 0 /\ whole.bufPos = 0
          /\ whole.bufLen = BufferSize
      BY <3>1 DEF TwiType
    <3> HIDE DEF whole
    <3> QED BY <2>3, <3>2 DEF TwiType
  <2> HIDE DEF selected, r
  <2>5. /\ twi' \in TwiType /\ twi'.rwn = FALSE /\ twi'.currentEndpoint = e
        /\ twi'.offset = 0 /\ (attached' <=> e # None)
        /\ e = None => ~twi'.busy
        /\ e # None => twi' = selected
    <3>1. r.twi = selected /\ r.error = (e = None)
      BY <2>2
    <3>2. CASE e = None
      <4>1. twi' = twis_end_transaction(selected) /\ attached' = FALSE
        BY <1>0, <3>1, <3>2 DEF Answer
      <4>2. /\ twis_end_transaction(selected) \in TwiType
            /\ twis_end_transaction(selected).busy = FALSE
            /\ twis_end_transaction(selected).rwn = selected.rwn
            /\ twis_end_transaction(selected).offset = selected.offset
            /\ twis_end_transaction(selected).currentEndpoint = selected.currentEndpoint
        BY <2>4 DEF TwiType, twis_end_transaction
      <4> QED BY <2>4, <3>2, <4>1, <4>2
    <3>3. CASE e # None
      <4>1. twi' = selected /\ attached' = TRUE
        BY <1>0, <3>1, <3>3 DEF Answer
      <4> QED BY <2>4, <3>3, <4>1
    <3> QED BY <3>2, <3>3
  <2>6. DataTyped'
    BY <1>0, <2>5 DEF DataInv, DataTyped
  <2>7. ASSUME Receiving(twi') PROVE Buffered(twi', op)
    <3>1. twi' = selected /\ e # None
      BY <2>5, <2>7 DEF Receiving
    <3>2. Selected(twi', op.addr)
      BY <2>3, <2>4, <3>1 DEF Selected
    <3> QED BY <2>1, <2>4, <3>1, <3>2, SizeAssumption DEF Buffered
  <2>8. WriteBooks'
    <3>1. ASSUME ~op.rwn PROVE Chain(calls, op, twi')
      <4>1. calls = <<>> /\ Pieces(calls, op)
        BY <1>3, <1>9, <3>1 DEF Chain
      <4> QED BY <2>5, <4>1 DEF Chain, Upto
    <3> QED BY <1>0, <1>6, <1>9, <2>5, <2>7, <3>1 DEF WriteBooks
  <2>9. AddressBooks'
    BY <1>6, <1>11, SizeAssumption DEF AddressBooks
  <2>10. DataBooks'
    <3>1. ASSUME attached' PROVE Receiving(twi') /\ twi'.offset + twi'.bufPos = Taken' - AddrBytes
      <4>1. twi' = selected
        BY <2>5, <3>1
      <4> QED BY <1>6, <1>11, <2>4, <4>1, SizeAssumption DEF Receiving
    <3> QED BY <1>0, <1>1, <3>1 DEF DataBooks
  <2> QED BY <1>7, <1>8, <2>6, <2>8, <2>9, <2>10 DEF DataInv
<1>12. sent < AddrBytes \/ sent = AddrBytes
  BY <1>1, <1>2, SizeAssumption
<1> QED BY <1>10, <1>11, <1>12

\* A byte of the data of a write.
LEMMA DataByteKeeps ==
  ASSUME IInv, IInv', DataInv, twis_write_handler, DataByte
  PROVE  DataInv'
<1> DEFINE fresh == twis_start_transaction(twis_end_transaction(twi), FALSE, TRUE).twi
           room == IF BufferFull(twi) THEN fresh ELSE twi
           stored == [room EXCEPT !.buffer[room.bufPos + 1] = data, !.bufPos = @ + 1]
           all == calls \o Flushed(twi)
           e == twi.currentEndpoint
<1>0. /\ irq = "data" /\ ~dir /\ ~twi.receivingAddr /\ irq' = "none"
      /\ Answer([twi |-> stored, error |-> FALSE])
      /\ calls' = (IF BufferFull(twi) THEN all ELSE calls)
      /\ UNCHANGED <<pc, op, sent, got, ok, data, broken, ended, handled>>
  BY DEF DataByte, twis_write_handler, master
<1>1. /\ pc = "sending" /\ attached /\ got = <<>> /\ ok /\ op \in Transfers \cup {NoTransfer}
      /\ sent \in Nat \ {0} /\ sent <= Len(Frame(op)) /\ data = Frame(op)[sent]
      /\ Taken = sent - 1 /\ ~Over /\ Subject = op /\ Known /\ ~Settled
  BY <1>0, ByteArrives
<1>2. Taken >= AddrBytes
  <2> SUFFICES ASSUME Taken < AddrBytes PROVE FALSE
    BY <1>1, SizeAssumption
  <2> QED BY <1>0, <1>1 DEF DataInv, AddressBooks
<1>3. /\ Receiving(twi) /\ twi.offset + twi.bufPos = sent - 1 - AddrBytes
      /\ Buffered(twi, op) /\ twi \in TwiType /\ calls \in Seq(CallType)
  <2>1. Addressed
    BY <1>0, <1>1, <1>2 DEF Addressed
  <2>2. Receiving(twi) /\ twi.offset + twi.bufPos = sent - 1 - AddrBytes
    BY <1>1, <2>1 DEF DataInv, DataBooks
  <2>3. Buffered(twi, op)
    BY <1>1, <2>2 DEF DataInv, WriteBooks
  <2> QED BY <2>2, <2>3 DEF DataInv, DataTyped
<1>4. /\ ~op.rwn /\ op.n \in Nat /\ sent - AddrBytes <= op.n /\ data = sent - AddrBytes
      /\ data \in Nat
  <2>1. /\ op.n \in Nat /\ op.rwn \in BOOLEAN
        /\ Len(Frame(op)) = AddrBytes + (IF op.rwn THEN 0 ELSE op.n)
    BY <1>1, FrameFacts
  <2>2. sent > AddrBytes
    BY <1>1, <1>2, SizeAssumption
  <2>3. ~op.rwn /\ sent - AddrBytes <= op.n
    BY <1>1, <2>1, <2>2, SizeAssumption
  <2>4. sent \in 1 .. Len(Frame(op)) /\ ~(sent <= AddrBytes)
    BY <1>1, <2>1, <2>2, SizeAssumption
  <2>5. data = sent - AddrBytes
    BY <1>1, <2>4, FrameFacts
  <2> QED BY <2>1, <2>2, <2>3, <2>5, <1>1, SizeAssumption
<1>5. /\ \A k \in DOMAIN calls : calls[k].call = "write"
      /\ Chain(calls, op, twi)
  BY <1>1, <1>4 DEF DataInv, WriteBooks
<1>6. /\ all \in Seq(CallType) /\ \A k \in DOMAIN all : all[k].call = "write"
      /\ Pieces(all, op)
      /\ Endpoints[e].writable => Upto(all) = twi.offset + twi.bufPos
  BY <1>3, <1>5, FlushExtends
<1>7. /\ twi.bufPos \in Nat /\ twi.offset \in Nat /\ twi.bufLen = BufferSize
      /\ twi.bufPos <= BufferSize /\ twi.offset + twi.bufPos <= op.n
      /\ (\A j \in 1 .. twi.bufPos : twi.buffer[j] = twi.offset + j)
      /\ twi.buffer \in [1 .. BufferSize -> Nat]
      /\ e \in DOMAIN Endpoints /\ Served(op.addr, e) /\ e # None
      /\ BufferSize \in Nat \ {0}
  <2>1. e \in DOMAIN Endpoints
    BY <1>3 DEF Buffered, Selected
  <2>2. e # None
    BY <2>1, EndpointFacts, NoneAssumption
  <2> QED BY <1>3, <2>1, <2>2, TwiFacts, SizeAssumption DEF Buffered, Selected
<1> HIDE DEF all
\* The driver has room for a byte, and what is in its buffer has the offset.
<1>8. /\ room \in TwiType /\ room.busy /\ ~room.rwn /\ ~room.receivingAddr
      /\ room.currentEndpoint = e /\ room.bufLen = BufferSize
      /\ room.bufPos < BufferSize
      /\ room.offset + room.bufPos = sent - 1 - AddrBytes
      /\ \A j \in 1 .. room.bufPos : room.buffer[j] = room.offset + j
      /\ calls' \in Seq(CallType) /\ \A k \in DOMAIN calls' : calls'[k].call = "write"
      /\ Pieces(calls', op) /\ (Endpoints[e].writable => Upto(calls') = room.offset)
  <2>1. CASE BufferFull(twi)
    <3> DEFINE x == Extended(twi, FALSE)
    <3>1. fresh = x
      BY <1>0, <1>3, StartsPiece
    <3>2. FALSE \in BOOLEAN
      OBVIOUS
    <3>3. /\ x \in TwiType /\ x.busy = TRUE /\ x.rwn = FALSE /\ x.receivingAddr = FALSE
          /\ x.currentEndpoint = e /\ x.offset = twi.offset + twi.bufPos
          /\ x.bufLen = BufferSize /\ x.bufPos = 0
      BY <1>0, <1>3, <3>2, ExtendedFacts
    <3> HIDE DEF x, fresh
    <3>4. room = x /\ calls' = all
      BY <1>0, <2>1, <3>1
    <3> HIDE DEF room
    <3>5. /\ room.bufPos = 0 /\ room.offset = twi.offset + twi.bufPos
          /\ room.bufPos < BufferSize /\ room.offset + room.bufPos = sent - 1 - AddrBytes
      BY <1>3, <1>7, <3>3, <3>4
    <3>6. \A j \in 1 .. room.bufPos : room.buffer[j] = room.offset + j
      BY <3>5
    <3> QED BY <1>6, <3>3, <3>4, <3>5, <3>6
  <2>2. CASE ~BufferFull(twi)
    <3>1. room = twi /\ calls' = calls
      BY <1>0, <2>2
    <3> HIDE DEF room
    <3>2. twi.bufPos < BufferSize
      BY <1>7, <2>2 DEF BufferFull
    <3>3. Pieces(calls, op) /\ (Endpoints[e].writable => Upto(calls) = twi.offset)
      BY <1>5, <1>7 DEF Chain
    <3> QED BY <1>3, <1>5, <1>7, <3>1, <3>2, <3>3 DEF Receiving
  <2> QED BY <2>1, <2>2
<1> HIDE DEF room
<1>9. /\ room.bufPos \in Nat /\ room.offset \in Nat /\ room.buffer \in [1 .. BufferSize -> Nat]
      /\ room.bufPos + 1 \in 1 .. BufferSize
  <2>1. room.bufPos \in Nat /\ room.offset \in Nat /\ room.buffer \in [1 .. BufferSize -> Nat]
    BY <1>8, TwiFacts
  <2>2. room.bufPos < BufferSize /\ BufferSize \in Nat
    BY <1>7, <1>8
  <2> QED BY <2>1, <2>2
<1>10. /\ stored \in TwiType /\ stored.busy = room.busy /\ stored.rwn = room.rwn
       /\ stored.receivingAddr = room.receivingAddr
       /\ stored.currentEndpoint = e /\ stored.bufLen = BufferSize
       /\ stored.bufPos = room.bufPos + 1 /\ stored.offset = room.offset
       /\ stored.buffer = [room.buffer EXCEPT ![room.bufPos + 1] = data]
  <2> DEFINE b == [room.buffer EXCEPT ![room.bufPos + 1] = data]
             p == room.bufPos + 1
  <2>1. b \in [1 .. BufferSize -> Nat] /\ p \in Nat
    BY <1>4, <1>9
  <2>2. stored = [room EXCEPT !.buffer = b, !.bufPos = p]
    BY <1>8 DEF TwiType
  <2> HIDE DEF b, p, stored
  <2>3. stored \in TwiType
    BY <1>8, <2>1, <2>2 DEF TwiType
  <2>4. /\ stored.busy = room.busy /\ stored.rwn = room.rwn
        /\ stored.receivingAddr = room.receivingAddr
        /\ stored.currentEndpoint = room.currentEndpoint /\ stored.bufLen = room.bufLen
        /\ stored.bufPos = p /\ stored.offset = room.offset /\ stored.buffer = b
    BY <1>8, <2>2 DEF TwiType
  <2> QED BY <1>8, <2>3, <2>4 DEF b, p
<1>11. \A j \in 1 .. stored.bufPos : stored.buffer[j] = stored.offset + j
  <2> SUFFICES ASSUME NEW j \in 1 .. room.bufPos + 1
               PROVE  [room.buffer EXCEPT ![room.bufPos + 1] = data][j] = room.offset + j
    BY <1>10, Zenon
  <2>1. CASE j = room.bufPos + 1
    <3>1. room.offset + room.bufPos = sent - 1 - AddrBytes /\ data = sent - AddrBytes
      BY <1>4, <1>8
    <3>2. sent \in Nat /\ AddrBytes \in Nat /\ room.bufPos \in Nat /\ room.offset \in Nat
      BY <1>1, <1>9, SizeAssumption
    <3>3. data = room.offset + (room.bufPos + 1)
      BY <3>1, <3>2
    <3> QED BY <1>9, <2>1, <3>3
  <2>2. CASE j # room.bufPos + 1
    <3>1. j \in 1 .. room.bufPos /\ j \in 1 .. BufferSize
      BY <1>7, <1>9, <2>2
    <3> QED BY <1>8, <1>9, <2>2, <3>1
  <2> QED BY <2>1, <2>2
<1> HIDE DEF stored
<1>12. twi' = stored /\ attached' = TRUE
  BY <1>0 DEF Answer
<1>13. /\ Receiving(twi') /\ twi'.offset + twi'.bufPos = sent - AddrBytes
       /\ Buffered(twi', op)
  <2>1. stored.offset + stored.bufPos = sent - AddrBytes
    <3>1. /\ room.offset + room.bufPos = sent - 1 - AddrBytes
          /\ stored.offset = room.offset /\ stored.bufPos = room.bufPos + 1
      BY <1>8, <1>10
    <3>2. sent \in Nat /\ AddrBytes \in Nat /\ room.bufPos \in Nat /\ room.offset \in Nat
      BY <1>1, <1>9, SizeAssumption
    <3> QED BY <3>1, <3>2
  <2>2. Selected(stored, op.addr)
    BY <1>7, <1>10 DEF Selected
  <2>3. stored.bufPos <= BufferSize
    BY <1>9, <1>10
  <2>4. Receiving(stored)
    BY <1>8, <1>10 DEF Receiving
  <2> QED BY <1>4, <1>10, <1>11, <1>12, <2>1, <2>2, <2>3, <2>4 DEF Buffered
<1>14. ~Over' /\ Subject' = op /\ ~Settled' /\ Taken' = sent
  BY <1>0, <1>1 DEF Over, Subject, Settled, Taken
<1>15. DataTyped'
  BY <1>0, <1>8, <1>10, <1>12 DEF DataInv, DataTyped
<1>16. WriteBooks'
  <2>1. Chain(calls', op, twi')
    BY <1>7, <1>8, <1>10, <1>12 DEF Chain
  <2>2. ~twi'.rwn
    BY <1>13 DEF Receiving
  <2> QED BY <1>8, <1>13, <1>14, <2>1, <2>2 DEF WriteBooks
<1>17. AddressBooks'
  BY <1>1, <1>2, <1>14, SizeAssumption DEF AddressBooks
<1>18. DataBooks'
  BY <1>0, <1>1, <1>13, <1>14 DEF DataBooks
<1>19. EndBooks'
  BY <1>0, <1>1, <1>14 DEF DataInv, EndBooks
<1>20. ReadBooks'
  BY <1>0, <1>1 DEF DataInv, ReadBooks
<1>21. Delivered' /\ CommittedOnce' /\ ReadsTrue'
  BY <1>0, HistoryKept
<1> QED BY <1>15, <1>16, <1>17, <1>18, <1>19, <1>20, <1>21 DEF DataInv

\* The master's last answer ends a read: only after its last byte.
LEMMA EndOfReadKeeps ==
  ASSUME IInv, IInv', DataInv, twis_read_handler, EndOfRead
  PROVE  DataInv'
<1>0. /\ irq = "data" /\ dir /\ NackSeen /\ irq' = "none" /\ attached' = FALSE
      /\ twi' = twis_end_transaction(twi)
      /\ UNCHANGED <<pc, op, sent, got, ok, data, pien, calls, broken, ended, handled>>
  BY DEF twis_read_handler, EndOfRead, master
<1>1. pc \in {"reading", "exit"} /\ attached
  BY <1>0 DEF IInv, Typed, SameDirection
<1>2. pc = "exit"
  <2> SUFFICES ASSUME pc = "reading" PROVE FALSE
    BY <1>1
  <2>1. twi.offset + twi.bufPos = Len(got) /\ (got # <<>> => ~nack)
    BY <1>0, <1>1 DEF DataInv, ReadBooks
  <2>2. twi.offset \in Nat /\ twi.bufPos \in Nat /\ nack /\ (twi.bufPos > 0 \/ twi.offset > 0)
    BY <1>0 DEF IInv, Typed, NackSeen
  <2>3. Len(got) # 0
    BY <2>1, <2>2
  <2>4. got = <<>>
    BY <2>1, <2>2
  <2> QED BY <2>3, <2>4, EmptySeq
<1>3. op.rwn
  BY <1>0, <1>2 DEF DataInv, ReadBooks
<1>4. /\ twi' \in TwiType /\ twi'.busy = FALSE /\ twi'.currentEndpoint = twi.currentEndpoint
  BY <1>0 DEF DataInv, DataTyped, TwiType, twis_end_transaction
<1>5. ~Over /\ ~Over' /\ Subject = op /\ Subject' = op /\ Known /\ ~Settled /\ ~Settled'
  BY <1>0, <1>2 DEF Over, Subject, Known, Settled
<1>6. DataTyped'
  BY <1>0, <1>4 DEF DataInv, DataTyped
<1>7. WriteBooks'
  <2>1. ~Receiving(twi')
    BY <1>4 DEF Receiving
  <2>2. \A k \in DOMAIN calls : calls[k].call = "write"
    BY <1>5 DEF DataInv, WriteBooks
  <2> QED BY <1>0, <1>3, <1>5, <2>1, <2>2 DEF WriteBooks
<1>8. AddressBooks' /\ DataBooks'
  BY <1>0, <1>2, <1>3 DEF AddressBooks, DataBooks
<1>9. EndBooks'
  BY <1>0, <1>2, <1>3, <1>5 DEF DataInv, EndBooks
<1>10. ReadBooks'
  <2>1. Selected(twi, op.addr) => Selected(twi', op'.addr)
    BY <1>0, <1>4 DEF Selected
  <2>2. GotTrue(twi.currentEndpoint) => GotTrue(twi.currentEndpoint)'
    BY <1>0, <1>4 DEF GotTrue
  <2> QED BY <1>0, <1>2, <2>1, <2>2 DEF DataInv, ReadBooks
<1>11. Delivered' /\ CommittedOnce' /\ ReadsTrue'
  BY <1>0, HistoryKept
<1> QED BY <1>6, <1>7, <1>8, <1>9, <1>10, <1>11 DEF DataInv

\* Another byte goes out: it is the one of the endpoint at the place the
\* master has come to, unless the endpoint has no more.
LEMMA NextByteKeeps ==
  ASSUME IInv, IInv', DataInv, twis_read_handler, NextByte
  PROVE  DataInv'
<1> DEFINE fresh == twis_start_transaction(twis_end_transaction(twi), TRUE, TRUE)
           result == IF BufferFull(twi) THEN fresh ELSE [twi |-> twi, error |-> FALSE]
           more == [result.twi EXCEPT !.bufPos = @ + 1]
           e == twi.currentEndpoint
<1>0. /\ irq = "data" /\ dir /\ ~NackSeen /\ irq' = "none"
      /\ IF result.error \/ result.twi.bufLen = 0
         THEN Answer([twi |-> result.twi, error |-> TRUE]) /\ UNCHANGED data
         ELSE /\ Answer([twi |-> more, error |-> FALSE])
              /\ data' = result.twi.buffer[result.twi.bufPos + 1]
      /\ UNCHANGED <<pc, op, sent, got, ok, nack, pien, calls, broken, ended, handled>>
  BY Zenon DEF twis_read_handler, NextByte, master
<1>1. pc \in {"reading", "exit"} /\ attached
  BY <1>0 DEF IInv, Typed, SameDirection
<1>2. pc = "reading"
  <2> SUFFICES ASSUME pc = "exit" PROVE FALSE
    BY <1>1
  <2> QED BY <1>0 DEF IInv, LeavesTransfer, NackSeen
<1>3. /\ Loaded(twi, op.addr) /\ twi.offset + twi.bufPos = Len(got) /\ op.rwn
      /\ twi \in TwiType /\ got \in Seq(Nat \cup {High}) /\ Len(got) \in Nat
  <2>1. got \in Seq(Nat \cup {High})
    BY DEF DataInv, DataTyped
  <2> QED BY <1>0, <1>1, <1>2, <2>1, LenProperties DEF DataInv, DataTyped, ReadBooks
<1>4. /\ Selected(twi, op.addr) /\ ~twi.receivingAddr /\ twi.rwn /\ twi.bufPos <= twi.bufLen
      /\ Endpoints[e].kind = "progmem" => twi.bufLen = BufferSize /\ twi.offset % BufferSize = 0
      /\ Endpoints[e].kind = "once" => twi.offset = 0 /\ twi.bufLen = Readable(e)
      /\ twi.bufPos \in Nat /\ twi.bufLen \in Nat /\ twi.offset \in Nat
      /\ BufferSize \in Nat \ {0}
  BY <1>3, TwiFacts, SizeAssumption DEF Loaded
<1>5. e \in DOMAIN Endpoints /\ Readable(e) \in Nat
  BY <1>4, ReadableFacts DEF Selected
\* The buffer that the byte comes from, or why there is none.
<1>6. /\ result.error \in BOOLEAN /\ result.twi \in TwiType
      /\ result.twi.currentEndpoint = e /\ result.twi.rwn
      /\ result.twi.offset + result.twi.bufPos = Len(got)
      /\ result.error => Readable(e) <= Len(got)
      /\ ~result.error => Loaded(result.twi, op.addr) /\
                          (result.twi.bufLen = 0 \/ result.twi.bufPos < result.twi.bufLen)
  <2>1. CASE BufferFull(twi)
    <3>1. twi.bufPos = twi.bufLen
      BY <1>4, <2>1 DEF BufferFull
    <3>2. Endpoints[e].kind = "progmem" => (twi.offset + twi.bufPos) % BufferSize = 0
      <4> SUFFICES ASSUME Endpoints[e].kind = "progmem"
                   PROVE  (twi.offset + twi.bufPos) % BufferSize = 0
        OBVIOUS
      <4>1. twi.bufPos = BufferSize /\ twi.offset % BufferSize = 0
        BY <1>4, <3>1
      <4>2. (twi.offset + BufferSize) % BufferSize = 0
        BY <1>4, <4>1, ModFacts
      <4> QED BY <4>1, <4>2
    <3>3. Endpoints[e].kind = "once" =>
            twi.offset + twi.bufPos = 0 \/ Readable(e) <= twi.offset + twi.bufPos
      BY <1>4, <1>5, <3>1
    <3>4. /\ fresh.error \in BOOLEAN /\ fresh.twi \in TwiType
          /\ fresh.twi.currentEndpoint = e /\ fresh.twi.rwn
          /\ fresh.twi.offset = twi.offset + twi.bufPos /\ fresh.twi.bufPos = 0
          /\ fresh.error => Readable(e) <= twi.offset + twi.bufPos
          /\ ~fresh.error => Loaded(fresh.twi, op.addr)
      BY <1>3, <1>4, <3>2, <3>3, StartsRead
    <3> HIDE DEF fresh
    <3>5. result = fresh
      BY <2>1
    <3> HIDE DEF result
    <3>6. result.twi.offset + result.twi.bufPos = Len(got)
      BY <1>3, <1>4, <3>4, <3>5
    <3>7. result.twi.bufLen \in Nat
      BY <3>4, <3>5, TwiFacts
    <3>8. result.twi.bufLen = 0 \/ result.twi.bufPos < result.twi.bufLen
      BY <3>4, <3>5, <3>7
    <3> QED BY <1>3, <3>4, <3>5, <3>6, <3>8
  <2>2. CASE ~BufferFull(twi)
    <3>1. result.twi = twi /\ result.error = FALSE
      BY <2>2
    <3>2. twi.bufPos < twi.bufLen
      BY <1>4, <2>2 DEF BufferFull
    <3> HIDE DEF result
    <3> QED BY <1>3, <1>4, <3>1, <3>2
  <2> QED BY <2>1, <2>2
<1> HIDE DEF result
<1>7. ~Over /\ ~Over' /\ Subject = op /\ Subject' = op /\ Known /\ ~Settled /\ ~Settled'
  BY <1>0, <1>2 DEF Over, Subject, Known, Settled
<1>8. \A k \in DOMAIN calls : calls[k].call = "write"
  BY <1>7 DEF DataInv, WriteBooks
<1>9. AddressBooks' /\ DataBooks'
  BY <1>0, <1>2, <1>3 DEF AddressBooks, DataBooks, Addressed
<1>10. EndBooks'
  BY <1>0, <1>2, <1>3, <1>7 DEF DataInv, EndBooks
<1>11. Delivered' /\ CommittedOnce' /\ ReadsTrue'
  BY <1>0, HistoryKept
\* It suffices to look at the driver, the byte, and what is read.
<1>12. ASSUME twi' \in TwiType, twi'.rwn, twi'.currentEndpoint = e, data' \in Nat,
              ~attached' => Readable(e) <= Len(got),
              attached' => /\ Loaded(twi', op.addr)
                           /\ twi'.offset + twi'.bufPos = Len(got) + 1
                           /\ twi'.bufPos > 0 /\ data' = twi'.buffer[twi'.bufPos]
       PROVE  DataInv'
  <2>1. DataTyped'
    BY <1>0, <1>12 DEF DataInv, DataTyped
  <2>2. WriteBooks'
    <3>1. ~Receiving(twi')
      BY <1>12 DEF Receiving
    <3> QED BY <1>0, <1>3, <1>7, <1>8, <3>1 DEF WriteBooks
  <2>3. ReadBooks'
    <3>1. ok => Selected(twi', op.addr) /\ GotTrue(twi.currentEndpoint)' /\ ~pien
      <4>1. ok => Selected(twi, op.addr) /\ GotTrue(e) /\ ~pien
        BY <1>2, <1>3 DEF DataInv, ReadBooks
      <4>2. Selected(twi, op.addr) => Selected(twi', op.addr)
        BY <1>12 DEF Selected
      <4>3. GotTrue(e) => GotTrue(twi.currentEndpoint)'
        BY <1>0, <1>12 DEF GotTrue
      <4> QED BY <4>1, <4>2, <4>3
    <3>2. ~attached' => Len(got) >= Readable(twi'.currentEndpoint)
      BY <1>3, <1>5, <1>12
    <3> QED BY <1>0, <1>2, <1>3, <1>12, <3>1, <3>2 DEF ReadBooks
  <2> QED BY <1>9, <1>10, <1>11, <2>1, <2>2, <2>3 DEF DataInv
<1>13. CASE result.error \/ result.twi.bufLen = 0
  <2>1. twi' = twis_end_transaction(result.twi) /\ attached' = FALSE /\ data' = data
    BY <1>0, <1>13 DEF Answer
  <2>2. /\ twis_end_transaction(result.twi) \in TwiType
        /\ twis_end_transaction(result.twi).rwn = result.twi.rwn
        /\ twis_end_transaction(result.twi).currentEndpoint = result.twi.currentEndpoint
    BY <1>6 DEF TwiType, twis_end_transaction
  <2>3. Readable(e) <= Len(got)
    <3>1. CASE result.error
      BY <1>6, <3>1
    <3>2. CASE ~result.error
      \* Only a function that knows no offset loads an empty buffer.
      <4>1. Loaded(result.twi, op.addr) /\ result.twi.bufLen = 0
        BY <1>6, <1>13, <3>2
      <4>2. Endpoints[e].kind = "once" /\ result.twi.bufLen = Readable(e)
        BY <1>4, <1>5, <1>6, <4>1, EndpointFacts DEF Loaded
      <4> QED BY <1>3, <4>1, <4>2
    <3> QED BY <3>1, <3>2
  <2>4. data' \in Nat
    BY <2>1 DEF DataInv, DataTyped
  <2> QED BY <1>6, <1>12, <2>1, <2>2, <2>3, <2>4
<1>14. CASE ~(result.error \/ result.twi.bufLen = 0)
  <2> DEFINE t == result.twi
             p == t.bufPos + 1
  <2>1. twi' = more /\ attached' = TRUE /\ data' = t.buffer[p]
    BY <1>0, <1>14 DEF Answer
  <2>2. /\ t \in TwiType /\ Loaded(t, op.addr) /\ t.bufPos < t.bufLen /\ t.rwn
        /\ t.currentEndpoint = e /\ t.offset + t.bufPos = Len(got)
    BY <1>6, <1>14
  <2> HIDE DEF t
  <2>3. /\ t.bufPos \in Nat /\ t.bufLen \in Nat /\ t.offset \in Nat
        /\ t.buffer \in [1 .. BufferSize -> Nat] /\ t.bufLen <= BufferSize
    BY <2>2, TwiFacts DEF Loaded
  <2>4. p \in Nat /\ p <= t.bufLen /\ p > 0 /\ p \in 1 .. BufferSize
        /\ t.offset + p = Len(got) + 1
    <3>1. t.bufPos < t.bufLen /\ t.offset + t.bufPos = Len(got)
      BY <2>2
    <3>2. Len(got) \in Nat /\ BufferSize \in Nat
      BY <1>3, <1>4
    <3>3. t.bufPos \in Nat /\ t.bufLen \in Nat /\ t.offset \in Nat /\ t.bufLen <= BufferSize
      BY <2>3
    <3>4. t.bufPos + 1 <= t.bufLen /\ t.offset + (t.bufPos + 1) = Len(got) + 1
      BY <3>1, <3>2, <3>3
    <3> QED BY <3>2, <3>3, <3>4
  <2>5. more = [t EXCEPT !.bufPos = p]
    BY <2>2 DEF TwiType, t
  <2> HIDE DEF more, p
  <2>6. more \in TwiType
    BY <2>2, <2>4, <2>5 DEF TwiType
  <2>7. /\ more.busy = t.busy /\ more.rwn = t.rwn /\ more.receivingAddr = t.receivingAddr
        /\ more.currentEndpoint = t.currentEndpoint /\ more.offset = t.offset
        /\ more.bufLen = t.bufLen /\ more.bufPos = p /\ more.buffer = t.buffer
    BY <2>2, <2>5 DEF TwiType
  <2>8. Loaded(more, op.addr)
    BY <2>2, <2>4, <2>7 DEF Loaded, Selected
  <2>9. data' \in Nat
    BY <2>1, <2>3, <2>4
  <2> QED BY <1>12, <2>1, <2>2, <2>4, <2>6, <2>7, <2>8, <2>9
<1> QED BY <1>13, <1>14

-----------------------------------------------------------------------------
LEMMA DataPreserved == IInv /\ IInv' /\ DataInv /\ [Next]_vars => DataInv'
<1> SUFFICES ASSUME IInv, IInv', DataInv, [Next]_vars PROVE DataInv'
  OBVIOUS
<1>1. CASE Start \/ builtin_i2c_master_transfer
  BY <1>1, StartKeeps, SendByteKeeps, WriteDoneKeeps, RestartKeeps, NotAckedKeeps,
     ReadAckedKeeps, ReadByteKeeps, StopKeeps, RawFailsKeeps
     DEF builtin_i2c_master_transfer, Progress
<1>2. CASE twi_slave_interrupt
  <2>1. CASE twis_start_handler
    BY <2>1, StartWriteKeeps, StartReadKeeps
  <2>2. CASE twis_write_handler
    BY <2>2, AddressByteKeeps, DataByteKeeps DEF twis_write_handler
  <2>3. CASE twis_read_handler
    BY <2>3, EndOfReadKeeps, NextByteKeeps DEF twis_read_handler
  <2> QED BY <1>2, <2>1, <2>2, <2>3, StopHandlerKeeps, ErrorKeeps DEF twi_slave_interrupt
<1>3. CASE BusError
  BY <1>3, BusErrorKeeps
<1>4. CASE UNCHANGED vars
  <2> USE <1>4 DEF vars, master, bus, history
  <2>1. DataTyped' /\ AddressBooks' /\ DataBooks'
    BY DEF DataInv, DataTyped, AddressBooks, DataBooks, Addressed, Taken
  <2>2. WriteBooks'
    BY DEF DataInv, WriteBooks, Known, Over, Subject, Settled
  <2>3. EndBooks'
    BY DEF DataInv, EndBooks, Over, Whole
  <2>4. ReadBooks'
    <3>1. GotTrue(twi.currentEndpoint)' <=> GotTrue(twi.currentEndpoint)
      BY DEF GotTrue
    <3> QED BY <3>1 DEF DataInv, ReadBooks
  <2>5. Delivered' /\ CommittedOnce' /\ ReadsTrue'
    BY HistoryKept
  <2> QED BY <2>1, <2>2, <2>3, <2>4, <2>5 DEF DataInv
<1> QED BY <1>1, <1>2, <1>3, <1>4 DEF Next

-----------------------------------------------------------------------------
\* The invariant that ties the state of the slave's driver to the transfer
\* holds of any register map and any sizes.
THEOREM Invariance == Spec => []IInv
BY Initially, StepPreserves, PTL DEF Spec

\* The comment of the stop handler, "this should always hold": a stop
\* interrupt finds the driver in a write (i2c_slave.c:173).
THEOREM StopsFollowWrites == Spec => []StopAfterWrite
<1>1. IInv => StopAfterWrite
  BY DEF IInv, StopsEnabled, StopAfterWrite
<1> QED BY <1>1, Invariance, PTL

\* With IInv, the invariant of the data holds of any register map, any
\* buffer and address size, and any transfers.
THEOREM DataInvariance == Spec => []DataInv
<1>1. DataInv /\ IInv /\ IInv' /\ [Next]_vars => DataInv'
  BY DataPreserved
<1> QED BY <1>1, DataInitially, Invariance, PTL DEF Spec

\* When the bus is idle and no interrupt is pending, no transaction is open
\* in the driver, but for what a transfer that has failed may leave there: a
\* read or a transaction without a byte, with nothing to flush
\* (twis_end_transaction, i2c_slave.c:116-128).
THEOREM IdleMeansDone == Spec => []NoneBusyWhenIdle
<1>1. IInv /\ DataInv => NoneBusyWhenIdle
  BY DEF IInv, LeavesTransfer, DataInv, EndBooks, NoneBusyWhenIdle
<1> QED BY <1>1, Invariance, DataInvariance, PTL

\* However a write is cut into buffers, its endpoint gets the bytes that the
\* master has sent, in order, each once and at its offset (i2c_slave.c:73).
THEOREM WritesAreDelivered == Spec => []Delivered
<1>1. DataInv => Delivered
  BY DEF DataInv
<1> QED BY <1>1, DataInvariance, PTL

\* Whatever becomes of a transfer, its endpoint is committed at most once and
\* after its last byte: a write that succeeds is, if its stop is handled in
\* time, and a read that succeeds is not (i2c_slave.c:163-177).
THEOREM CommitsAreOnce == Spec => []CommittedOnce
<1>1. DataInv => CommittedOnce
  BY DEF DataInv
<1> QED BY <1>1, DataInvariance, PTL

\* What the master reads is what the endpoint holds (i2c_slave.c:233-258).
THEOREM ReadsAreTrue == Spec => []ReadsTrue
<1>1. DataInv => ReadsTrue
  BY DEF DataInv
<1> QED BY <1>1, DataInvariance, PTL
=============================================================================
