---------------------------- MODULE TimersProofs ----------------------------
(***************************************************************************)
(* Proofs about Timers, for any timers, intervals and callbacks and for    *)
(* every program of calls: the lock is free when it is taken, with or      *)
(* without interrupts, and, while the ticks do not wrap, a timer that is   *)
(* paused keeps the time it had left.                                      *)
(*                                                                         *)
(* For plain programs (OwnCallbacks, TidyHandlers) and ticks that do not   *)
(* wrap also: the list is in order and covered by the alarm, each timer    *)
(* fires once and not before it is due, and a poll does not miss it.       *)
(***************************************************************************)
EXTENDS Timers, SequenceTheorems, FiniteSetTheorems, WellFoundedInduction, TLAPS

-----------------------------------------------------------------------------
(* The inductive invariant, for any program.                               *)

\* What a frame may do: at least these points need a timer.
OfATimer == {"called", "start", "insert", "stop", "unlink", "stopped", "polled", "create"}

Frames ==
  {f \in [do: OfATimer \cup {"update", "trigger", "calls", "iret", "wild"},
          t: Timers \cup {None}, time: Nat, calls: Seq(Op)] :
     f.do \in OfATimer => f.t \in Timers}

TypeOK ==
  /\ timer \in [Timers -> [expiry: Int, running: BOOLEAN, hasExpired: BOOLEAN]]
  /\ next \in [Timers -> Timers \cup {None}] /\ timerList \in Timers \cup {None}
  /\ timerLock \in BOOLEAN
  /\ stack \in Seq(Frames)
  /\ now \in Nat /\ due \in [Timers -> Int]

\* The points at which timer_start and timer_stop hold the lock.
Locking == {"insert", "unlink"}

\* The lock is held while a frame of the stack is at one of these points,
\* and what is above that frame is no more than an interrupt that finds the
\* lock held.
Held ==
  /\ timerLock <=> \E n \in DOMAIN stack : stack[n].do \in Locking
  /\ \A n \in DOMAIN stack :
       stack[n].do \in Locking => \A k \in 1 .. n - 1 : stack[k].do \in {"update", "iret"}

\* Nothing follows a wild read.
LockBooks == At("wild") \/ Held

IInv == TypeOK /\ LockBooks

\* While the ticks do not wrap a running timer's expiry is when it is due.
ExpiryBooks == \A t \in Timers : timer[t].running => due[t] = timer[t].expiry

-----------------------------------------------------------------------------
(* Least numbers and cut sequences.                                        *)

\* What induction over the natural numbers comes down to.
LEMMA LeastOf ==
  ASSUME NEW T \in SUBSET Nat, T # {}
  PROVE  \E n \in T : \A m \in T : n <= m
<1> DEFINE R == OpToRel(<, Nat)
<1>1. \E n \in T : \A m \in T : ~(<<m, n>> \in R)
  BY NatLessThanWellFounded, WFMin, Zenon
<1>2. \A m, n \in Nat : m < n => <<m, n>> \in R
  BY Zenon DEF OpToRel
<1>3. \A m \in T : m \in Nat
  OBVIOUS
<1> HIDE DEF R
<1>4. \A m, n \in T : ~(<<m, n>> \in R) => n <= m
  BY <1>2, <1>3
<1> QED BY <1>1, <1>4

LEMMA LeastFacts ==
  ASSUME NEW T \in SUBSET Nat, T # {}
  PROVE  Min(T) \in T /\ \A m \in T : Min(T) <= m
BY LeastOf DEF Min

\* A sequence cut before the first of some positions.
LEMMA CutFacts ==
  ASSUME NEW S, NEW s \in Seq(S), NEW K \in SUBSET DOMAIN s
  PROVE  LET m == Min(K \cup {Len(s) + 1})
             front == SubSeq(s, 1, m - 1)
         IN  front \in Seq(S) /\ SubSeq(s, Len(front) + 1, Len(s)) \in Seq(S)
<1> DEFINE T == K \cup {Len(s) + 1}
           m == Min(T)
           front == SubSeq(s, 1, m - 1)
<1>1. Len(s) \in Nat /\ DOMAIN s = 1 .. Len(s) /\ \A k \in 1 .. Len(s) : s[k] \in S
  BY LenProperties, ElementOfSeq
<1>2. m \in 1 .. Len(s) + 1
  <2>1. T \in SUBSET Nat /\ T # {} /\ T \subseteq 1 .. Len(s) + 1
    BY <1>1
  <2> HIDE DEF T
  <2> QED BY <2>1, LeastFacts
<1> HIDE DEF m
<1>3. front \in Seq(S) /\ Len(front) = m - 1
  BY <1>1, <1>2, SubSeqProperties
<1>4. SubSeq(s, Len(front) + 1, Len(s)) \in Seq(S)
  BY <1>1, <1>2, <1>3, SubSeqProperties
<1> QED BY <1>3, <1>4 DEF m

-----------------------------------------------------------------------------
(* The lists of timers.                                                    *)

Links == [Timers -> Timers \cup {None}]
Fields == [Timers -> [expiry: Int, running: BOOLEAN, hasExpired: BOOLEAN]]

\* The equation that the nodes of the list are defined by, for any length.
NodesOf(f, n) ==
  f = [k \in 1 .. n |-> IF k = 1 THEN timerList
                        ELSE IF f[k - 1] = None THEN None ELSE next[f[k - 1]]]

\* Following the links of timers leads to timers or to the end.
LEMMA NodesExist ==
  ASSUME NEW n \in Nat
  PROVE  \E f : NodesOf(f, n)
<1> DEFINE T == {m \in Nat : ~ \E f : NodesOf(f, m)}
<1>1. SUFFICES ASSUME T # {} PROVE FALSE
  OBVIOUS
<1>2. PICK m \in T : \A k \in T : m <= k
  <2>1. T \in SUBSET Nat
    OBVIOUS
  <2> HIDE DEF T
  <2> QED BY <1>1, <2>1, LeastOf
<1>3. CASE m = 0
  <2> DEFINE f == [k \in 1 .. 0 |-> None]
  <2>1. NodesOf(f, m)
    BY <1>3 DEF NodesOf
  <2> HIDE DEF f
  <2> QED BY <1>2, <2>1
<1>4. CASE m # 0
  <2>1. m - 1 \in Nat /\ m \in Nat /\ m - 1 < m
    BY <1>4
  <2>2. PICK f : NodesOf(f, m - 1)
    BY <1>2, <2>1
  <2> DEFINE v == IF m = 1 THEN timerList ELSE IF f[m - 1] = None THEN None ELSE next[f[m - 1]]
             g == [k \in 1 .. m |-> IF k < m THEN f[k] ELSE v]
             e(k) == IF k = 1 THEN timerList ELSE IF g[k - 1] = None THEN None ELSE next[g[k - 1]]
  <2>3. \A k \in 1 .. m : g[k] = e(k)
    <3> SUFFICES ASSUME NEW k \in 1 .. m PROVE g[k] = e(k)
      OBVIOUS
    <3>1. CASE k < m
      <4>1. g[k] = f[k] /\ k \in 1 .. m - 1 /\ (k # 1 => g[k - 1] = f[k - 1])
        BY <3>1, <2>1
      <4> QED BY <4>1, <2>2 DEF NodesOf
    <3>2. CASE k = m
      <4>1. g[m] = v /\ (m # 1 => g[m - 1] = f[m - 1])
        BY <2>1
      <4> HIDE DEF g
      <4> QED BY <3>2, <4>1
    <3> QED BY <2>1, <3>1, <3>2
  <2>4. g = [k \in 1 .. m |-> e(k)]
    <3>1. g = [k \in 1 .. m |-> g[k]]
      OBVIOUS
    <3> HIDE DEF g
    <3> QED BY <2>3, <3>1
  <2>5. NodesOf(g, m)
    BY <2>4, Zenon DEF NodesOf
  <2> HIDE DEF g
  <2> QED BY <1>2, <2>5
<1> QED BY <1>3, <1>4

LEMMA NodesAreTimers ==
  ASSUME NEW f, NEW n \in Nat, NodesOf(f, n), next \in Links, timerList \in Timers \cup {None}
  PROVE  f \in [1 .. n -> Timers \cup {None}]
<1> DEFINE T == {k \in 1 .. n : f[k] \notin Timers \cup {None}}
<1>1. T = {}
  <2> SUFFICES ASSUME T # {} PROVE FALSE
    OBVIOUS
  <2>1. PICK k \in T : \A j \in T : k <= j
    <3>1. T \in SUBSET Nat
      OBVIOUS
    <3> HIDE DEF T
    <3> QED BY <3>1, LeastOf
  <2>2. k # 1 => k - 1 \in 1 .. n /\ k - 1 \notin T
    BY <2>1
  <2> QED BY <2>1, <2>2 DEF NodesOf, Links
<1>2. f = [k \in 1 .. n |-> f[k]]
  BY DEF NodesOf
<1> QED BY <1>1, <1>2

LEMMA ListType ==
  ASSUME next \in Links, timerList \in Timers \cup {None}
  PROVE  List \in Seq(Timers)
<1> DEFINE N == Cardinality(Timers)
           node == CHOOSE f : NodesOf(f, N)
           A == {n \in DOMAIN node : node[n] # None}
<1>1. N \in Nat
  BY TimersAssumption, FS_CardinalityType
<1>2. List = SubSeq(node, 1, Cardinality(A))
  BY Zenon DEF List, NodesOf
<1>3. NodesOf(node, N)
  BY <1>1, NodesExist
<1> HIDE DEF node, N
<1>4. node \in [1 .. N -> Timers \cup {None}]
  BY <1>1, <1>3, NodesAreTimers
\* Behind the end of the list there is no node.
<1>5. \A n \in 1 .. N : node[n] = None => \A k \in n .. N : node[k] = None
  <2> SUFFICES ASSUME NEW n \in 1 .. N, node[n] = None PROVE \A k \in n .. N : node[k] = None
    OBVIOUS
  <2> DEFINE T == {k \in n .. N : node[k] # None}
  <2>1. SUFFICES ASSUME T # {} PROVE FALSE
    OBVIOUS
  <2>2. PICK k \in T : \A j \in T : k <= j
    <3>1. T \in SUBSET Nat
      BY <1>1
    <3> HIDE DEF T
    <3> QED BY <2>1, <3>1, LeastOf
  <2>3. k # n /\ k - 1 \in n .. N /\ k - 1 \notin T /\ k \in 2 .. N
    BY <1>1, <2>2
  <2>4. node[k] = IF node[k - 1] = None THEN None ELSE next[node[k - 1]]
    BY <1>1, <1>3, <2>3 DEF NodesOf
  <2> QED BY <2>2, <2>3, <2>4
<1>6. IsFiniteSet(A) /\ Cardinality(A) \in 0 .. N
  <2>1. A \subseteq 1 .. N /\ IsFiniteSet(1 .. N) /\ Cardinality(1 .. N) = N
    <3>1. IsFiniteSet(1 .. N) /\ Cardinality(1 .. N) = IF 1 > N THEN 0 ELSE N - 1 + 1
      BY <1>1, FS_Interval
    <3> QED BY <1>1, <1>4, <3>1
  <2>2. IsFiniteSet(A) /\ Cardinality(A) <= N /\ Cardinality(A) \in Nat
    <3> HIDE DEF A
    <3> QED BY <2>1, FS_Subset, FS_CardinalityType
  <2> QED BY <1>1, <2>2
\* The nodes before it are as many as the list has.
<1>7. \A n \in 1 .. Cardinality(A) : node[n] \in Timers
  <2> SUFFICES ASSUME NEW n \in 1 .. Cardinality(A), node[n] = None PROVE FALSE
    BY <1>1, <1>4, <1>6
  <2>1. n \in 1 .. N /\ n - 1 \in Nat
    BY <1>1, <1>6
  <2>2. A \subseteq 1 .. n - 1
    BY <1>1, <1>4, <1>5, <2>1
  <2>3. IsFiniteSet(1 .. n - 1) /\ Cardinality(1 .. n - 1) = n - 1
    <3>1. IsFiniteSet(1 .. n - 1) /\ Cardinality(1 .. n - 1) = IF 1 > n - 1 THEN 0 ELSE (n - 1) - 1 + 1
      BY <2>1, FS_Interval
    <3> QED BY <2>1, <3>1
  <2>4. Cardinality(A) <= n - 1
    <3> HIDE DEF A
    <3> QED BY <2>2, <2>3, FS_Subset
  <2> QED BY <1>6, <2>4
<1> HIDE DEF A
<1> QED BY <1>2, <1>6, <1>7, SubSeqProperties

LEMMA HeadOfType ==
  ASSUME NEW s \in Seq(Timers)
  PROVE  HeadOf(s) \in Timers \cup {None}
BY HeadTailProperties DEF HeadOf

LEMMA ReverseType ==
  ASSUME NEW s \in Seq(Timers)
  PROVE  Reverse(s) \in Seq(Timers)
<1>1. Len(s) \in Nat /\ \A k \in 1 .. Len(s) : s[k] \in Timers
  BY LenProperties, ElementOfSeq
<1>2. \A i \in 1 .. Len(s) : s[(Len(s) - i) + 1] \in Timers
  BY <1>1
<1>3. Reverse(s) \in [1 .. Len(s) -> Timers]
  BY <1>2 DEF Reverse
<1> QED BY <1>1, <1>3, SeqDef

LEMMA LinkedType ==
  ASSUME NEW links \in Links, NEW s \in Seq(Timers)
  PROVE  Linked(links, s) \in Links
<1>1. Len(s) \in Nat /\ \A k \in 1 .. Len(s) : s[k] \in Timers
  BY LenProperties, ElementOfSeq
<1>2. ASSUME NEW t \in Timers, Contains(s, t)
      PROVE  HeadOf(SubSeq(s, SelectInSeq(s, LAMBDA u : u = t) + 1, Len(s)))
               \in Timers \cup {None}
  <2> DEFINE I == {i \in 1 .. Len(s) : s[i] = t}
  <2>1. I # {} /\ I \in SUBSET Nat
    BY <1>2 DEF Contains
  <2>2. SelectInSeq(s, LAMBDA u : u = t) = Min(I)
    BY <2>1 DEF SelectInSeq
  <2>3. Min(I) \in 1 .. Len(s)
    <3>1. Min(I) \in I
      <4> HIDE DEF I
      <4> QED BY <2>1, LeastFacts
    <3> QED BY <3>1
  <2> HIDE DEF I
  <2>4. SubSeq(s, Min(I) + 1, Len(s)) \in Seq(Timers)
    BY <1>1, <2>3, SubSeqProperties
  <2> QED BY <2>2, <2>4, HeadOfType
<1>3. \A t \in Timers : links[t] \in Timers \cup {None}
  BY DEF Links
<1> QED BY <1>2, <1>3 DEF Linked, Links

LEMMA RemoveFirstType ==
  ASSUME NEW s \in Seq(Timers), NEW t
  PROVE  RemoveFirst(s, t) \in Seq(Timers)
<1>1. Len(s) \in Nat /\ \A k \in 1 .. Len(s) : s[k] \in Timers
  BY LenProperties, ElementOfSeq
<1> DEFINE I == {i \in 1 .. Len(s) : s[i] = t}
<1>2. CASE I # {}
  <2>1. I \in SUBSET Nat
    OBVIOUS
  <2>2. Min(I) \in 1 .. Len(s)
    <3>1. Min(I) \in I
      <4> HIDE DEF I
      <4> QED BY <1>2, <2>1, LeastFacts
    <3> QED BY <3>1
  <2>3. RemoveFirst(s, t) = SubSeq(s, 1, Min(I) - 1) \o SubSeq(s, Min(I) + 1, Len(s))
    BY <1>2 DEF RemoveFirst, RemoveAt, SelectInSeq
  <2> HIDE DEF I
  <2>4. SubSeq(s, 1, Min(I) - 1) \in Seq(Timers) /\ SubSeq(s, Min(I) + 1, Len(s)) \in Seq(Timers)
    BY <1>1, <2>2, SubSeqProperties
  <2> QED BY <2>3, <2>4, ConcatProperties
<1>3. CASE I = {}
  BY <1>3 DEF RemoveFirst
<1> QED BY <1>2, <1>3

-----------------------------------------------------------------------------
(* Frames.                                                                 *)

LEMMA FrameTypes ==
  /\ Update \in Frames /\ Frame("iret", None, 0) \in Frames /\ Frame("wild", None, 0) \in Frames
  /\ \A t \in Timers \cup {None} : Trigger(t) \in Frames
  /\ \A ops \in Seq(Op) : Calls(ops) \in Frames
  /\ \A do \in OfATimer, t \in Timers, time \in Nat : Frame(do, t, time) \in Frames
<1>1. <<>> \in Seq(Op)
  OBVIOUS
<1> QED BY <1>1 DEF Frames, Frame, Update, Trigger, Calls, OfATimer

\* The stack after the innermost function has gone on.
LEMMA GoOnFacts ==
  ASSUME stack \in Seq(Frames), stack # <<>>, NEW frames \in Seq(Frames), GoOn(frames)
  PROVE  /\ stack' \in Seq(Frames) /\ Len(stack) \in Nat \ {0} /\ Len(frames) \in Nat
         /\ Head(stack) = stack[1] /\ stack[1] \in Frames
         /\ DOMAIN stack = 1 .. Len(stack)
         /\ Len(stack') = Len(frames) + Len(stack) - 1
         /\ DOMAIN stack' = 1 .. Len(stack')
         /\ \A k \in 1 .. Len(frames) : stack'[k] = frames[k]
         /\ \A k \in 2 .. Len(stack) : stack'[Len(frames) + k - 1] = stack[k]
<1>1. /\ Len(stack) \in Nat \ {0} /\ Len(frames) \in Nat /\ DOMAIN stack = 1 .. Len(stack)
      /\ Head(stack) = stack[1]
  BY LenProperties, EmptySeq
<1>2. stack[1] \in Frames
  BY <1>1, ElementOfSeq
<1>3. /\ Tail(stack) \in Seq(Frames) /\ Len(Tail(stack)) = Len(stack) - 1
      /\ \A k \in 1 .. Len(Tail(stack)) : Tail(stack)[k] = stack[k + 1]
  BY HeadTailProperties
<1>4. /\ stack' \in Seq(Frames) /\ Len(stack') = Len(frames) + Len(Tail(stack))
      /\ \A i \in 1 .. Len(frames) + Len(Tail(stack)) :
           stack'[i] = IF i <= Len(frames) THEN frames[i] ELSE Tail(stack)[i - Len(frames)]
  BY <1>3, ConcatProperties DEF GoOn
<1>5. DOMAIN stack' = 1 .. Len(stack')
  BY <1>4, LenProperties
<1>6. \A k \in 1 .. Len(frames) : stack'[k] = frames[k]
  BY <1>1, <1>3, <1>4
<1>7. ASSUME NEW k \in 2 .. Len(stack)
      PROVE  stack'[Len(frames) + k - 1] = stack[k]
  <2>1. /\ Len(frames) + k - 1 \in 1 .. Len(frames) + Len(Tail(stack))
        /\ ~(Len(frames) + k - 1 <= Len(frames))
        /\ (Len(frames) + k - 1) - Len(frames) = k - 1
        /\ k - 1 \in 1 .. Len(Tail(stack)) /\ (k - 1) + 1 = k
    BY <1>1, <1>3
  <2> QED BY <1>3, <1>4, <2>1
<1> QED BY <1>1, <1>2, <1>3, <1>4, <1>5, <1>6, <1>7

\* A step that leaves the lock alone, from a function that does not hold it.
LEMMA LockLeftAlone ==
  ASSUME stack \in Seq(Frames), stack # <<>>, NEW frames \in Seq(Frames), GoOn(frames),
         timerLock' = timerLock, Held,
         Head(stack).do \notin Locking,
         \A k \in 1 .. Len(frames) : frames[k].do \notin Locking,
         Head(stack).do \in {"update", "iret"} => frames = <<>> \/ ~timerLock
  PROVE  Held'
<1>0. /\ Len(stack) \in Nat \ {0} /\ Len(frames) \in Nat /\ Head(stack) = stack[1]
      /\ DOMAIN stack = 1 .. Len(stack) /\ DOMAIN stack' = 1 .. Len(stack')
      /\ Len(stack') = Len(frames) + Len(stack) - 1
  BY GoOnFacts
<1>above. \A k \in 1 .. Len(frames) : stack'[k] = frames[k]
  BY GoOnFacts
<1>below. \A k \in 2 .. Len(stack) : stack'[Len(frames) + k - 1] = stack[k]
  BY GoOnFacts
<1>1. CASE timerLock
  <2>1. PICK n \in DOMAIN stack : stack[n].do \in Locking
    BY <1>1 DEF Held
  <2>2. n \in 2 .. Len(stack) /\ stack[1].do \in {"update", "iret"}
    BY <1>0, <2>1 DEF Held
  <2>3. frames = <<>> /\ Len(frames) = 0
    BY <1>0, <1>1, <2>2
  <2>4. Len(stack') = Len(stack) - 1
    BY <1>0, <2>3
  <2>5. ASSUME NEW k \in 2 .. Len(stack) PROVE stack'[k - 1] = stack[k]
    <3>1. Len(frames) + k - 1 = k - 1
      BY <1>0, <2>3
    <3> QED BY <1>below, <3>1
  <2>6. n - 1 \in DOMAIN stack' /\ stack'[n - 1].do \in Locking
    BY <1>0, <2>1, <2>2, <2>4, <2>5
  <2>7. ASSUME NEW m \in DOMAIN stack', stack'[m].do \in Locking, NEW k \in 1 .. m - 1
        PROVE  stack'[k].do \in {"update", "iret"}
    <3>1. m + 1 \in 2 .. Len(stack) /\ k + 1 \in 2 .. Len(stack) /\ k + 1 \in 1 .. (m + 1) - 1
          /\ (m + 1) - 1 = m /\ (k + 1) - 1 = k
      BY <1>0, <2>4, <2>7
    <3>2. stack'[m] = stack[m + 1] /\ stack'[k] = stack[k + 1]
      BY <2>5, <3>1
    <3>3. m + 1 \in DOMAIN stack /\ stack[m + 1].do \in Locking
      BY <1>0, <2>7, <3>1, <3>2
    <3>4. stack[k + 1].do \in {"update", "iret"}
      BY <3>1, <3>3 DEF Held
    <3> QED BY <3>2, <3>4
  <2> QED BY <1>1, <2>6, <2>7 DEF Held
<1>2. CASE ~timerLock
  <2>1. \A n \in 1 .. Len(stack) : stack[n].do \notin Locking
    BY <1>0, <1>2 DEF Held
  <2>2. ASSUME NEW m \in DOMAIN stack' PROVE stack'[m].do \notin Locking
    <3>1. CASE m \in 1 .. Len(frames)
      BY <1>above, <3>1
    <3>2. CASE m \notin 1 .. Len(frames)
      <4>1. m - Len(frames) + 1 \in 2 .. Len(stack)
            /\ Len(frames) + (m - Len(frames) + 1) - 1 = m
        BY <1>0, <3>2
      <4>2. stack'[m] = stack[m - Len(frames) + 1]
        BY <1>below, <4>1
      <4> QED BY <1>0, <2>1, <4>1, <4>2
    <3> QED BY <3>1, <3>2
  <2> QED BY <1>2, <2>2 DEF Held
<1> QED BY <1>1, <1>2

\* Below a function that is not part of an interrupt nothing holds the lock.
LEMMA NoneBelow ==
  ASSUME stack \in Seq(Frames), stack # <<>>, Held, Head(stack).do \notin {"update", "iret"}
  PROVE  /\ \A k \in 2 .. Len(stack) : stack[k].do \notin Locking
         /\ timerLock <=> Head(stack).do \in Locking
<1>1. Len(stack) \in Nat \ {0} /\ DOMAIN stack = 1 .. Len(stack) /\ Head(stack) = stack[1]
  BY LenProperties, EmptySeq
<1>2. ASSUME NEW k \in 2 .. Len(stack), stack[k].do \in Locking PROVE FALSE
  <2>1. k \in DOMAIN stack /\ 1 \in 1 .. k - 1
    BY <1>1
  <2> QED BY <1>1, <1>2, <2>1 DEF Held
<1>3. timerLock <=> Head(stack).do \in Locking
  <2>1. \A n \in DOMAIN stack : stack[n].do \in Locking => n = 1
    BY <1>1, <1>2
  <2>2. 1 \in DOMAIN stack
    BY <1>1
  <2> QED BY <1>1, <2>1, <2>2 DEF Held
<1> QED BY <1>2, <1>3

LEMMA Shifted ==
  ASSUME NEW m \in Nat, NEW a \in Nat, NEW b \in Nat \ {0}, m > a, m <= a + b - 1
  PROVE  m - a + 1 \in 2 .. b /\ a + (m - a + 1) - 1 = m
OBVIOUS

\* A step that takes or releases the lock, or that has nothing to do with it.
LEMMA LockSet ==
  ASSUME stack \in Seq(Frames), stack # <<>>, NEW frames \in Seq(Frames), GoOn(frames),
         Held, Head(stack).do \notin {"update", "iret"},
         \A k \in 1 .. Len(frames) : frames[k].do \in Locking => k = 1 /\ timerLock',
         timerLock' => Len(frames) # 0 /\ frames[1].do \in Locking
  PROVE  Held'
<1>0. /\ Len(stack) \in Nat \ {0} /\ Len(frames) \in Nat
      /\ DOMAIN stack' = 1 .. Len(stack') /\ Len(stack') = Len(frames) + Len(stack) - 1
  BY GoOnFacts
<1>above. \A k \in 1 .. Len(frames) : stack'[k] = frames[k]
  BY GoOnFacts
<1>below. \A k \in 2 .. Len(stack) : stack'[Len(frames) + k - 1] = stack[k]
  BY GoOnFacts
<1>1. ASSUME NEW m \in DOMAIN stack', stack'[m].do \in Locking
      PROVE  m = 1 /\ timerLock'
  <2>1. CASE m \in 1 .. Len(frames)
    BY <1>1, <1>above, <2>1
  <2>2. CASE m \notin 1 .. Len(frames)
    <3>0. m \in Nat /\ m > Len(frames) /\ m <= Len(frames) + Len(stack) - 1
      BY <1>0, <2>2
    <3>1. m - Len(frames) + 1 \in 2 .. Len(stack) /\ Len(frames) + (m - Len(frames) + 1) - 1 = m
      BY <1>0, <3>0, Shifted
    <3>2. stack'[m] = stack[m - Len(frames) + 1]
      BY <1>below, <3>1
    <3> QED BY <1>1, <3>1, <3>2, NoneBelow
  <2> QED BY <2>1, <2>2
<1>2. ASSUME timerLock' PROVE \E n \in DOMAIN stack' : stack'[n].do \in Locking
  <2>1. 1 \in 1 .. Len(frames) /\ 1 \in DOMAIN stack'
    BY <1>0, <1>2
  <2> QED BY <1>2, <1>above, <2>1
<1>3. \A k \in 1 .. 1 - 1 : FALSE
  OBVIOUS
<1> QED BY <1>1, <1>2, <1>3 DEF Held

\* A tick interrupt finds the stack as it is.
LEMMA LockInterrupted ==
  ASSUME stack \in Seq(Frames), Held, timerLock' = timerLock,
         stack' = <<Update, Frame("iret", None, 0)>> \o stack
  PROVE  stack' \in Seq(Frames) /\ Held'
<1> DEFINE above == <<Update, Frame("iret", None, 0)>>
<1>1. /\ above \in Seq(Frames) /\ Len(above) = 2
      /\ above[1].do = "update" /\ above[2].do = "iret"
  BY FrameTypes DEF Update, Frame
<1> HIDE DEF above
<1>2. /\ stack' \in Seq(Frames) /\ Len(stack') = 2 + Len(stack)
      /\ \A i \in 1 .. 2 + Len(stack) : stack'[i] = IF i <= 2 THEN above[i] ELSE stack[i - 2]
  <2>1. stack' = above \o stack
    BY DEF above
  <2> QED BY <1>1, <2>1, ConcatProperties
<1>3. /\ DOMAIN stack = 1 .. Len(stack) /\ Len(stack) \in Nat
      /\ DOMAIN stack' = 1 .. Len(stack')
  BY <1>2, LenProperties
<1>4. ASSUME NEW m \in DOMAIN stack', stack'[m].do \in Locking
      PROVE  /\ m - 2 \in DOMAIN stack /\ stack[m - 2].do \in Locking
             /\ \A k \in 1 .. m - 1 : stack'[k].do \in {"update", "iret"}
  <2>1. m > 2
    <3> SUFFICES ASSUME m <= 2 PROVE FALSE
      BY <1>2, <1>3
    <3>1. stack'[m] = above[m] /\ (m = 1 \/ m = 2)
      BY <1>2, <1>3
    <3> QED BY <1>1, <1>4, <3>1 DEF Locking
  <2>2. m - 2 \in DOMAIN stack /\ stack[m - 2] = stack'[m]
    BY <1>2, <1>3, <2>1
  <2>3. ASSUME NEW k \in 1 .. m - 1 PROVE stack'[k].do \in {"update", "iret"}
    <3>1. CASE k <= 2
      <4>1. stack'[k] = above[k] /\ (k = 1 \/ k = 2)
        BY <1>2, <1>3, <3>1
      <4> QED BY <1>1, <4>1
    <3>2. CASE k > 2
      <4>1. stack'[k] = stack[k - 2] /\ k - 2 \in 1 .. (m - 2) - 1
        BY <1>2, <1>3, <3>2
      <4> QED BY <1>4, <2>2, <4>1 DEF Held
    <3> QED BY <1>3, <3>1, <3>2
  <2> QED BY <1>4, <2>2, <2>3
<1>5. ASSUME NEW n \in DOMAIN stack, stack[n].do \in Locking
      PROVE  n + 2 \in DOMAIN stack' /\ stack'[n + 2].do \in Locking
  <2>1. n + 2 \in DOMAIN stack' /\ ~(n + 2 <= 2) /\ (n + 2) - 2 = n
    BY <1>2, <1>3
  <2> QED BY <1>2, <1>3, <1>5, <2>1
<1> QED BY <1>2, <1>4, <1>5 DEF Held

-----------------------------------------------------------------------------
(* Steps that change the stack.                                            *)

\* A frame goes on with others; what it does to the rest is typed.
LEMMA GoOnStep ==
  ASSUME IInv, ~At("wild"), stack # <<>>, NEW frames \in Seq(Frames), GoOn(frames),
         timer' \in Fields, next' \in Links, timerList' \in Timers \cup {None},
         timerLock' \in BOOLEAN, now' \in Nat, due' \in [Timers -> Int], Held'
  PROVE  IInv'
<1>1. stack' \in Seq(Frames)
  BY GoOnFacts DEF IInv, TypeOK
<1>2. TypeOK'
  BY <1>1, Zenon DEF TypeOK, Fields, Links
<1> QED BY <1>2 DEF IInv, LockBooks, Held

LEMMA TopFacts ==
  ASSUME IInv, NEW do, At(do), do # "wild"
  PROVE  /\ ~At("wild") /\ stack \in Seq(Frames) /\ stack # <<>> /\ Held
         /\ Head(stack) = Top /\ Top.do = do
         /\ Top.t \in Timers \cup {None} /\ Top.time \in Nat /\ Top.calls \in Seq(Op)
         /\ do \in OfATimer => Top.t \in Timers
<1>1. stack \in Seq(Frames) /\ stack # <<>> /\ Top.do = do /\ ~At("wild")
  BY DEF IInv, TypeOK, At, Top
<1>2. Top \in Frames
  BY <1>1, HeadTailProperties DEF Top
<1>3. Held
  BY <1>1 DEF IInv, LockBooks, Held
<1> QED BY <1>1, <1>2, <1>3 DEF Frames, Top

\* The step of a function that does not hold the lock and leaves it alone.
LEMMA UnlockedStep ==
  ASSUME IInv, NEW do, At(do), do \notin Locking \cup {"wild"},
         NEW frames \in Seq(Frames), GoOn(frames),
         \A k \in 1 .. Len(frames) : frames[k].do \notin Locking,
         do \in {"update", "iret"} => frames = <<>> \/ ~timerLock,
         timer' \in Fields, next' \in Links, timerList' \in Timers \cup {None},
         timerLock' = timerLock, now' = now, due' \in [Timers -> Int]
  PROVE  IInv'
<1>1. /\ ~At("wild") /\ stack \in Seq(Frames) /\ stack # <<>> /\ Held
      /\ Head(stack).do = do
  BY TopFacts
<1>2. Held'
  BY <1>1, LockLeftAlone
<1>3. timerLock' \in BOOLEAN /\ now' \in Nat
  BY DEF IInv, TypeOK
<1> QED BY <1>1, <1>2, <1>3, GoOnStep

-----------------------------------------------------------------------------
(* The types of what the functions compute.                                *)

LEMMA Types ==
  ASSUME IInv
  PROVE  /\ timer \in Fields /\ next \in Links /\ timerList \in Timers \cup {None}
         /\ timerLock \in BOOLEAN /\ now \in Nat /\ due \in [Timers -> Int]
         /\ system_ticks \in Nat /\ List \in Seq(Timers)
<1>1. /\ timer \in Fields /\ next \in Links /\ timerList \in Timers \cup {None}
      /\ timerLock \in BOOLEAN /\ now \in Nat /\ due \in [Timers -> Int]
  BY DEF IInv, TypeOK, Fields, Links
<1>2. system_ticks \in Nat
  BY <1>1, AlarmAssumption DEF system_ticks
<1> QED BY <1>1, <1>2, ListType

LEMMA OverflowTypes ==
  ASSUME IInv
  PROVE  /\ timer_check_overflow.missed \in Seq(Timers)
         /\ timer_check_overflow.rest \in Seq(Timers)
         /\ timer_check_overflow.timer \in Fields
<1>1. List \in Seq(Timers) /\ timer \in Fields /\ <<>> \in Seq(Timers)
  BY Types
<1> DEFINE K == {k \in DOMAIN List : ~(timer[List[k]].expiry < Wrap)}
<1>2. /\ Before(List, InOldEpoch) \in Seq(Timers)
      /\ From(List, InOldEpoch) \in Seq(Timers)
  <2>1. Before(List, InOldEpoch) = SubSeq(List, 1, Min(K \cup {Len(List) + 1}) - 1)
    BY Zenon DEF Before, InOldEpoch
  <2>2. From(List, InOldEpoch) = SubSeq(List, Len(Before(List, InOldEpoch)) + 1, Len(List))
    BY Zenon DEF From
  <2>3. K \in SUBSET DOMAIN List
    OBVIOUS
  <2> HIDE DEF K
  <2> QED BY <1>1, <2>1, <2>2, <2>3, CutFacts
<1>3. [t \in Timers |-> IF Contains(From(List, InOldEpoch), t)
                        THEN [timer[t] EXCEPT !.expiry = @ - Wrap] ELSE timer[t]] \in Fields
  <2>1. ASSUME NEW t \in Timers
        PROVE  /\ timer[t] \in [expiry: Int, running: BOOLEAN, hasExpired: BOOLEAN]
               /\ [timer[t] EXCEPT !.expiry = @ - Wrap]
                    \in [expiry: Int, running: BOOLEAN, hasExpired: BOOLEAN]
    <3>1. timer[t] \in [expiry: Int, running: BOOLEAN, hasExpired: BOOLEAN]
      BY <1>1 DEF Fields
    <3>2. timer[t].expiry - Wrap \in Int
      BY <3>1, AlarmAssumption
    <3> QED BY <3>1, <3>2, Zenon
  <2> QED BY <2>1, Zenon DEF Fields
<1> QED BY <1>1, <1>2, <1>3, Zenon DEF timer_check_overflow

LEMMA ShortSeqs ==
  /\ <<>> \in Seq(Frames) /\ Len(<<>>) = 0
  /\ \A f \in Frames : <<f>> \in Seq(Frames) /\ Len(<<f>>) = 1 /\ <<f>>[1] = f
  /\ \A f, g \in Frames : /\ <<f, g>> \in Seq(Frames) /\ Len(<<f, g>>) = 2
                          /\ <<f, g>>[1] = f /\ <<f, g>>[2] = g
  /\ \A f, g, h \in Frames :
       /\ <<f, g, h>> \in Seq(Frames) /\ Len(<<f, g, h>>) = 3
       /\ <<f, g, h>>[1] = f /\ <<f, g, h>>[2] = g /\ <<f, g, h>>[3] = h
OBVIOUS

-----------------------------------------------------------------------------
(* The steps.                                                              *)

\* The data that a step leaves alone.
Rest == UNCHANGED <<timer, next, timerList, due>>

LEMMA RestTypes ==
  ASSUME IInv, Rest
  PROVE  /\ timer' \in Fields /\ next' \in Links /\ timerList' \in Timers \cup {None}
         /\ due' \in [Timers -> Int]
BY Types DEF Rest

\* Functions that return.
LEMMA ReturnStep ==
  ASSUME IInv, NEW do, At(do), do \notin Locking \cup {"wild"}, GoOn(<<>>), Rest,
         UNCHANGED <<timerLock, now>>
  PROVE  IInv'
<1>1. \A k \in 1 .. Len(<<>>) : <<>>[k].do \notin Locking
  BY ShortSeqs
<1> QED BY <1>1, ShortSeqs, RestTypes, UnlockedStep

LEMMA UpdateStep == ASSUME IInv, timer_update PROVE IInv'
<1> DEFINE o == timer_check_overflow
           Expired(t) == o.timer[t].expiry <= system_ticks
           chain == Reverse(o.missed \o Before(o.rest, Expired))
           left == From(o.rest, Expired)
           K == {k \in DOMAIN o.rest : ~(o.timer[o.rest[k]].expiry <= system_ticks)}
<1>1. /\ timer' = o.timer /\ next' = Linked(next, chain) /\ timerList' = HeadOf(left)
      /\ GoOn(<<Trigger(HeadOf(chain))>>)
  BY Zenon DEF timer_update
<1>2. At("update") /\ ~timerLock /\ UNCHANGED <<timerLock, due, now>>
  BY DEF timer_update
<1>3. Before(o.rest, Expired) = SubSeq(o.rest, 1, Min(K \cup {Len(o.rest) + 1}) - 1)
  BY Zenon DEF Before
<1>4. left = SubSeq(o.rest, Len(Before(o.rest, Expired)) + 1, Len(o.rest))
  BY Zenon DEF From
<1>5. o.missed \in Seq(Timers) /\ o.rest \in Seq(Timers) /\ o.timer \in Fields
  BY OverflowTypes
<1>6. K \in SUBSET DOMAIN o.rest
  OBVIOUS
<1> HIDE DEF o, K
<1>7. Before(o.rest, Expired) \in Seq(Timers) /\ left \in Seq(Timers)
  BY <1>3, <1>4, <1>5, <1>6, CutFacts
<1>8. chain \in Seq(Timers)
  BY <1>5, <1>7, ConcatProperties, ReverseType
<1> HIDE DEF chain, left
<1>9. /\ next' \in Links /\ timerList' \in Timers \cup {None}
      /\ Trigger(HeadOf(chain)) \in Frames
  BY <1>1, <1>7, <1>8, Types, LinkedType, HeadOfType, FrameTypes
<1>10. Trigger(HeadOf(chain)).do \notin Locking
  BY DEF Trigger, Frame, Locking
<1> DEFINE frames == <<Trigger(HeadOf(chain))>>
<1>11. frames \in Seq(Frames) /\ \A k \in 1 .. Len(frames) : frames[k].do \notin Locking
  BY <1>9, <1>10, ShortSeqs
<1>12. due' \in [Timers -> Int] /\ "update" \notin Locking \cup {"wild"}
  BY <1>2, Types DEF Locking
<1> HIDE DEF frames
<1>13. GoOn(frames)
  BY <1>1 DEF frames
<1> QED BY <1>1, <1>2, <1>5, <1>9, <1>11, <1>12, <1>13, UnlockedStep

LEMMA TriggerStep == ASSUME IInv, timer_trigger PROVE IInv'
<1> DEFINE frames == <<Calls(Callback[Top.t]), Frame("called", Top.t, 0)>>
<1>1. /\ At("trigger") /\ Top.t \in Timers /\ GoOn(frames)
      /\ UNCHANGED <<next, timerList, timerLock, now>>
  BY TopFacts DEF timer_trigger, clock
<1>2. Calls(Callback[Top.t]) \in Frames /\ Frame("called", Top.t, 0) \in Frames
  BY <1>1, CallsAssumption, FrameTypes DEF OfATimer
<1>3. Calls(Callback[Top.t]).do \notin Locking /\ Frame("called", Top.t, 0).do \notin Locking
  BY DEF Calls, Frame, Locking
<1>4. frames \in Seq(Frames) /\ \A k \in 1 .. Len(frames) : frames[k].do \notin Locking
  BY <1>2, <1>3, ShortSeqs
<1>5. timer' \in Fields /\ due' \in [Timers -> Int]
  <2>1. timer' = [timer EXCEPT ![Top.t].running = FALSE, ![Top.t].hasExpired = TRUE]
    BY DEF timer_trigger
  <2>2. timer' \in Fields
    BY <1>1, <2>1, Types, Zenon DEF Fields
  <2>3. due' = [due EXCEPT ![Top.t] = 0]
    BY DEF timer_trigger
  <2> QED BY <1>1, <2>2, <2>3, Types
<1>6. next' \in Links /\ timerList' \in Timers \cup {None}
  BY <1>1, Types
<1> HIDE DEF frames
<1> QED BY <1>1, <1>4, <1>5, <1>6, UnlockedStep DEF Locking

LEMMA NextStep == ASSUME IInv, NextInChain PROVE IInv'
<1> DEFINE frames == <<Trigger(next[Top.t])>>
<1>1. /\ At("called") /\ Top.t \in Timers /\ GoOn(frames) /\ Rest
      /\ UNCHANGED <<timerLock, now>>
  BY TopFacts DEF NextInChain, OfATimer, clock, Rest
<1>2. Trigger(next[Top.t]) \in Frames /\ Trigger(next[Top.t]).do \notin Locking
  BY <1>1, Types, FrameTypes DEF Links, Trigger, Frame, Locking
<1>3. frames \in Seq(Frames) /\ \A k \in 1 .. Len(frames) : frames[k].do \notin Locking
  BY <1>2, ShortSeqs
<1> HIDE DEF frames
<1> QED BY <1>1, <1>3, RestTypes, UnlockedStep DEF Locking

LEMMA CreateStep == ASSUME IInv, Create PROVE IInv'
<1>1. /\ At("create") /\ Top.t \in Timers /\ GoOn(<<>>)
      /\ UNCHANGED <<timerList, timerLock, now>>
  BY TopFacts DEF Create, OfATimer, clock
<1>2. Fresh(Top.t) \in [expiry: Int, running: BOOLEAN, hasExpired: BOOLEAN]
  BY <1>1, IntervalAssumption DEF Fresh
<1>3. timer' \in Fields /\ next' \in Links /\ due' \in [Timers -> Int]
  BY <1>1, <1>2, Types DEF Create, Fields, Links
<1>4. \A k \in 1 .. Len(<<>>) : <<>>[k].do \notin Locking
  BY ShortSeqs
<1>5. timerList' \in Timers \cup {None} /\ "create" \notin Locking \cup {"wild", "update", "iret"}
  BY <1>1, Types DEF Locking
<1> QED BY <1>1, <1>3, <1>4, <1>5, ShortSeqs, UnlockedStep

LEMMA StoppedStep == ASSUME IInv, Stopped PROVE IInv'
<1> DEFINE t == Top.t
           ticks == IF Wrap = 0 THEN Top.time ELSE Top.time % Wrap
<1>1. /\ At("stopped") /\ t \in Timers /\ GoOn(<<>>) /\ Top.time \in Nat
      /\ UNCHANGED <<next, timerList, timerLock, now>>
  BY TopFacts DEF Stopped, OfATimer, clock
<1>2. ticks \in Int
  BY <1>1, AlarmAssumption
<1>3. timer' = IF timer[t].running
               THEN [timer EXCEPT ![t].running = FALSE, ![t].expiry = @ - ticks] ELSE timer
  BY Zenon DEF Stopped
<1> HIDE DEF t, ticks
<1>4. timer[t].expiry - ticks \in Int
  BY <1>1, <1>2, Types DEF Fields
<1>5. timer' \in Fields
  <2>1. CASE timer[t].running
    BY <1>1, <1>3, <1>4, <2>1, Types DEF Fields
  <2>2. CASE ~timer[t].running
    BY <1>3, <2>2, Types
  <2> QED BY <2>1, <2>2
<1>6. due' \in [Timers -> Int] /\ next' \in Links /\ timerList' \in Timers \cup {None}
  <2>1. due' = [due EXCEPT ![Top.t] = 0]
    BY DEF Stopped
  <2>2. due' \in [Timers -> Int]
    BY <2>1, Types, 0 \in Int, Zenon
  <2>3. next' \in Links /\ timerList' \in Timers \cup {None}
    BY <1>1, Types, Zenon
  <2> QED BY <2>2, <2>3
<1>7. \A k \in 1 .. Len(<<>>) : <<>>[k].do \notin Locking
  BY ShortSeqs
<1> QED BY <1>1, <1>5, <1>6, <1>7, ShortSeqs, UnlockedStep DEF Locking

LEMMA CallStep == ASSUME IInv, Call PROVE IInv'
<1>1. At("calls") /\ Rest /\ UNCHANGED <<timerLock, now>> /\ Top.calls \in Seq(Op) /\ now \in Nat
  BY TopFacts, Types DEF Call, clock, Rest
<1>2. CASE Top.calls = <<>>
  BY <1>1, <1>2, ReturnStep DEF Call, Locking
<1>3. CASE Top.calls # <<>>
  <2> DEFINE c == Head(Top.calls)
             rest == Calls(Tail(Top.calls))
             time == IF c.op = "stop" THEN now ELSE 0
  <2>1. c \in Op /\ rest \in Frames /\ rest.do \notin Locking
    BY <1>1, <1>3, HeadTailProperties, FrameTypes DEF Calls, Locking
  <2>2. CASE c.op = "poll"
    <3> DEFINE frames == <<Update, Frame("polled", c.t, now), rest>>
    <3>1. GoOn(frames)
      BY <1>3, <2>2 DEF Call
    <3>2. /\ Update \in Frames /\ Update.do \notin Locking
          /\ Frame("polled", c.t, now) \in Frames /\ Frame("polled", c.t, now).do \notin Locking
      BY <1>1, <2>1, FrameTypes DEF Op, OfATimer, Update, Frame, Locking
    <3> HIDE DEF rest
    <3>3. frames \in Seq(Frames) /\ \A k \in 1 .. Len(frames) : frames[k].do \notin Locking
      BY <2>1, <3>2, ShortSeqs
    <3> HIDE DEF frames
    <3> QED BY <1>1, <3>1, <3>3, RestTypes, UnlockedStep DEF Locking
  <2>3. CASE c.op # "poll"
    <3> DEFINE frames == <<Frame(c.op, c.t, time), rest>>
    <3>1. GoOn(frames)
      BY <1>3, <2>3 DEF Call
    <3>2. Frame(c.op, c.t, time) \in Frames /\ Frame(c.op, c.t, time).do \notin Locking
      <4>1. c.op \in OfATimer /\ c.op \notin Locking /\ c.t \in Timers /\ time \in Nat
        BY <1>1, <2>1, <2>3 DEF Op, OfATimer, Locking
      <4> QED BY <4>1, FrameTypes DEF Frame
    <3> HIDE DEF rest, time
    <3>3. frames \in Seq(Frames) /\ \A k \in 1 .. Len(frames) : frames[k].do \notin Locking
      BY <2>1, <3>2, ShortSeqs
    <3> HIDE DEF frames
    <3> QED BY <1>1, <3>1, <3>3, RestTypes, UnlockedStep DEF Locking
  <2> QED BY <2>2, <2>3
<1> QED BY <1>2, <1>3

\* timer_start and timer_stop find the lock free.
LEMMA LockStep ==
  ASSUME IInv, NEW do \in {"start", "stop"}, At(do), NEW frame \in Frames,
         frame.do \in Locking, Lock(frame)
  PROVE  IInv'
<1>1. /\ ~At("wild") /\ stack \in Seq(Frames) /\ stack # <<>> /\ Held
      /\ Head(stack).do = do
  BY TopFacts
<1>2. ~timerLock
  BY <1>1, NoneBelow DEF Locking
<1>3. /\ timerLock' = TRUE /\ GoOn(<<frame>>) /\ Rest /\ UNCHANGED now
  BY <1>2 DEF Lock, clock, Rest
<1> DEFINE frames == <<frame>>
<1>4. frames \in Seq(Frames) /\ Len(frames) = 1 /\ frames[1] = frame
  BY ShortSeqs
<1>5. GoOn(frames)
  BY <1>3
<1> HIDE DEF frames
<1>6. \A k \in 1 .. Len(frames) : frames[k].do \in Locking => k = 1 /\ timerLock'
  BY <1>3, <1>4
<1>7. Held'
  BY <1>1, <1>3, <1>4, <1>5, <1>6, LockSet
<1>8. timerLock' \in BOOLEAN /\ now' \in Nat
  BY <1>3, Types
<1> QED BY <1>1, <1>3, <1>4, <1>5, <1>7, <1>8, RestTypes, GoOnStep

\* The functions that hold the lock release it.
LEMMA ReleaseStep ==
  ASSUME IInv, NEW do \in Locking, At(do), NEW frames \in Seq(Frames), GoOn(frames),
         \A k \in 1 .. Len(frames) : frames[k].do \notin Locking,
         timer' \in Fields, next' \in Links, timerList' \in Timers \cup {None},
         timerLock' = FALSE, now' = now, due' \in [Timers -> Int]
  PROVE  IInv'
<1>1. /\ ~At("wild") /\ stack \in Seq(Frames) /\ stack # <<>> /\ Held
      /\ Head(stack).do = do
  BY TopFacts DEF Locking
<1>2. Held'
  BY <1>1, LockSet DEF Locking
<1>3. timerLock' \in BOOLEAN /\ now' \in Nat
  BY Types
<1> QED BY <1>1, <1>2, <1>3, GoOnStep

LEMMA InsertStep == ASSUME IInv, Insert PROVE IInv'
<1> DEFINE o == timer_check_overflow
           t == Top.t
           deadline == o.timer[t].expiry + system_ticks
           Earlier(u) == o.timer[u].expiry <= deadline
           missed == Reverse(o.missed)
           list == Before(o.rest, Earlier) \o <<t>> \o From(o.rest, Earlier)
           K == {k \in DOMAIN o.rest : ~(o.timer[o.rest[k]].expiry <= deadline)}
           frames == <<Update, Trigger(HeadOf(missed))>>
<1>1. /\ timer' = [o.timer EXCEPT ![t].expiry = deadline, ![t].running = TRUE]
      /\ next' = Linked(Linked(next, missed), list)
      /\ timerList' = Head(list)
      /\ due' = [due EXCEPT ![t] = now + timer[t].expiry]
      /\ GoOn(frames)
  BY Zenon DEF Insert
<1>2. At("insert") /\ timerLock' = FALSE /\ now' = now /\ t \in Timers
  BY TopFacts DEF Insert, clock, OfATimer
<1>3. Before(o.rest, Earlier) = SubSeq(o.rest, 1, Min(K \cup {Len(o.rest) + 1}) - 1)
  BY Zenon DEF Before
<1>4. From(o.rest, Earlier) = SubSeq(o.rest, Len(Before(o.rest, Earlier)) + 1, Len(o.rest))
  BY Zenon DEF From
<1>5. o.missed \in Seq(Timers) /\ o.rest \in Seq(Timers) /\ o.timer \in Fields
  BY OverflowTypes
<1>6. K \in SUBSET DOMAIN o.rest
  OBVIOUS
<1> HIDE DEF o, K, t
<1>7. Before(o.rest, Earlier) \in Seq(Timers) /\ From(o.rest, Earlier) \in Seq(Timers)
  BY <1>3, <1>4, <1>5, <1>6, CutFacts
<1> DEFINE front == Before(o.rest, Earlier)
           back == From(o.rest, Earlier)
<1>8. list \in Seq(Timers) /\ Head(list) \in Timers /\ missed \in Seq(Timers)
  <2>1. front \in Seq(Timers) /\ back \in Seq(Timers) /\ <<t>> \in Seq(Timers) /\ Len(<<t>>) = 1
        /\ Len(front) \in Nat /\ Len(back) \in Nat
    BY <1>2, <1>7, LenProperties
  <2>2. list = front \o <<t>> \o back
    OBVIOUS
  <2> HIDE DEF front, back, list
  <2>3. front \o <<t>> \in Seq(Timers) /\ Len(front \o <<t>>) = Len(front) + 1
    BY <2>1, ConcatProperties
  <2>4. list \in Seq(Timers) /\ Len(list) = Len(front) + 1 + Len(back)
    BY <2>1, <2>2, <2>3, ConcatProperties
  <2>5. list # <<>>
    BY <2>1, <2>4
  <2>6. missed \in Seq(Timers)
    BY <1>5, ReverseType
  <2> QED BY <2>4, <2>5, <2>6, HeadTailProperties
<1>9. deadline \in Int /\ now + timer[t].expiry \in Int
  BY <1>2, <1>5, Types DEF Fields
<1>10. Update \in Frames /\ Trigger(HeadOf(missed)) \in Frames
  BY <1>8, HeadOfType, FrameTypes
<1>11. Update.do \notin Locking /\ Trigger(HeadOf(missed)).do \notin Locking
  BY DEF Update, Trigger, Frame, Locking
<1>12. next' \in Links
  BY <1>1, <1>8, Types, LinkedType
<1> HIDE DEF list, missed, deadline
<1>13. timer' \in Fields /\ due' \in [Timers -> Int] /\ timerList' \in Timers \cup {None}
  <2>1. timer' \in Fields
    BY <1>1, <1>2, <1>5, <1>9, Zenon DEF Fields
  <2>2. due' \in [Timers -> Int]
    BY <1>1, <1>9, Types, Zenon
  <2> QED BY <1>1, <1>8, <2>1, <2>2
<1>14. frames \in Seq(Frames) /\ \A k \in 1 .. Len(frames) : frames[k].do \notin Locking
  BY <1>10, <1>11, ShortSeqs
<1> HIDE DEF frames
<1> QED BY <1>1, <1>2, <1>12, <1>13, <1>14, ReleaseStep DEF Locking

LEMMA InsertIgnoredStep == ASSUME IInv, InsertIgnored PROVE IInv'
<1> DEFINE frames == <<Update>>
<1>1. At("insert") /\ timerLock' = FALSE /\ now' = now /\ GoOn(frames) /\ Rest
  BY DEF InsertIgnored, clock, Rest
<1>2. frames \in Seq(Frames) /\ \A k \in 1 .. Len(frames) : frames[k].do \notin Locking
  BY FrameTypes, ShortSeqs DEF Update, Frame, Locking
<1> HIDE DEF frames
<1> QED BY <1>1, <1>2, RestTypes, ReleaseStep DEF Locking

LEMMA UnlinkStep == ASSUME IInv, Unlink PROVE IInv'
<1> DEFINE list == RemoveFirst(List, Top.t)
           frames == <<Update, Frame("stopped", Top.t, Top.time)>>
<1>1. /\ At("unlink") /\ timerLock' = FALSE /\ now' = now /\ GoOn(frames)
      /\ UNCHANGED <<timer, due>>
      /\ timerList' = HeadOf(list) /\ next' = Linked(next, list)
  BY DEF Unlink, clock
<1>2. Top.t \in Timers /\ Top.time \in Nat
  BY <1>1, TopFacts DEF OfATimer
<1>3. list \in Seq(Timers)
  BY Types, RemoveFirstType
<1> HIDE DEF list
<1>4. /\ timer' \in Fields /\ due' \in [Timers -> Int]
      /\ next' \in Links /\ timerList' \in Timers \cup {None}
  BY <1>1, <1>3, Types, LinkedType, HeadOfType
<1>5. /\ Update \in Frames /\ Update.do \notin Locking
      /\ Frame("stopped", Top.t, Top.time) \in Frames
      /\ Frame("stopped", Top.t, Top.time).do \notin Locking
  BY <1>2, FrameTypes DEF Update, Frame, Locking, OfATimer
<1>6. frames \in Seq(Frames) /\ \A k \in 1 .. Len(frames) : frames[k].do \notin Locking
  BY <1>5, ShortSeqs
<1> HIDE DEF frames
<1> QED BY <1>1, <1>4, <1>6, ReleaseStep DEF Locking

\* Steps that are not those of the innermost function.
LEMMA OtherStep ==
  ASSUME IInv, stack' \in Seq(Frames), Rest, timerLock' = timerLock, now' \in Nat,
         At("wild")' \/ Held'
  PROVE  IInv'
<1>1. TypeOK'
  BY RestTypes, Types, Zenon DEF TypeOK, Fields, Links
<1> QED BY <1>1 DEF IInv, LockBooks, Held

LEMMA InterruptStep == ASSUME IInv, tick_handler PROVE IInv'
<1>1. stack \in Seq(Frames) /\ now \in Nat
  BY DEF IInv, TypeOK
<1>2. ~At("wild")
  BY DEF tick_handler, Halted, At
<1>3. Held
  BY <1>2 DEF IInv, LockBooks, Held
<1>4. /\ stack' = <<Update, Frame("iret", None, 0)>> \o stack
      /\ Rest /\ timerLock' = timerLock /\ now' = now
  BY DEF tick_handler, Rest
<1> QED BY <1>1, <1>3, <1>4, LockInterrupted, OtherStep

LEMMA HandleStep == ASSUME IInv, NEW ops \in Handlers, Handle(ops) PROVE IInv'
<1>1. /\ stack = <<>> /\ stack' = <<Calls(ops)>> /\ Rest /\ timerLock' = timerLock
      /\ now' = now /\ now \in Nat
  BY Types DEF Handle, Rest, clock
<1>2. Calls(ops) \in Frames /\ Calls(ops).do \notin Locking
  BY CallsAssumption, FrameTypes DEF Calls, Locking
<1>3. stack' \in Seq(Frames) /\ DOMAIN stack' = 1 .. 1 /\ stack'[1].do \notin Locking
  BY <1>1, <1>2
<1>4. ~timerLock
  BY <1>1 DEF Held, IInv, LockBooks, At
<1>5. Held'
  BY <1>1, <1>3, <1>4 DEF Held
<1> QED BY <1>1, <1>3, <1>5, OtherStep

LEMMA WildStep == ASSUME IInv, WildRead PROVE IInv'
<1>1. /\ stack' = <<Frame("wild", None, 0)>> /\ Rest /\ timerLock' = timerLock
      /\ now' = now /\ now \in Nat
  BY Types DEF WildRead, Rest, clock
<1>2. stack' \in Seq(Frames) /\ At("wild")'
  BY <1>1, FrameTypes DEF At, Frame
<1> QED BY <1>1, <1>2, OtherStep

LEMMA TimeStep == ASSUME IInv, Tick PROVE IInv'
<1>1. Rest /\ UNCHANGED <<timerLock, stack>> /\ now' \in Nat
  BY Types DEF Tick, Rest
<1>2. At("wild") \/ Held
  BY DEF IInv, LockBooks, Held
<1>3. At("wild")' \/ Held'
  BY <1>1, <1>2 DEF At, Held
<1>4. stack' \in Seq(Frames)
  BY <1>1 DEF IInv, TypeOK
<1> QED BY <1>1, <1>3, <1>4, OtherStep

LEMMA StutterStep == ASSUME IInv, UNCHANGED vars PROVE IInv'
<1>1. TypeOK'
  BY DEF IInv, TypeOK, vars, clock
<1>2. LockBooks'
  BY DEF Held, IInv, LockBooks, At, vars
<1> QED BY <1>1, <1>2 DEF IInv

LEMMA StepInvariant == ASSUME IInv, [Next]_vars PROVE IInv'
<1>1. CASE UpdateLocked \/ EndOfChain \/ Polled \/ ReturnFromInterrupt
  <2>1. /\ \E do \in {"update", "trigger", "polled", "iret"} : At(do)
        /\ GoOn(<<>>) /\ Rest /\ UNCHANGED <<timerLock, now>>
    BY <1>1 DEF UpdateLocked, EndOfChain, Polled, ReturnFromInterrupt, Rest, clock
  <2> QED BY <2>1, ReturnStep DEF Locking
<1>2. CASE timer_start \/ timer_stop
  <2>1. ASSUME timer_start PROVE IInv'
    <3>1. At("start") /\ Lock(Frame("insert", Top.t, 0)) /\ Top.t \in Timers
      BY <2>1, TopFacts DEF timer_start, OfATimer
    <3>2. Frame("insert", Top.t, 0) \in Frames /\ Frame("insert", Top.t, 0).do \in Locking
      BY <3>1, FrameTypes DEF OfATimer, Frame, Locking
    <3> QED BY <3>1, <3>2, LockStep
  <2>2. ASSUME timer_stop PROVE IInv'
    <3>1. /\ At("stop") /\ Lock(Frame("unlink", Top.t, Top.time)) /\ Top.t \in Timers
          /\ Top.time \in Nat
      BY <2>2, TopFacts DEF timer_stop, OfATimer
    <3>2. /\ Frame("unlink", Top.t, Top.time) \in Frames
          /\ Frame("unlink", Top.t, Top.time).do \in Locking
      BY <3>1, FrameTypes DEF OfATimer, Frame, Locking
    <3> QED BY <3>1, <3>2, LockStep
  <2> QED BY <1>2, <2>1, <2>2
<1>3. CASE \E ops \in Handlers : Handle(ops)
  BY <1>3, HandleStep
<1> QED BY <1>1, <1>2, <1>3, UpdateStep, TriggerStep, NextStep, CreateStep, StoppedStep, CallStep,
           InsertStep, InsertIgnoredStep, UnlinkStep, InterruptStep, WildStep, TimeStep,
           StutterStep
        DEF Next, Step

LEMMA InitInvariant == ASSUME Init PROVE IInv
<1>1. \A t \in Timers : Fresh(t) \in [expiry: Int, running: BOOLEAN, hasExpired: BOOLEAN]
  BY IntervalAssumption DEF Fresh
<1>2. TypeOK
  <2>1. stack \in Seq(Frames) /\ 0 \in Int /\ 0 \in Nat /\ FALSE \in BOOLEAN
    BY DEF Init
  <2> QED BY <1>1, <2>1, Zenon DEF Init, TypeOK
<1>3. LockBooks
  BY DEF Held, Init, LockBooks
<1> QED BY <1>2, <1>3 DEF IInv

-----------------------------------------------------------------------------
(* Expiries.                                                               *)

\* Only a start makes a timer run, and it runs for its interval from then.
LEMMA ExpiryKept ==
  ASSUME Wrap = 0, IInv, ExpiryBooks, [Next]_vars
  PROVE  ExpiryBooks'
<1>0. /\ timer \in Fields /\ due \in [Timers -> Int]
      /\ \A t \in Timers : timer[t].running => due[t] = timer[t].expiry
  BY Types DEF ExpiryBooks
<1>o. timer_check_overflow.timer = timer /\ system_ticks = now
  BY DEF timer_check_overflow, Overflow, system_ticks
<1>1. CASE UNCHANGED <<timer, due>>
  BY <1>0, <1>1 DEF ExpiryBooks
\* It is enough to look at the timer of the step.
<1>one. ASSUME NEW t, UNCHANGED <<timer>> \/ timer' = [timer EXCEPT ![t] = timer'[t]],
               due' = [due EXCEPT ![t] = due'[t]], timer' \in Fields,
               t \in Timers /\ timer'[t].running => due'[t] = timer'[t].expiry
        PROVE  ExpiryBooks'
  <2> SUFFICES ASSUME NEW u \in Timers, timer'[u].running
               PROVE  due'[u] = timer'[u].expiry
    BY DEF ExpiryBooks
  <2>1. CASE u = t
    BY <1>one, <2>1
  <2>2. CASE u # t
    <3>1. timer'[u] = timer[u] /\ due'[u] = due[u]
      BY <1>0, <1>one, <2>2 DEF Fields
    <3> QED BY <1>0, <3>1
  <2> QED BY <2>1, <2>2
<1>typed. timer' \in Fields
  BY StepInvariant DEF IInv, TypeOK, Fields
<1>2. CASE timer_update
  BY <1>0, <1>o, <1>2, <1>1, Zenon DEF timer_update
<1>3. CASE timer_trigger
  <2> DEFINE t == Top.t
  <2>1. timer' = [timer EXCEPT ![t].running = FALSE, ![t].hasExpired = TRUE]
        /\ due' = [due EXCEPT ![t] = 0] /\ t \in Timers
    BY <1>3, TopFacts DEF timer_trigger
  <2> HIDE DEF t
  <2>2. ~timer'[t].running
    BY <1>0, <2>1 DEF Fields
  <2>3. timer' = [timer EXCEPT ![t] = timer'[t]] /\ due' = [due EXCEPT ![t] = due'[t]]
    BY <1>0, <2>1 DEF Fields
  <2> QED BY <1>one, <1>typed, <2>2, <2>3
<1>4. CASE Create
  <2> DEFINE t == Top.t
  <2>1. timer' = [timer EXCEPT ![t] = Fresh(t)] /\ due' = [due EXCEPT ![t] = 0] /\ t \in Timers
    BY <1>4, TopFacts DEF Create, OfATimer
  <2> HIDE DEF t
  <2>2. ~timer'[t].running
    BY <1>0, <2>1 DEF Fields, Fresh
  <2>3. timer' = [timer EXCEPT ![t] = timer'[t]] /\ due' = [due EXCEPT ![t] = due'[t]]
    BY <1>0, <2>1 DEF Fields
  <2> QED BY <1>one, <1>typed, <2>2, <2>3
<1>5. CASE Stopped
  <2> DEFINE t == Top.t
             ticks == IF Wrap = 0 THEN Top.time ELSE Top.time % Wrap
  <2>1. /\ timer' = IF timer[t].running
                    THEN [timer EXCEPT ![t].running = FALSE, ![t].expiry = @ - ticks]
                    ELSE timer
        /\ due' = [due EXCEPT ![t] = 0]
    BY <1>5, Zenon DEF Stopped
  <2>2. t \in Timers
    BY <1>5, TopFacts DEF Stopped, OfATimer
  <2> HIDE DEF t, ticks
  <2>3. ~timer'[t].running /\ (timer' = timer \/ timer' = [timer EXCEPT ![t] = timer'[t]])
    <3>1. CASE timer[t].running
      BY <1>0, <2>1, <2>2, <3>1 DEF Fields
    <3>2. CASE ~timer[t].running
      BY <2>1, <3>2
    <3> QED BY <3>1, <3>2
  <2>4. due' = [due EXCEPT ![t] = due'[t]]
    BY <1>0, <2>1, <2>2
  <2> QED BY <1>one, <1>typed, <2>3, <2>4
<1>6. CASE Insert
  <2> DEFINE t == Top.t
  <2>1. /\ timer' = [timer EXCEPT ![t].expiry = timer[t].expiry + now, ![t].running = TRUE]
        /\ due' = [due EXCEPT ![t] = now + timer[t].expiry]
    BY <1>6, <1>o, Zenon DEF Insert
  <2>2. t \in Timers /\ now \in Nat /\ timer[t].expiry \in Int
    BY <1>0, <1>6, TopFacts, Types DEF Insert, OfATimer, Fields
  <2> HIDE DEF t
  <2>3. timer'[t].expiry = timer[t].expiry + now /\ due'[t] = now + timer[t].expiry
    BY <1>0, <2>1, <2>2 DEF Fields
  <2>4. timer' = [timer EXCEPT ![t] = timer'[t]] /\ due' = [due EXCEPT ![t] = due'[t]]
    BY <1>0, <2>1, <2>2 DEF Fields
  <2> QED BY <1>one, <1>typed, <2>2, <2>3, <2>4
<1> QED BY <1>1, <1>2, <1>3, <1>4, <1>5, <1>6
        DEF Next, Step, UpdateLocked, NextInChain, EndOfChain, timer_start, timer_stop, Lock,
            InsertIgnored, Unlink, Polled, Call, ReturnFromInterrupt, WildRead, tick_handler,
            Tick, Handle, vars

-----------------------------------------------------------------------------
(* The theorems.                                                           *)

\* The inductive invariant: the types of the timers, their links and the
\* frames, and where the frame that holds the lock is.
THEOREM Invariance == Spec => []IInv
<1>1. Init => IInv
  BY InitInvariant
<1>2. IInv /\ [Next]_vars => IInv'
  BY StepInvariant
<1> QED BY <1>1, <1>2, PTL DEF Spec

\* No program, whatever its callbacks and interrupts, meets the bug checks of
\* timer_start and timer_stop.
THEOREM LockIsFree == Spec => []NeverBugChecks
<1>1. IInv => NeverBugChecks
  <2> SUFFICES ASSUME IInv, At("bugcheck") PROVE FALSE
    BY DEF NeverBugChecks
  <2>1. stack \in Seq(Frames) /\ stack # <<>> /\ Head(stack).do = "bugcheck"
    BY DEF IInv, TypeOK, At
  <2>2. Head(stack) \in Frames
    BY <2>1, HeadTailProperties
  <2> QED BY <2>1, <2>2 DEF Frames, OfATimer
<1> QED BY <1>1, Invariance, PTL

\* On a device whose ticks do not wrap, timer_stop leaves exactly the time
\* that was left when it was called.
THEOREM PauseKeeps ==
  ASSUME Wrap = 0
  PROVE  Spec => PauseKeepsRemainder
<1>1. Init => ExpiryBooks
  BY DEF Init, ExpiryBooks, Fresh
<1>2. IInv /\ ExpiryBooks /\ [Next]_vars => ExpiryBooks'
  BY ExpiryKept
<1>3. Spec => []ExpiryBooks
  BY <1>1, <1>2, Invariance, PTL DEF Spec
<1> DEFINE Kept == \A t \in Timers :
              timer[t].running /\ ~timer'[t].running /\ ~timer'[t].hasExpired /\ At("stopped")
                => timer'[t].expiry = due[t] - Top.time
<1>4. ASSUME IInv, ExpiryBooks, [Next]_vars PROVE Kept
  <2> SUFFICES ASSUME NEW u \in Timers, timer[u].running, ~timer'[u].running, At("stopped")
               PROVE  timer'[u].expiry = due[u] - Top.time
    OBVIOUS
  <2> DEFINE t == Top.t
             ticks == IF Wrap = 0 THEN Top.time ELSE Top.time % Wrap
  <2>1. Stopped
    <3>1. timer' # timer
      OBVIOUS
    <3> QED BY <1>4, <3>1
        DEF At, Next, Step, UpdateLocked, timer_update, timer_trigger, NextInChain, EndOfChain,
            timer_start, timer_stop, Lock, Insert, InsertIgnored, Unlink, Polled, Create, Call,
            ReturnFromInterrupt, WildRead, tick_handler, Tick, Handle, vars
  <2>2. /\ timer' = IF timer[t].running
                    THEN [timer EXCEPT ![t].running = FALSE, ![t].expiry = @ - ticks]
                    ELSE timer
        /\ ticks = Top.time
    BY <2>1, Zenon DEF Stopped
  <2>3. timer \in Fields
    BY <1>4, Types
  <2> HIDE DEF t, ticks
  <2>4. t = u
    BY <2>2, <2>3 DEF Fields
  <2>5. timer'[u].expiry = timer[u].expiry - ticks
    BY <2>2, <2>3, <2>4 DEF Fields
  <2> QED BY <1>4, <2>2, <2>5 DEF ExpiryBooks
<1>5. IInv /\ ExpiryBooks /\ [Next]_vars => [Kept]_vars
  BY <1>4
<1> QED BY <1>3, <1>5, Invariance, PTL DEF Spec, PauseKeepsRemainder

-----------------------------------------------------------------------------
(* Chains of timers.                                                       *)

Distinct(s) == \A i, j \in 1 .. Len(s) : s[i] = s[j] => i = j

InOrder(s, fields) ==
  \A i, j \in 1 .. Len(s) : i < j => fields[s[i]].expiry <= fields[s[j]].expiry

\* The sequence s is front and what follows it.
Split(s, front, back) ==
  /\ {s, front, back} \subseteq Seq(Timers) /\ Len(s) = Len(front) + Len(back)
  /\ \A k \in 1 .. Len(front) : s[k] = front[k]
  /\ \A k \in 1 .. Len(back) : s[Len(front) + k] = back[k]

\* Following the links from h leads through the timers of s and ends there.
IsChain(s, h, links) ==
  /\ s \in Seq(Timers) /\ HeadOf(s) = h
  /\ Distinct(s)
  /\ \A k \in 1 .. Len(s) : links[s[k]] = IF k = Len(s) THEN None ELSE s[k + 1]

LEMMA SeqFacts ==
  ASSUME NEW s \in Seq(Timers)
  PROVE  /\ Len(s) \in Nat /\ DOMAIN s = 1 .. Len(s)
         /\ \A k \in 1 .. Len(s) : s[k] \in Timers
         /\ HeadOf(s) = IF Len(s) = 0 THEN None ELSE s[1]
         /\ s = <<>> <=> Len(s) = 0
         /\ ToSet(s) \subseteq Timers
         /\ \A t : Contains(s, t) <=> t \in ToSet(s)
         /\ \A t : t \in ToSet(s) <=> \E k \in 1 .. Len(s) : s[k] = t
<1>1. Len(s) \in Nat /\ DOMAIN s = 1 .. Len(s) /\ \A k \in 1 .. Len(s) : s[k] \in Timers
  BY LenProperties, ElementOfSeq
<1>2. s = <<>> <=> Len(s) = 0
  BY EmptySeq
<1>3. HeadOf(s) = IF Len(s) = 0 THEN None ELSE s[1]
  BY <1>2 DEF HeadOf
<1>4. \A t : t \in ToSet(s) <=> \E k \in 1 .. Len(s) : s[k] = t
  BY <1>1 DEF ToSet
<1> QED BY <1>1, <1>2, <1>3, <1>4 DEF Contains

\* A chain has no more members than there are timers.
LEMMA ChainLength ==
  ASSUME NEW s, NEW h, NEW links, IsChain(s, h, links)
  PROVE  /\ Cardinality(Timers) \in Nat /\ Len(s) <= Cardinality(Timers)
         /\ IsFiniteSet(ToSet(s)) /\ Cardinality(ToSet(s)) = Len(s)
<1>1. s \in Seq(Timers) /\ Len(s) \in Nat /\ s \in [1 .. Len(s) -> Timers]
      /\ DOMAIN s = 1 .. Len(s)
  BY LenProperties DEF IsChain
<1>2. \A i, j \in 1 .. Len(s) : s[i] = s[j] => i = j
  BY DEF IsChain, Distinct
<1>3. s \in Injection(1 .. Len(s), Timers)
  BY <1>1, <1>2 DEF Injection, IsInjective
<1>4. IsFiniteSet(1 .. Len(s)) /\ Cardinality(1 .. Len(s)) = Len(s)
  <2>1. IsFiniteSet(1 .. Len(s)) /\ Cardinality(1 .. Len(s)) = IF 1 > Len(s) THEN 0 ELSE Len(s) - 1 + 1
    BY <1>1, FS_Interval
  <2> QED BY <1>1, <2>1
<1>5. Cardinality(Timers) \in Nat /\ Len(s) <= Cardinality(Timers)
  BY <1>3, <1>4, TimersAssumption, FS_CardinalityType, FS_Injection
<1>6. s \in Bijection(1 .. Len(s), ToSet(s))
  <2>1. s \in [1 .. Len(s) -> ToSet(s)] /\ \A t \in ToSet(s) : \E k \in 1 .. Len(s) : s[k] = t
    BY <1>1 DEF ToSet
  <2> QED BY <1>1, <1>2, <2>1 DEF Injection, Surjection, Bijection, IsInjective
<1>7. IsFiniteSet(ToSet(s)) /\ Cardinality(ToSet(s)) = Cardinality(1 .. Len(s))
  BY <1>4, <1>6, FS_Bijection DEF ExistsBijection
<1> QED BY <1>4, <1>5, <1>7

\* The list is the chain of timerList.
LEMMA ListIs ==
  ASSUME NEW s, IsChain(s, timerList, next)
  PROVE  List = s
<1> DEFINE N == Cardinality(Timers)
           node == CHOOSE f : NodesOf(f, N)
           A == {n \in DOMAIN node : node[n] # None}
           e(k) == IF k <= Len(s) THEN s[k] ELSE None
<1>1. N \in Nat /\ Len(s) <= N
  BY ChainLength
<1>2. List = SubSeq(node, 1, Cardinality(A))
  BY Zenon DEF List, NodesOf
<1>3. NodesOf(node, N)
  BY <1>1, NodesExist
<1>4. /\ s \in Seq(Timers) /\ Len(s) \in Nat /\ \A k \in 1 .. Len(s) : s[k] \in Timers
      /\ timerList = IF Len(s) = 0 THEN None ELSE s[1]
  BY SeqFacts DEF IsChain
<1>5. \A k \in 1 .. Len(s) : next[s[k]] = IF k = Len(s) THEN None ELSE s[k + 1]
  BY DEF IsChain
<1>6. None \notin Timers
  BY TimersAssumption
<1> HIDE DEF node, N
<1>7. \A k \in 1 .. N : node[k] = e(k)
  <2> DEFINE T == {k \in 1 .. N : node[k] # e(k)}
  <2> SUFFICES ASSUME T # {} PROVE FALSE
    OBVIOUS
  <2>1. PICK k \in T : \A j \in T : k <= j
    <3>1. T \in SUBSET Nat
      BY <1>1
    <3> HIDE DEF T
    <3> QED BY <3>1, LeastOf
  <2>2. k \in 1 .. N /\ k \in Nat /\ node[k] # e(k)
    BY <1>1, <2>1
  <2>3. CASE k = 1
    <3>1. node[1] = timerList
      BY <1>3, <2>2, <2>3 DEF NodesOf
    <3> QED BY <1>4, <2>2, <2>3, <3>1
  <2>4. CASE k # 1
    <3>1. k - 1 \in 1 .. N /\ k - 1 \notin T
      BY <1>1, <2>1, <2>2, <2>4
    <3>2. node[k - 1] = e(k - 1)
      BY <3>1
    <3>3. node[k] = IF node[k - 1] = None THEN None ELSE next[node[k - 1]]
      BY <1>3, <2>2, <2>4 DEF NodesOf
    <3>4. CASE k - 1 <= Len(s)
      <4>1. k - 1 \in 1 .. Len(s) /\ node[k - 1] = s[k - 1] /\ node[k - 1] # None
        BY <1>4, <1>6, <2>2, <2>4, <3>2, <3>4
      <4>2. node[k] = IF k - 1 = Len(s) THEN None ELSE s[(k - 1) + 1]
        BY <1>5, <3>3, <4>1
      <4>3. (k - 1) + 1 = k /\ (k <= Len(s) <=> k - 1 # Len(s))
        BY <1>4, <2>2, <3>4
      <4> QED BY <2>2, <4>2, <4>3
    <3>5. CASE ~(k - 1 <= Len(s))
      <4>1. ~(k <= Len(s))
        BY <1>4, <2>2, <3>5
      <4> QED BY <2>2, <3>2, <3>3, <3>5, <4>1
    <3> QED BY <3>4, <3>5
  <2> QED BY <2>3, <2>4
<1>8. DOMAIN node = 1 .. N
  BY <1>3 DEF NodesOf
<1>9. A = 1 .. Len(s)
  <2>1. \A n \in 1 .. N : node[n] # None <=> n <= Len(s)
    BY <1>1, <1>4, <1>6, <1>7
  <2> QED BY <1>1, <1>4, <1>8, <2>1
<1>10. Cardinality(1 .. Len(s)) = Len(s)
  <2>1. Cardinality(1 .. Len(s)) = IF 1 > Len(s) THEN 0 ELSE Len(s) - 1 + 1
    BY <1>4, FS_Interval
  <2> QED BY <1>4, <2>1
<1> HIDE DEF A
<1>11. List = SubSeq(node, 1, Len(s))
  BY <1>2, <1>9, <1>10
<1>12. \A k \in 1 .. Len(s) : node[k] = s[k]
  BY <1>1, <1>4, <1>7
<1>13. /\ List \in Seq(Timers) /\ Len(List) = Len(s)
       /\ \A k \in 1 .. Len(s) : List[k] = s[k]
  <2>1. \A k \in 1 .. Len(s) : node[k] \in Timers
    BY <1>4, <1>12
  <2>2. /\ List \in Seq(Timers)
        /\ Len(List) = IF 1 <= Len(s) THEN Len(s) - 1 + 1 ELSE 0
        /\ \A k \in 1 .. Len(s) - 1 + 1 : List[k] = node[1 + k - 1]
    BY <1>4, <1>11, <2>1, SubSeqProperties
  <2>3. Len(List) = Len(s) /\ Len(s) - 1 + 1 = Len(s)
    BY <1>4, <2>2
  <2>4. ASSUME NEW k \in 1 .. Len(s) PROVE List[k] = s[k]
    <3>1. 1 + k - 1 = k
      BY <1>4
    <3> QED BY <1>12, <2>2, <2>3, <3>1
  <2> QED BY <2>2, <2>3, <2>4
<1> QED BY <1>4, <1>13, SeqEqual

\* Only the links of its members matter to a chain.
LEMMA ChainKept ==
  ASSUME NEW s, NEW h, NEW links, NEW links2, IsChain(s, h, links),
         \A t \in ToSet(s) : links2[t] = links[t]
  PROVE  IsChain(s, h, links2)
<1>1. s \in Seq(Timers)
  BY DEF IsChain
<1>2. \A k \in 1 .. Len(s) : s[k] \in ToSet(s)
  BY <1>1, SeqFacts
<1> QED BY <1>2 DEF IsChain

\* Nothing is chained to the end.
LEMMA EmptyChain ==
  /\ \A links : IsChain(<<>>, None, links)
  /\ \A s, links : IsChain(s, None, links) => s = <<>>
<1>1. \A links : IsChain(<<>>, None, links)
  BY DEF IsChain, HeadOf, Distinct
<1>2. ASSUME NEW s, NEW links, IsChain(s, None, links) PROVE s = <<>>
  <2>1. s \in Seq(Timers) /\ HeadOf(s) = None
    BY <1>2 DEF IsChain
  <2> QED BY <2>1, SeqFacts, TimersAssumption
<1> QED BY <1>1, <1>2

\* Behind its first timer a chain goes on.
LEMMA ChainTail ==
  ASSUME NEW s, NEW h \in Timers, NEW links, IsChain(s, h, links)
  PROVE  /\ s # <<>> /\ s[1] = h /\ h \in ToSet(s)
         /\ IsChain(Tail(s), links[h], links)
         /\ ToSet(Tail(s)) = ToSet(s) \ {h}
<1>1. /\ s \in Seq(Timers) /\ Len(s) \in Nat /\ h = IF Len(s) = 0 THEN None ELSE s[1]
  BY SeqFacts DEF IsChain
<1>2. Len(s) # 0 /\ s # <<>> /\ s[1] = h
  BY <1>1, SeqFacts, TimersAssumption
<1>3. /\ Tail(s) \in Seq(Timers) /\ Len(Tail(s)) = Len(s) - 1
      /\ \A i \in 1 .. Len(Tail(s)) : Tail(s)[i] = s[i + 1]
  BY <1>1, <1>2, HeadTailProperties
<1> DEFINE r == Tail(s)
<1>4. r \in Seq(Timers) /\ Len(r) = Len(s) - 1 /\ \A i \in 1 .. Len(r) : r[i] = s[i + 1]
  BY <1>3
<1> HIDE DEF r
<1>5. \A i, j \in 1 .. Len(s) : s[i] = s[j] => i = j
  BY DEF IsChain, Distinct
<1>6. \A k \in 1 .. Len(s) : links[s[k]] = IF k = Len(s) THEN None ELSE s[k + 1]
  BY DEF IsChain
<1>7. HeadOf(r) = links[h]
  <2>1. HeadOf(r) = IF Len(r) = 0 THEN None ELSE r[1]
    BY <1>4, SeqFacts
  <2>2. links[h] = IF 1 = Len(s) THEN None ELSE s[1 + 1]
    <3>1. 1 \in 1 .. Len(s) /\ s[1] = h
      BY <1>1, <1>2
    <3> QED BY <1>6, <3>1
  <2>3. Len(r) # 0 => r[1] = s[1 + 1]
    BY <1>1, <1>4
  <2>4. Len(r) = 0 <=> 1 = Len(s)
    BY <1>1, <1>4
  <2> QED BY <2>1, <2>2, <2>3, <2>4
<1>8. ASSUME NEW i \in 1 .. Len(r), NEW j \in 1 .. Len(r), r[i] = r[j] PROVE i = j
  <2>1. i + 1 \in 1 .. Len(s) /\ j + 1 \in 1 .. Len(s) /\ s[i + 1] = s[j + 1]
    BY <1>1, <1>4, <1>8
  <2>2. i + 1 = j + 1
    BY <1>5, <2>1
  <2> QED BY <1>1, <1>4, <2>2
<1>9. ASSUME NEW k \in 1 .. Len(r)
      PROVE  links[r[k]] = IF k = Len(r) THEN None ELSE r[k + 1]
  <2>1. k + 1 \in 1 .. Len(s) /\ r[k] = s[k + 1]
    BY <1>1, <1>4
  <2>2. links[r[k]] = IF k + 1 = Len(s) THEN None ELSE s[(k + 1) + 1]
    BY <1>6, <2>1
  <2>3. k + 1 = Len(s) <=> k = Len(r)
    BY <1>1, <1>4
  <2>4. k # Len(r) => r[k + 1] = s[(k + 1) + 1]
    BY <1>1, <1>4
  <2> QED BY <2>2, <2>3, <2>4
<1>10. IsChain(r, links[h], links)
  BY <1>4, <1>7, <1>8, <1>9 DEF IsChain, Distinct
<1>11. ASSUME NEW t PROVE t \in ToSet(r) <=> t \in ToSet(s) /\ t # h
  <2>1. ASSUME t \in ToSet(r) PROVE t \in ToSet(s) /\ t # h
    <3>1. PICK k \in 1 .. Len(r) : r[k] = t
      BY <1>4, <2>1, SeqFacts
    <3>2. k + 1 \in 1 .. Len(s) /\ s[k + 1] = t /\ k + 1 # 1 /\ 1 \in 1 .. Len(s)
      BY <1>1, <1>4, <3>1
    <3> QED BY <1>1, <1>2, <1>5, <3>2, SeqFacts
  <2>2. ASSUME t \in ToSet(s), t # h PROVE t \in ToSet(r)
    <3>1. PICK k \in 1 .. Len(s) : s[k] = t
      BY <1>1, <2>2, SeqFacts
    <3>2. k # 1
      BY <1>2, <2>2, <3>1
    <3>3. k - 1 \in 1 .. Len(r) /\ (k - 1) + 1 = k
      BY <1>1, <1>4, <3>2
    <3>4. r[k - 1] = t
      BY <1>4, <3>1, <3>3
    <3> QED BY <1>4, <3>3, <3>4, SeqFacts
  <2> QED BY <2>1, <2>2
<1>12. ToSet(r) = ToSet(s) \ {h}
  BY <1>11
<1>13. h \in ToSet(s)
  BY <1>1, <1>2, SeqFacts
<1> QED BY <1>2, <1>10, <1>12, <1>13 DEF r

LEMMA MinIs ==
  ASSUME NEW T \in SUBSET Nat, NEW k \in T, \A m \in T : k <= m
  PROVE  Min(T) = k
<1>1. Min(T) \in T /\ \A m \in T : Min(T) <= m
  BY LeastFacts
<1>2. Min(T) <= k /\ k <= Min(T) /\ Min(T) \in Nat /\ k \in Nat
  BY <1>1
<1> QED BY <1>2

\* Linking timers makes a chain of them and leaves the other links alone.
LEMMA LinkedFacts ==
  ASSUME NEW links \in Links, NEW s \in Seq(Timers), Distinct(s)
  PROVE  /\ IsChain(s, HeadOf(s), Linked(links, s))
         /\ Linked(links, s) \in Links
         /\ \A t \in Timers : t \notin ToSet(s) => Linked(links, s)[t] = links[t]
<1>1. Len(s) \in Nat /\ \A k \in 1 .. Len(s) : s[k] \in Timers
  BY SeqFacts
<1>2. ASSUME NEW k \in 1 .. Len(s)
      PROVE  Linked(links, s)[s[k]] = IF k = Len(s) THEN None ELSE s[k + 1]
  <2> DEFINE I == {i \in 1 .. Len(s) : s[i] = s[k]}
  <2>1. I = {k}
    BY DEF Distinct
  <2>2. SelectInSeq(s, LAMBDA u : u = s[k]) = Min(I)
    BY <2>1 DEF SelectInSeq
  <2> HIDE DEF I
  <2>3. Min(I) = k
    <3>1. k \in Nat /\ I \in SUBSET Nat /\ \A m \in I : k <= m
      BY <1>1, <2>1
    <3> QED BY <2>1, <3>1, MinIs
  <2>4. Contains(s, s[k]) /\ s[k] \in Timers
    BY <1>1 DEF Contains
  <2>5. Linked(links, s)[s[k]] = HeadOf(SubSeq(s, k + 1, Len(s)))
    BY <2>2, <2>3, <2>4, Zenon DEF Linked
  <2> DEFINE r == SubSeq(s, k + 1, Len(s))
  <2>6. /\ r \in Seq(Timers) /\ Len(r) = IF k + 1 <= Len(s) THEN Len(s) - (k + 1) + 1 ELSE 0
        /\ \A i \in 1 .. Len(s) - (k + 1) + 1 : r[i] = s[(k + 1) + i - 1]
    BY <1>1, SubSeqProperties
  <2>7. HeadOf(r) = IF Len(r) = 0 THEN None ELSE r[1]
    BY <2>6, SeqFacts
  <2>8. CASE k = Len(s)
    <3>1. Len(r) = 0
      BY <1>1, <2>6, <2>8
    <3> QED BY <2>5, <2>7, <2>8, <3>1
  <2>9. CASE k # Len(s)
    <3>1. Len(r) # 0 /\ 1 \in 1 .. Len(s) - (k + 1) + 1 /\ (k + 1) + 1 - 1 = k + 1
      BY <1>1, <2>6, <2>9
    <3>2. r[1] = s[k + 1]
      BY <2>6, <3>1
    <3> HIDE DEF r
    <3> QED BY <2>5, <2>7, <2>9, <3>1, <3>2 DEF r
  <2> QED BY <2>8, <2>9
<1>3. ASSUME NEW t \in Timers, t \notin ToSet(s) PROVE Linked(links, s)[t] = links[t]
  <2>1. ~Contains(s, t)
    BY <1>3, SeqFacts
  <2> QED BY <2>1, Zenon DEF Linked
<1> QED BY <1>2, <1>3, LinkedType DEF IsChain

\* Linking nothing changes nothing.
LEMMA LinkedNothing ==
  ASSUME NEW links \in Links
  PROVE  Linked(links, <<>>) = links
<1>1. <<>> \in Seq(Timers) /\ Distinct(<<>>) /\ ToSet(<<>>) = {}
  BY DEF Distinct, ToSet
<1>2. Linked(links, <<>>) \in Links /\ \A t \in Timers : Linked(links, <<>>)[t] = links[t]
  BY <1>1, LinkedFacts
<1> HIDE DEF Links
<1> DEFINE l == Linked(links, <<>>)
<1>3. l \in [Timers -> Timers \cup {None}] /\ links \in [Timers -> Timers \cup {None}]
      /\ \A t \in Timers : l[t] = links[t]
  BY <1>2 DEF Links
<1> HIDE DEF l
<1>4. l = links
  BY <1>3
<1> QED BY <1>4 DEF l

LEMMA ReverseFacts ==
  ASSUME NEW s \in Seq(Timers), Distinct(s)
  PROVE  /\ Reverse(s) \in Seq(Timers) /\ Distinct(Reverse(s))
         /\ ToSet(Reverse(s)) = ToSet(s)
<1> DEFINE r == Reverse(s)
<1>1. Len(s) \in Nat /\ r \in Seq(Timers)
  BY SeqFacts, ReverseType
<1>2. DOMAIN r = 1 .. Len(s) /\ \A i \in 1 .. Len(s) : r[i] = s[(Len(s) - i) + 1]
  BY DEF Reverse
<1> HIDE DEF r
<1>3. Len(r) = Len(s)
  BY <1>1, <1>2, SeqFacts
<1>4. ASSUME NEW i \in 1 .. Len(r), NEW j \in 1 .. Len(r), r[i] = r[j] PROVE i = j
  <2>1. /\ (Len(s) - i) + 1 \in 1 .. Len(s) /\ (Len(s) - j) + 1 \in 1 .. Len(s)
        /\ s[(Len(s) - i) + 1] = s[(Len(s) - j) + 1]
    BY <1>1, <1>2, <1>3, <1>4
  <2>2. (Len(s) - i) + 1 = (Len(s) - j) + 1
    BY <2>1 DEF Distinct
  <2> QED BY <1>1, <1>3, <2>2
<1>5. ASSUME NEW t PROVE t \in ToSet(r) <=> t \in ToSet(s)
  <2>1. ASSUME NEW k \in 1 .. Len(s), s[k] = t PROVE t \in ToSet(r)
    <3>1. (Len(s) - k) + 1 \in 1 .. Len(s) /\ (Len(s) - ((Len(s) - k) + 1)) + 1 = k
      BY <1>1
    <3>2. r[(Len(s) - k) + 1] = t
      BY <1>2, <2>1, <3>1
    <3> QED BY <1>1, <1>3, <3>1, <3>2, SeqFacts
  <2>2. ASSUME NEW k \in 1 .. Len(r), r[k] = t PROVE t \in ToSet(s)
    <3>1. (Len(s) - k) + 1 \in 1 .. Len(s) /\ s[(Len(s) - k) + 1] = t
      BY <1>1, <1>2, <1>3, <2>2
    <3> QED BY <3>1, SeqFacts
  <2> QED BY <1>1, <2>1, <2>2, SeqFacts
<1>6. ToSet(r) = ToSet(s)
  BY <1>5
<1> QED BY <1>1, <1>4, <1>6 DEF Distinct, r

LEMMA FrontFacts ==
  ASSUME NEW s \in Seq(Timers), NEW m \in 1 .. Len(s) + 1
  PROVE  /\ SubSeq(s, 1, m - 1) \in Seq(Timers) /\ Len(SubSeq(s, 1, m - 1)) = m - 1
         /\ \A k \in 1 .. m - 1 : SubSeq(s, 1, m - 1)[k] = s[k]
<1>1. Len(s) \in Nat /\ m \in Nat /\ m - 1 \in Nat /\ \A k \in 1 .. m - 1 : s[k] \in Timers
  BY SeqFacts
<1> DEFINE r == SubSeq(s, 1, m - 1)
<1>2. /\ r \in Seq(Timers) /\ Len(r) = IF 1 <= m - 1 THEN (m - 1) - 1 + 1 ELSE 0
      /\ \A k \in 1 .. (m - 1) - 1 + 1 : r[k] = s[1 + k - 1]
  BY <1>1, SubSeqProperties
<1> HIDE DEF r
<1>3. Len(r) = m - 1
  BY <1>1, <1>2
<1>4. ASSUME NEW k \in 1 .. m - 1 PROVE r[k] = s[k]
  <2>1. k \in 1 .. (m - 1) - 1 + 1 /\ 1 + k - 1 = k
    BY <1>1
  <2> QED BY <1>2, <2>1
<1> QED BY <1>2, <1>3, <1>4 DEF r

LEMMA BackFacts ==
  ASSUME NEW s \in Seq(Timers), NEW n \in 0 .. Len(s)
  PROVE  /\ SubSeq(s, n + 1, Len(s)) \in Seq(Timers)
         /\ Len(SubSeq(s, n + 1, Len(s))) = Len(s) - n
         /\ \A k \in 1 .. Len(s) - n : SubSeq(s, n + 1, Len(s))[k] = s[n + k]
<1>1. Len(s) \in Nat /\ n \in Nat /\ \A k \in n + 1 .. Len(s) : s[k] \in Timers
  BY SeqFacts
<1> DEFINE r == SubSeq(s, n + 1, Len(s))
<1>2. /\ r \in Seq(Timers) /\ Len(r) = IF n + 1 <= Len(s) THEN Len(s) - (n + 1) + 1 ELSE 0
      /\ \A k \in 1 .. Len(s) - (n + 1) + 1 : r[k] = s[(n + 1) + k - 1]
  BY <1>1, SubSeqProperties
<1> HIDE DEF r
<1>3. Len(r) = Len(s) - n
  BY <1>1, <1>2
<1>4. ASSUME NEW k \in 1 .. Len(s) - n PROVE r[k] = s[n + k]
  <2>1. k \in 1 .. Len(s) - (n + 1) + 1 /\ (n + 1) + k - 1 = n + k
    BY <1>1
  <2> QED BY <1>2, <2>1
<1> QED BY <1>2, <1>3, <1>4 DEF r

\* A sequence cut before the first of some positions.
LEMMA CutParts ==
  ASSUME NEW s \in Seq(Timers), NEW K \in SUBSET DOMAIN s
  PROVE  LET front == SubSeq(s, 1, Min(K \cup {Len(s) + 1}) - 1)
             back == SubSeq(s, Len(front) + 1, Len(s))
         IN  /\ Split(s, front, back)
             /\ \A k \in 1 .. Len(front) : k \notin K
             /\ Len(back) # 0 => Len(front) + 1 \in K
<1> DEFINE T == K \cup {Len(s) + 1}
           m == Min(T)
           front == SubSeq(s, 1, m - 1)
           back == SubSeq(s, Len(front) + 1, Len(s))
<1>2. Len(s) \in Nat /\ m \in T /\ m \in 1 .. Len(s) + 1 /\ \A k \in T : m <= k
  <2>0. Len(s) \in Nat /\ DOMAIN s = 1 .. Len(s)
    BY SeqFacts
  <2>1. T \in SUBSET Nat /\ T # {} /\ T \subseteq 1 .. Len(s) + 1
    BY <2>0
  <2> HIDE DEF T
  <2>2. Min(T) \in T /\ \A k \in T : Min(T) <= k
    BY <2>1, LeastFacts
  <2> QED BY <2>0, <2>1, <2>2
<1> HIDE DEF m
<1>3. /\ front \in Seq(Timers) /\ Len(front) = m - 1
      /\ \A k \in 1 .. m - 1 : front[k] = s[k]
  BY <1>2, FrontFacts
<1> HIDE DEF front
<1>4. Len(front) \in 0 .. Len(s) /\ Len(front) + 1 = m
  BY <1>2, <1>3
<1>5. /\ back \in Seq(Timers) /\ Len(back) = Len(s) - Len(front)
      /\ \A k \in 1 .. Len(s) - Len(front) : back[k] = s[Len(front) + k]
  BY <1>4, BackFacts
<1> HIDE DEF back
<1>6. Split(s, front, back)
  <2>1. Len(s) = Len(front) + Len(back)
    BY <1>2, <1>4, <1>5
  <2> QED BY <1>3, <1>4, <1>5, <2>1 DEF Split
<1>7. ASSUME NEW k \in 1 .. Len(front) PROVE k \notin K
  <2>1. ~(m <= k)
    BY <1>2, <1>4
  <2> QED BY <1>2, <2>1
<1>8. ASSUME Len(back) # 0 PROVE Len(front) + 1 \in K
  <2>1. m # Len(s) + 1
    BY <1>2, <1>4, <1>5, <1>8
  <2> QED BY <1>2, <1>4, <2>1
<1> QED BY <1>6, <1>7, <1>8 DEF front, back, m

\* The parts of a list.
LEMMA SplitFacts ==
  ASSUME NEW s, NEW front, NEW back, Split(s, front, back), Distinct(s)
  PROVE  /\ Distinct(front) /\ Distinct(back)
         /\ ToSet(s) = ToSet(front) \cup ToSet(back)
         /\ ToSet(front) \cap ToSet(back) = {}
         /\ \A fields : InOrder(s, fields) => InOrder(back, fields)
         /\ \A h, links : IsChain(s, h, links) => IsChain(back, HeadOf(back), links)
<1>1. /\ s \in Seq(Timers) /\ front \in Seq(Timers) /\ back \in Seq(Timers)
      /\ Len(s) = Len(front) + Len(back)
      /\ \A k \in 1 .. Len(front) : s[k] = front[k]
      /\ \A k \in 1 .. Len(back) : s[Len(front) + k] = back[k]
  BY DEF Split
<1>2. /\ Len(front) \in Nat /\ Len(back) \in Nat /\ Len(s) \in Nat
      /\ \A i, j \in 1 .. Len(s) : s[i] = s[j] => i = j
  BY <1>1, SeqFacts DEF Distinct
<1>3. ASSUME NEW i \in 1 .. Len(front) PROVE i \in 1 .. Len(s)
  BY <1>1, <1>2
<1>4. ASSUME NEW i \in 1 .. Len(back) PROVE Len(front) + i \in 1 .. Len(s)
  BY <1>1, <1>2
<1>5. Distinct(front)
  BY <1>1, <1>2, <1>3 DEF Distinct
<1>6. Distinct(back)
  <2> SUFFICES ASSUME NEW i \in 1 .. Len(back), NEW j \in 1 .. Len(back), back[i] = back[j]
               PROVE  i = j
    BY DEF Distinct
  <2>1. Len(front) + i = Len(front) + j
    BY <1>1, <1>2, <1>4
  <2> QED BY <1>2, <2>1
<1>7. ASSUME NEW t PROVE t \in ToSet(s) <=> t \in ToSet(front) \/ t \in ToSet(back)
  <2>1. ASSUME NEW k \in 1 .. Len(s), s[k] = t PROVE t \in ToSet(front) \/ t \in ToSet(back)
    <3>1. CASE k <= Len(front)
      <4>1. k \in 1 .. Len(front) /\ front[k] = t
        BY <1>1, <1>2, <2>1, <3>1
      <4> QED BY <1>1, <4>1, SeqFacts
    <3>2. CASE ~(k <= Len(front))
      <4>1. k - Len(front) \in 1 .. Len(back) /\ Len(front) + (k - Len(front)) = k
        BY <1>1, <1>2, <3>2
      <4>2. back[k - Len(front)] = t
        BY <1>1, <2>1, <4>1
      <4> QED BY <1>1, <4>1, <4>2, SeqFacts
    <3> QED BY <3>1, <3>2
  <2>2. ASSUME NEW k \in 1 .. Len(front), front[k] = t PROVE t \in ToSet(s)
    BY <1>1, <1>3, <2>2, SeqFacts
  <2>3. ASSUME NEW k \in 1 .. Len(back), back[k] = t PROVE t \in ToSet(s)
    BY <1>1, <1>4, <2>3, SeqFacts
  <2> QED BY <1>1, <2>1, <2>2, <2>3, SeqFacts
<1>8. ASSUME NEW t, t \in ToSet(front), t \in ToSet(back) PROVE FALSE
  <2>1. PICK i \in 1 .. Len(front) : front[i] = t
    BY <1>1, <1>8, SeqFacts
  <2>2. PICK j \in 1 .. Len(back) : back[j] = t
    BY <1>1, <1>8, SeqFacts
  <2>3. i \in 1 .. Len(s) /\ Len(front) + j \in 1 .. Len(s) /\ s[i] = s[Len(front) + j]
    BY <1>1, <1>3, <1>4, <2>1, <2>2
  <2>4. i = Len(front) + j
    BY <1>2, <2>3
  <2> QED BY <1>2, <2>4
<1>9. ASSUME NEW fields, InOrder(s, fields) PROVE InOrder(back, fields)
  <2> SUFFICES ASSUME NEW i \in 1 .. Len(back), NEW j \in 1 .. Len(back), i < j
               PROVE  fields[back[i]].expiry <= fields[back[j]].expiry
    BY DEF InOrder
  <2>1. /\ Len(front) + i \in 1 .. Len(s) /\ Len(front) + j \in 1 .. Len(s)
        /\ Len(front) + i < Len(front) + j
    BY <1>2, <1>4
  <2>2. fields[s[Len(front) + i]].expiry <= fields[s[Len(front) + j]].expiry
    BY <1>9, <2>1 DEF InOrder
  <2> QED BY <1>1, <2>2
<1>10. ASSUME NEW h, NEW links, IsChain(s, h, links) PROVE IsChain(back, HeadOf(back), links)
  <2>1. ASSUME NEW k \in 1 .. Len(back)
        PROVE  links[back[k]] = IF k = Len(back) THEN None ELSE back[k + 1]
    <3>1. Len(front) + k \in 1 .. Len(s) /\ s[Len(front) + k] = back[k]
      BY <1>1, <1>4
    <3>2. links[back[k]] = IF Len(front) + k = Len(s) THEN None ELSE s[(Len(front) + k) + 1]
      BY <1>10, <3>1 DEF IsChain
    <3>3. Len(front) + k = Len(s) <=> k = Len(back)
      <4>1. Len(s) = Len(front) + Len(back) /\ k \in Nat /\ Len(front) \in Nat /\ Len(back) \in Nat
        BY <1>1, <1>2
      <4> QED BY <4>1
    <3>4. ASSUME k # Len(back) PROVE s[(Len(front) + k) + 1] = back[k + 1]
      <4>1. k + 1 \in 1 .. Len(back) /\ (Len(front) + k) + 1 = Len(front) + (k + 1)
        BY <1>2, <3>4
      <4> QED BY <1>1, <4>1
    <3> QED BY <3>2, <3>3, <3>4
  <2> QED BY <1>1, <1>6, <2>1 DEF IsChain
<1>11. ToSet(s) = ToSet(front) \cup ToSet(back)
  BY <1>7
<1>12. ToSet(front) \cap ToSet(back) = {}
  BY <1>8
<1> QED BY <1>5, <1>6, <1>9, <1>10, <1>11, <1>12

\* A list without one of its timers.
LEMMA RemoveFacts ==
  ASSUME NEW s \in Seq(Timers), Distinct(s), NEW t
  PROVE  /\ RemoveFirst(s, t) \in Seq(Timers) /\ Distinct(RemoveFirst(s, t))
         /\ ToSet(RemoveFirst(s, t)) = ToSet(s) \ {t}
         /\ \A fields : InOrder(s, fields) => InOrder(RemoveFirst(s, t), fields)
<1>0. Len(s) \in Nat /\ \A k \in 1 .. Len(s) : s[k] \in Timers
  BY SeqFacts
<1>1. CASE t \notin ToSet(s)
  <2>1. ~ \E i \in 1 .. Len(s) : s[i] = t
    BY <1>1, SeqFacts
  <2>2. RemoveFirst(s, t) = s
    BY <2>1 DEF RemoveFirst
  <2> QED BY <1>1, <2>2
<1>2. CASE t \in ToSet(s)
  <2>1. PICK m \in 1 .. Len(s) : s[m] = t
    BY <1>2, SeqFacts
  <2> DEFINE I == {i \in 1 .. Len(s) : s[i] = t}
             f == SubSeq(s, 1, m - 1)
             b == SubSeq(s, m + 1, Len(s))
             r == f \o b
  <2>2. I = {m} /\ m \in Nat
    BY <1>0, <2>1 DEF Distinct
  <2>3. RemoveFirst(s, t) = SubSeq(s, 1, Min(I) - 1) \o SubSeq(s, Min(I) + 1, Len(s))
    BY <2>1, <2>2 DEF RemoveFirst, RemoveAt, SelectInSeq
  <2> HIDE DEF I
  <2>4. Min(I) = m
    <3>1. I \in SUBSET Nat /\ \A k \in I : m <= k
      BY <2>2
    <3> QED BY <2>2, <3>1, MinIs
  <2>5. RemoveFirst(s, t) = r
    BY <2>3, <2>4
  <2>6. m \in 1 .. Len(s) + 1 /\ m \in 0 .. Len(s)
    BY <1>0, <2>1
  <2>7. /\ f \in Seq(Timers) /\ Len(f) = m - 1 /\ \A k \in 1 .. m - 1 : f[k] = s[k]
        /\ b \in Seq(Timers) /\ Len(b) = Len(s) - m /\ \A k \in 1 .. Len(s) - m : b[k] = s[m + k]
    BY <2>6, FrontFacts, BackFacts
  <2> HIDE DEF f, b
  <2>8. /\ r \in Seq(Timers) /\ Len(r) = Len(f) + Len(b)
        /\ \A i \in 1 .. Len(f) + Len(b) : r[i] = IF i <= Len(f) THEN f[i] ELSE b[i - Len(f)]
    BY <2>7, ConcatProperties
  <2> HIDE DEF r
  <2> DEFINE at(k) == IF k < m THEN k ELSE k + 1
  <2>9. Len(r) = Len(s) - 1
    BY <1>0, <2>2, <2>7, <2>8
  <2>10. ASSUME NEW k \in 1 .. Len(r)
         PROVE  at(k) \in 1 .. Len(s) /\ at(k) # m /\ r[k] = s[at(k)]
    <3>1. CASE k < m
      <4>1. k \in 1 .. m - 1 /\ k <= Len(f) /\ k \in 1 .. Len(f) + Len(b) /\ k \in 1 .. Len(s)
        BY <1>0, <2>2, <2>7, <2>8, <2>9, <3>1
      <4> QED BY <2>7, <2>8, <3>1, <4>1
    <3>2. CASE ~(k < m)
      <4>1. /\ ~(k <= Len(f)) /\ k - Len(f) \in 1 .. Len(s) - m /\ k \in 1 .. Len(f) + Len(b)
            /\ m + (k - Len(f)) = k + 1 /\ k + 1 \in 1 .. Len(s) /\ k + 1 # m
        BY <1>0, <2>2, <2>7, <2>8, <2>9, <3>2
      <4>2. r[k] = b[k - Len(f)] /\ b[k - Len(f)] = s[m + (k - Len(f))]
        BY <2>7, <2>8, <4>1
      <4> QED BY <3>2, <4>1, <4>2
    <3> QED BY <3>1, <3>2
  <2>11. \A i, j \in 1 .. Len(r) : (at(i) = at(j) => i = j) /\ (i < j => at(i) < at(j))
    BY <2>2, <2>8
  <2>12. Distinct(r)
    <3> SUFFICES ASSUME NEW i \in 1 .. Len(r), NEW j \in 1 .. Len(r), r[i] = r[j] PROVE i = j
      BY DEF Distinct
    <3>1. at(i) = at(j)
      BY <2>10 DEF Distinct
    <3> QED BY <2>11, <3>1
  <2>13. ToSet(r) = ToSet(s) \ {t}
    <3>1. ASSUME NEW k \in 1 .. Len(r) PROVE r[k] \in ToSet(s) /\ r[k] # t
      <4>1. at(k) \in 1 .. Len(s) /\ at(k) # m /\ r[k] = s[at(k)]
        BY <2>10
      <4>2. s[at(k)] # t
        BY <2>1, <4>1 DEF Distinct
      <4> HIDE DEF at
      <4> QED BY <4>1, <4>2, SeqFacts
    <3>2. ASSUME NEW k \in 1 .. Len(s), s[k] # t PROVE s[k] \in ToSet(r)
      <4>1. k # m
        BY <2>1, <3>2
      <4>2. CASE k < m
        <5>1. k \in 1 .. Len(r) /\ at(k) = k
          BY <1>0, <2>2, <2>9, <2>1, <4>2
        <5>2. r[k] = s[k]
          BY <2>10, <5>1
        <5> QED BY <2>8, <5>1, <5>2, SeqFacts
      <4>3. CASE ~(k < m)
        <5>1. k - 1 \in 1 .. Len(r) /\ at(k - 1) = k
          BY <1>0, <2>2, <2>9, <2>1, <4>1, <4>3
        <5>2. r[k - 1] = s[k]
          BY <2>10, <5>1
        <5> QED BY <2>8, <5>1, <5>2, SeqFacts
      <4> QED BY <4>2, <4>3
    <3>3. \A u : u \in ToSet(r) <=> u \in ToSet(s) /\ u # t
      BY <2>8, <3>1, <3>2, SeqFacts
    <3> QED BY <3>3
  <2>14. ASSUME NEW fields, InOrder(s, fields) PROVE InOrder(r, fields)
    <3> SUFFICES ASSUME NEW i \in 1 .. Len(r), NEW j \in 1 .. Len(r), i < j
                 PROVE  fields[r[i]].expiry <= fields[r[j]].expiry
      BY DEF InOrder
    <3>1. /\ at(i) \in 1 .. Len(s) /\ at(j) \in 1 .. Len(s) /\ at(i) < at(j)
          /\ r[i] = s[at(i)] /\ r[j] = s[at(j)]
      BY <2>10, <2>11
    <3> HIDE DEF at
    <3> QED BY <2>14, <3>1 DEF InOrder
  <2> QED BY <2>5, <2>8, <2>12, <2>13, <2>14
<1> QED BY <1>1, <1>2

\* A list with one more timer.
Inserted(r, front, t, back) == r = front \o <<t>> \o back

LEMMA InsertFacts ==
  ASSUME NEW s, NEW front, NEW back, Split(s, front, back), Distinct(s),
         NEW t \in Timers, t \notin ToSet(s), NEW r, Inserted(r, front, t, back)
  PROVE  /\ r \in Seq(Timers) /\ Distinct(r) /\ ToSet(r) = ToSet(s) \cup {t} /\ r # <<>>
         /\ \A fields :
              /\ InOrder(s, fields)
              /\ \A k \in 1 .. Len(front) : fields[front[k]].expiry <= fields[t].expiry
              /\ \A k \in 1 .. Len(back) : fields[t].expiry <= fields[back[k]].expiry
              => InOrder(r, fields)
<1> DEFINE e == front \o <<t>>
<1>1. /\ s \in Seq(Timers) /\ front \in Seq(Timers) /\ back \in Seq(Timers)
      /\ Len(front) \in Nat /\ Len(back) \in Nat /\ Len(s) \in Nat
      /\ Len(s) = Len(front) + Len(back)
  BY SeqFacts DEF Split
<1>2. /\ \A k \in 1 .. Len(front) : s[k] = front[k]
      /\ \A k \in 1 .. Len(back) : s[Len(front) + k] = back[k]
  BY DEF Split
<1>3. <<t>> \in Seq(Timers) /\ Len(<<t>>) = 1 /\ <<t>>[1] = t
  OBVIOUS
<1>4. /\ e \in Seq(Timers) /\ Len(e) = Len(front) + 1
      /\ \A i \in 1 .. Len(front) + 1 : e[i] = IF i <= Len(front) THEN front[i] ELSE t
  <2> DEFINE o == <<t>>
  <2>1. o \in Seq(Timers) /\ Len(o) = 1 /\ o[1] = t /\ e = front \o o
    BY <1>3
  <2> HIDE DEF o, e
  <2>2. /\ e \in Seq(Timers) /\ Len(e) = Len(front) + Len(o)
        /\ \A i \in 1 .. Len(front) + Len(o) :
             e[i] = IF i <= Len(front) THEN front[i] ELSE o[i - Len(front)]
    BY <1>1, <2>1, ConcatProperties
  <2>3. ASSUME NEW i \in 1 .. Len(front) + 1, ~(i <= Len(front)) PROVE i - Len(front) = 1
    BY <1>1, <2>3
  <2> QED BY <2>1, <2>2, <2>3
<1>r. r = e \o back
  BY DEF Inserted, e
<1> HIDE DEF e
<1>5. /\ r \in Seq(Timers) /\ Len(r) = Len(e) + Len(back)
      /\ \A i \in 1 .. Len(e) + Len(back) : r[i] = IF i <= Len(e) THEN e[i] ELSE back[i - Len(e)]
  BY <1>1, <1>4, <1>r, ConcatProperties
<1> DEFINE p == Len(front) + 1
           of(k) == IF k < p THEN k ELSE k - 1
<1>6. Len(r) = Len(s) + 1 /\ p \in 1 .. Len(r) /\ Len(r) \in Nat /\ p \in Nat
  BY <1>1, <1>4, <1>5
<1>7. r[p] = t
  <2>1. p \in 1 .. Len(e) + Len(back) /\ p <= Len(e) /\ p \in 1 .. Len(front) + 1
        /\ ~(p <= Len(front))
    BY <1>1, <1>4
  <2> QED BY <1>4, <1>5, <2>1
<1>8. ASSUME NEW k \in 1 .. Len(r), k # p
      PROVE  /\ of(k) \in 1 .. Len(s) /\ r[k] = s[of(k)]
             /\ k < p => k \in 1 .. Len(front) /\ r[k] = front[k]
             /\ ~(k < p) => k - p \in 1 .. Len(back) /\ r[k] = back[k - p]
  <2>1. CASE k < p
    <3>1. /\ k \in 1 .. Len(e) + Len(back) /\ k <= Len(e) /\ k \in 1 .. Len(front) + 1
          /\ k <= Len(front) /\ k \in 1 .. Len(front) /\ k \in 1 .. Len(s)
      BY <1>1, <1>4, <1>5, <1>6, <2>1
    <3>2. r[k] = front[k] /\ front[k] = s[k]
      BY <1>2, <1>4, <1>5, <3>1
    <3> QED BY <2>1, <3>1, <3>2
  <2>2. CASE ~(k < p)
    <3>1. /\ k \in 1 .. Len(e) + Len(back) /\ ~(k <= Len(e)) /\ k - Len(e) = k - p
          /\ k - p \in 1 .. Len(back) /\ Len(front) + (k - p) = k - 1 /\ k - 1 \in 1 .. Len(s)
      BY <1>1, <1>4, <1>5, <1>6, <1>8, <2>2
    <3>2. r[k] = back[k - p] /\ s[Len(front) + (k - p)] = back[k - p]
      BY <1>2, <1>5, <3>1
    <3> QED BY <2>2, <3>1, <3>2
  <2> QED BY <2>1, <2>2
<1>9. \A i, j \in 1 .. Len(r) : i # p /\ j # p =>
        (of(i) = of(j) => i = j) /\ (i < j => of(i) < of(j))
  BY <1>6
<1>10. \A k \in 1 .. Len(s) : s[k] # t /\ s[k] \in ToSet(s)
  BY <1>1, SeqFacts
<1> HIDE DEF p
<1>o. ASSUME NEW k \in 1 .. Len(r), k # p PROVE r[k] # t /\ r[k] \in ToSet(s)
  <2>1. of(k) \in 1 .. Len(s) /\ r[k] = s[of(k)]
    BY <1>8, <1>o
  <2> HIDE DEF of
  <2> QED BY <1>10, <2>1
<1>11. Distinct(r)
  <2> SUFFICES ASSUME NEW i \in 1 .. Len(r), NEW j \in 1 .. Len(r), r[i] = r[j] PROVE i = j
    BY DEF Distinct
  <2>1. CASE i = p \/ j = p
    BY <1>7, <1>o, <2>1
  <2>2. CASE i # p /\ j # p
    <3>1. of(i) \in 1 .. Len(s) /\ of(j) \in 1 .. Len(s) /\ s[of(i)] = s[of(j)]
      BY <1>8, <2>2
    <3>2. of(i) = of(j)
      BY <3>1 DEF Distinct
    <3> QED BY <1>9, <2>2, <3>2
  <2> QED BY <2>1, <2>2
<1>12. ToSet(r) = ToSet(s) \cup {t}
  <2>1. ASSUME NEW k \in 1 .. Len(r) PROVE r[k] \in ToSet(s) \cup {t}
    BY <1>7, <1>o
  <2>2. t \in ToSet(r)
    BY <1>5, <1>6, <1>7, SeqFacts
  <2>3. ASSUME NEW k \in 1 .. Len(s) PROVE s[k] \in ToSet(r)
    <3>1. CASE k < p
      <4>1. k \in 1 .. Len(r) /\ k # p /\ of(k) = k
        BY <1>1, <1>6, <3>1
      <4>2. r[k] = s[k]
        BY <1>8, <4>1
      <4> QED BY <1>5, <4>1, <4>2, SeqFacts
    <3>2. CASE ~(k < p)
      <4>1. k + 1 \in 1 .. Len(r) /\ k + 1 # p /\ of(k + 1) = k
        BY <1>1, <1>6, <3>2
      <4>2. r[k + 1] = s[k]
        BY <1>8, <4>1
      <4> QED BY <1>5, <4>1, <4>2, SeqFacts
    <3> QED BY <3>1, <3>2
  <2>4. \A u : u \in ToSet(r) <=> u \in ToSet(s) \/ u = t
    <3>1. \A u : u \in ToSet(r) <=> \E k \in 1 .. Len(r) : r[k] = u
      BY <1>5, SeqFacts
    <3>2. \A u : u \in ToSet(s) <=> \E k \in 1 .. Len(s) : s[k] = u
      BY <1>1, SeqFacts
    <3> QED BY <2>1, <2>2, <2>3, <3>1, <3>2
  <2> QED BY <2>4
<1>13. ASSUME NEW fields, InOrder(s, fields),
              \A k \in 1 .. Len(front) : fields[front[k]].expiry <= fields[t].expiry,
              \A k \in 1 .. Len(back) : fields[t].expiry <= fields[back[k]].expiry
       PROVE  InOrder(r, fields)
  <2> SUFFICES ASSUME NEW i \in 1 .. Len(r), NEW j \in 1 .. Len(r), i < j
               PROVE  fields[r[i]].expiry <= fields[r[j]].expiry
    BY DEF InOrder
  <2>1. CASE i = p
    <3>1. j # p /\ ~(j < p)
      BY <1>6, <2>1
    <3> QED BY <1>7, <1>8, <1>13, <2>1, <3>1
  <2>2. CASE j = p
    <3>1. i # p /\ i < p
      BY <1>6, <2>2
    <3> QED BY <1>7, <1>8, <1>13, <2>2, <3>1
  <2>3. CASE i # p /\ j # p
    <3>1. /\ of(i) \in 1 .. Len(s) /\ of(j) \in 1 .. Len(s) /\ of(i) < of(j)
          /\ r[i] = s[of(i)] /\ r[j] = s[of(j)]
      BY <1>8, <1>9, <2>3
    <3> HIDE DEF of
    <3> QED BY <1>13, <3>1 DEF InOrder
  <2> QED BY <2>1, <2>2, <2>3
<1>14. r # <<>>
  BY <1>5, <1>6, SeqFacts
<1> QED BY <1>5, <1>11, <1>12, <1>13, <1>14

ListIsChain == \A s : IsChain(s, timerList, next) => List = s

LEMMA ListNext == \A s : IsChain(s, timerList', next') => List' = s
<1>1. ListIsChain
  BY ListIs DEF ListIsChain
<1>2. ListIsChain'
  BY <1>1, PTL
<1> QED BY <1>2 DEF ListIsChain

-----------------------------------------------------------------------------
(* The inductive invariant of plain programs, while the ticks do not wrap. *)

Depth == Len(stack)

\* The frames of the stack, the outermost first.
Level(d) == stack[Len(stack) + 1 - d]

\* A timer that has fired, while its callback runs.
Fired(t) == ~timer[t].running /\ timer[t].hasExpired /\ due[t] = 0

\* A frame f at depth d, called by b, which was called by c.
Placed(d, f, b, c) ==
  /\ f.do # "wild" /\ f.time <= now
  /\ d = 1 => f.do \in {"calls", "iret"}
  /\ f.do \in {"create", "start", "insert"} => d = 2
  /\ f.do \in {"stop", "unlink", "stopped", "polled"} /\ d # 2 =>
       d > 2 /\ c.do = "called" /\ c.t = f.t
  /\ f.do = "calls" /\ d # 1 =>
       /\ b.do = "called"
       /\ \A k \in DOMAIN f.calls : f.calls[k].op \in {"stop", "poll"} /\ f.calls[k].t = b.t
  /\ f.do = "called" => Fired(f.t)

Places == \A d \in 1 .. Depth : Placed(d, Level(d), Level(d - 1), Level(d - 2))

\* When each timer is due, and that it was not stopped so late that this
\* would be at no time.
ExpiryOf(t) ==
  IF timer[t].running
  THEN ~timer[t].hasExpired /\ due[t] = timer[t].expiry /\ due[t] >= 1
  ELSE due[t] = 0 /\ timer[t].expiry + now >= 1

Expiries == \A t \in Timers : ExpiryOf(t)

\* A timer that timer_stop has taken from the list.
Unlinked(t) == Depth >= 2 /\ Level(2).do = "stopped" /\ Level(2).t = t

\* The list is well formed, in order, and holds running timers only.
ListBooks ==
  /\ IsChain(List, timerList, next)
  /\ InOrder(List, timer)
  /\ \A t \in ToSet(List) : timer[t].running /\ ~Unlinked(t)

\* The timer with which a call of timer_trigger goes on.
HeadAt(d) ==
  IF Level(d).do = "trigger" THEN Level(d).t
  ELSE IF Level(d).do = "called" THEN next[Level(d).t]
  ELSE None

\* A timer that has left the list because it is due.
Waiting(t) == timer[t].running /\ timer[t].expiry <= now /\ t \notin ToSet(List)

\* The chains c that the calls of timer_trigger have still to go through.
\* Every running timer is in one of them, in the list, or being stopped.
Chains(c) ==
  /\ c \in [1 .. Depth -> Seq(Timers)]
  /\ \A d \in 1 .. Depth : IsChain(c[d], HeadAt(d), next)
  /\ \A d \in 1 .. Depth : \A t \in ToSet(c[d]) : Waiting(t)
  /\ \A d, e \in 1 .. Depth : d # e => ToSet(c[d]) \cap ToSet(c[e]) = {}
  /\ \A t \in Timers : timer[t].running =>
       t \in ToSet(List) \/ Unlinked(t) \/ \E d \in 1 .. Depth : t \in ToSet(c[d])

\* Timers that are in the list, or will be, when the handler makes its next call.
Listed(t) ==
  \/ t \in ToSet(List) /\ ~(Depth >= 2 /\ Level(2).do \in {"stop", "unlink"} /\ Level(2).t = t)
  \/ Depth >= 2 /\ Level(2).do \in {"start", "insert"} /\ Level(2).t = t

\* Calls that stop a timer before they create it.
Guarded(ops, t) ==
  \A k \in DOMAIN ops : ops[k].op = "create" /\ ops[k].t = t =>
    \E j \in 1 .. k - 1 : ops[j].op = "stop" /\ ops[j].t = t

\* The handler does not overwrite timers that are in the list.
CreateBooks ==
  /\ Depth >= 1 /\ Level(1).do = "calls" =>
       Tidy(Level(1).calls) /\ \A t \in Timers : Listed(t) => Guarded(Level(1).calls, t)
  /\ Depth >= 2 /\ Level(2).do = "create" => Level(2).t \notin ToSet(List)

\* The alarm is armed for all of the list.
Covered ==
  \A t \in ToSet(List) : alarm # 0 /\ alarm <= timer[t].expiry + MinAlarm - 1

\* ... or timer_update is called before the program is idle.
AlarmBooks ==
  Covered \/ \E d \in 1 .. Depth : Level(d).do \in {"update", "insert", "unlink"}

\* A handler's timer_has_expired has found whatever was due.
PollBooks ==
  Depth >= 2 /\ Level(2).do = "polled" /\ (Depth = 2 \/ Level(3).do # "update") =>
    \A t \in ToSet(List) : timer[t].expiry > Level(2).time

PlainInv ==
  /\ Places /\ Expiries /\ ListBooks /\ (\E c : Chains(c))
  /\ CreateBooks /\ AlarmBooks /\ PollBooks

-----------------------------------------------------------------------------
(* Steps of the stack.                                                     *)

\* The n outermost frames stay, and these frames are put on them.
Grown(n, frames) ==
  /\ n \in 0 .. Depth /\ frames \in Seq(Frames)
  /\ Depth \in Nat /\ Depth' = n + Len(frames)
  /\ \A d \in 1 .. n : Level(d)' = Level(d)
  /\ \A j \in 1 .. Len(frames) : Level(n + j)' = frames[Len(frames) + 1 - j]

LEMMA LevelFacts ==
  ASSUME stack \in Seq(Frames)
  PROVE  /\ Depth \in Nat /\ (stack = <<>> <=> Depth = 0)
         /\ \A d \in 1 .. Depth : Level(d) \in Frames
         /\ stack # <<>> => Level(Depth) = Top /\ Top = Head(stack)
         /\ \A d \in 1 .. Depth : Depth + 1 - d \in DOMAIN stack
                                  /\ stack[Depth + 1 - d] = Level(d)
         /\ \A k \in DOMAIN stack : Depth + 1 - k \in 1 .. Depth
                                    /\ Level(Depth + 1 - k) = stack[k]
<1>1. Len(stack) \in Nat /\ DOMAIN stack = 1 .. Len(stack) /\ (stack = <<>> <=> Len(stack) = 0)
  BY LenProperties, EmptySeq
<1>2. \A k \in 1 .. Len(stack) : stack[k] \in Frames
  BY ElementOfSeq
<1>3. \A d \in 1 .. Len(stack) : Len(stack) + 1 - d \in 1 .. Len(stack)
  BY <1>1
<1>4. stack # <<>> => Level(Depth) = Top /\ Top = Head(stack)
  <2>1. Len(stack) + 1 - Len(stack) = 1
    BY <1>1
  <2> QED BY <1>1, <2>1 DEF Level, Depth, Top
<1>5. ASSUME NEW k \in 1 .. Len(stack) PROVE Level(Len(stack) + 1 - k) = stack[k]
  <2>1. Len(stack) + 1 - (Len(stack) + 1 - k) = k
    BY <1>1
  <2> QED BY <2>1 DEF Level
<1> QED BY <1>1, <1>2, <1>3, <1>4, <1>5 DEF Level, Depth

\* Frames are put on the stack.
LEMMA PushedFacts ==
  ASSUME stack \in Seq(Frames), NEW frames \in Seq(Frames), stack' = frames \o stack,
         NEW n \in Nat, n = Depth
  PROVE  Grown(n, frames) /\ stack' \in Seq(Frames)
<1>1. Len(stack) \in Nat /\ Len(frames) \in Nat
  BY LenProperties
<1>2. /\ stack' \in Seq(Frames) /\ Len(stack') = Len(frames) + Len(stack)
      /\ \A i \in 1 .. Len(frames) + Len(stack) :
           stack'[i] = IF i <= Len(frames) THEN frames[i] ELSE stack[i - Len(frames)]
  BY ConcatProperties
<1>3. ASSUME NEW d \in 1 .. Len(stack) PROVE Level(d)' = Level(d)
  <2> DEFINE i == Len(stack') + 1 - d
  <2>1. /\ i \in 1 .. Len(frames) + Len(stack) /\ ~(i <= Len(frames))
        /\ i - Len(frames) = Len(stack) + 1 - d
    BY <1>1, <1>2
  <2>2. stack'[i] = stack[Len(stack) + 1 - d]
    BY <1>2, <2>1
  <2> QED BY <2>2 DEF Level
<1>4. ASSUME NEW j \in 1 .. Len(frames)
      PROVE  Level(n + j)' = frames[Len(frames) + 1 - j]
  <2> DEFINE i == Len(stack') + 1 - (n + j)
  <2>1. /\ i \in 1 .. Len(frames) + Len(stack) /\ i <= Len(frames)
        /\ i = Len(frames) + 1 - j
    BY <1>1, <1>2, <1>4 DEF Depth
  <2>2. stack'[i] = frames[Len(frames) + 1 - j]
    BY <1>2, <2>1
  <2> QED BY <2>2 DEF Level
<1>5. /\ Depth' = n + Len(frames) /\ n \in 0 .. Depth /\ Depth \in Nat
  BY <1>1, <1>2 DEF Depth
<1>6. \A d \in 1 .. n : Level(d)' = Level(d)
  BY <1>3, Zenon DEF Depth
<1>7. \A j \in 1 .. Len(frames) : Level(n + j)' = frames[Len(frames) + 1 - j]
  BY <1>4, Zenon DEF Depth
<1> QED BY <1>2, <1>5, <1>6, <1>7, Zenon DEF Grown

\* The innermost function goes on with frames, or returns.
LEMMA GoneOn ==
  ASSUME stack \in Seq(Frames), stack # <<>>, NEW frames \in Seq(Frames), GoOn(frames),
         NEW n, n = Depth - 1
  PROVE  Grown(n, frames) /\ stack' \in Seq(Frames) /\ Depth \in Nat \ {0}
<1>0. /\ stack' \in Seq(Frames) /\ Len(stack) \in Nat \ {0} /\ Len(frames) \in Nat
      /\ Len(stack') = Len(frames) + Len(stack) - 1
      /\ \A k \in 1 .. Len(frames) : stack'[k] = frames[k]
      /\ \A k \in 2 .. Len(stack) : stack'[Len(frames) + k - 1] = stack[k]
  BY GoOnFacts
<1>1. ASSUME NEW d \in 1 .. Len(stack) - 1 PROVE Level(d)' = Level(d)
  <2> DEFINE k == Len(stack) + 1 - d
  <2>1. k \in 2 .. Len(stack) /\ Len(stack') + 1 - d = Len(frames) + k - 1
    BY <1>0
  <2> HIDE DEF k
  <2>2. stack'[Len(stack') + 1 - d] = stack[k]
    BY <1>0, <2>1
  <2> QED BY <2>2 DEF Level, k
<1>2. ASSUME NEW j \in 1 .. Len(frames)
      PROVE  Level(n + j)' = frames[Len(frames) + 1 - j]
  <2> DEFINE i == Len(stack') + 1 - (n + j)
  <2>1. i \in 1 .. Len(frames) /\ i = Len(frames) + 1 - j
    BY <1>0 DEF Depth
  <2>2. stack'[i] = frames[Len(frames) + 1 - j]
    BY <1>0, <2>1
  <2> QED BY <2>2 DEF Level
<1>3. /\ Depth' = n + Len(frames) /\ n \in 0 .. Depth
      /\ Depth \in Nat \ {0}
  BY <1>0 DEF Depth
<1>4. \A d \in 1 .. n : Level(d)' = Level(d)
  BY <1>1, Zenon DEF Depth
<1>5. \A j \in 1 .. Len(frames) : Level(n + j)' = frames[Len(frames) + 1 - j]
  BY <1>2, Zenon DEF Depth
<1> QED BY <1>0, <1>3, <1>4, <1>5 DEF Grown

-----------------------------------------------------------------------------
(* What a step preserves, part by part.                                    *)

LEMMA PlacesStep ==
  ASSUME Places, NEW n \in Nat, NEW frames, Grown(n, frames), stack \in Seq(Frames),
         now \in Nat, now' \in Nat, now <= now',
         n <= 1 \/ \A t \in Timers : Fired(t) => Fired(t)',
         \A d \in n + 1 .. Depth' : Placed(d, Level(d), Level(d - 1), Level(d - 2))'
  PROVE  Places'
<1>0. Depth \in Nat /\ n <= Depth /\ \A d \in 1 .. n : Level(d)' = Level(d)
  BY DEF Grown
<1>1. ASSUME NEW d \in 1 .. n
      PROVE  Placed(d, Level(d), Level(d - 1), Level(d - 2))'
  <2>1. d \in 1 .. Depth /\ Placed(d, Level(d), Level(d - 1), Level(d - 2))
    BY <1>0 DEF Places
  <2>2. Level(d) \in Frames /\ Level(d)' = Level(d)
    BY <1>0, <2>1, LevelFacts
  <2>3. d # 1 => Level(d - 1)' = Level(d - 1)
    BY <1>0
  <2>4. d > 2 => Level(d - 2)' = Level(d - 2)
    BY <1>0
  <2>5. Level(d).time <= now'
    <3>1. Level(d).time <= now /\ Level(d).time \in Nat
      BY <2>1, <2>2 DEF Placed, Frames
    <3> QED BY <3>1
  <2>6. ASSUME Level(d).do = "called"
        PROVE  \E t \in Timers : t = Level(d)'.t /\ Fired(t)'
    <3>1. d # 1 /\ Fired(Level(d).t) /\ Level(d).t \in Timers
      BY <2>1, <2>2, <2>6 DEF Placed, Frames, OfATimer
    <3>2. ~(n <= 1)
      BY <3>1
    <3>3. PICK t \in Timers : t = Level(d).t
      BY <3>1
    <3> QED BY <2>2, <3>1, <3>2, <3>3
  <2>7. d = 1 \/ d = 2 \/ d > 2
    OBVIOUS
  <2> QED BY <2>1, <2>2, <2>3, <2>4, <2>5, <2>6, <2>7 DEF Placed
<1>2. \A d \in 1 .. Depth' : d \in 1 .. n \/ d \in n + 1 .. Depth'
  BY DEF Grown
<1> QED BY <1>1, <1>2 DEF Places

LEMMA ExpiriesStep ==
  ASSUME Expiries, timer \in Fields, now \in Nat, now' \in Nat, now <= now', NEW x,
         \A t \in Timers \ {x} : timer'[t] = timer[t] /\ due'[t] = due[t],
         x \in Timers => ExpiryOf(x)'
  PROVE  Expiries'
<1> SUFFICES ASSUME NEW t \in Timers, t # x PROVE ExpiryOf(t)'
  BY DEF Expiries
<1>1. timer[t].expiry \in Int /\ ExpiryOf(t)
  BY DEF Fields, Expiries
<1>2. timer[t].expiry + now >= 1 => timer[t].expiry + now' >= 1
  BY <1>1
<1> QED BY <1>1, <1>2 DEF ExpiryOf

\* A step that leaves the timers in the list alone.
Stay(t) == timer'[t] = timer[t] /\ next'[t] = next[t]

LEMMA ListKept ==
  ASSUME ListBooks, timerList' = timerList,
         \A t \in ToSet(List) : Stay(t) /\ ~Unlinked(t)'
  PROVE  List' = List /\ ListBooks'
<1>1. IsChain(List, timerList', next')
  <2>1. \A t \in ToSet(List) : next'[t] = next[t]
    BY DEF Stay
  <2> QED BY <2>1, ChainKept DEF ListBooks
<1>2. List' = List
  BY <1>1, ListNext, Zenon
<1>3. \A k \in 1 .. Len(List) : timer'[List[k]] = timer[List[k]]
  BY SeqFacts DEF Stay, ListBooks, IsChain
<1>4. InOrder(List, timer')
  BY <1>3 DEF ListBooks, InOrder
<1>5. \A t \in ToSet(List) : timer'[t].running
  BY DEF Stay, ListBooks
<1> QED BY <1>1, <1>2, <1>4, <1>5, Zenon DEF ListBooks

LEMMA ListedKept ==
  ASSUME NEW n \in Nat, NEW frames, Grown(n, frames), n >= 2, NEW t,
         ToSet(List') \subseteq ToSet(List), Listed(t)'
  PROVE  Listed(t)
<1>1. Level(2)' = Level(2) /\ Depth >= 2 /\ Depth' >= 2
  BY LenProperties DEF Grown
<1> QED BY <1>1, Zenon DEF Listed

LEMMA CreateKept ==
  ASSUME CreateBooks, NEW n \in Nat, NEW frames, Grown(n, frames), n >= 1,
         \A t \in Timers : Listed(t)' => Listed(t),
         Depth' >= 2 /\ Level(2)'.do = "create" => n >= 2 /\ ToSet(List') \subseteq ToSet(List)
  PROVE  CreateBooks'
<1>1. Level(1)' = Level(1) /\ Depth >= 1 /\ (n >= 2 => Level(2)' = Level(2) /\ Depth >= 2)
  BY DEF Grown
<1> QED BY <1>1, Zenon DEF CreateBooks

LEMMA AlarmKept ==
  ASSUME AlarmBooks, NEW n \in Nat, NEW frames, Grown(n, frames), Covered => Covered',
         \A d \in n + 1 .. Depth : Level(d).do \notin {"update", "insert", "unlink"}
  PROVE  AlarmBooks'
<1>1. SUFFICES ASSUME ~Covered PROVE AlarmBooks'
  BY DEF AlarmBooks
<1>2. PICK d \in 1 .. Depth : Level(d).do \in {"update", "insert", "unlink"}
  BY <1>1 DEF AlarmBooks
<1>3. d \in 1 .. n /\ d \in 1 .. Depth' /\ Level(d)' = Level(d)
  BY <1>2, LenProperties DEF Grown
<1> QED BY <1>2, <1>3 DEF AlarmBooks

LEMMA PollKept ==
  ASSUME PollBooks, NEW n \in Nat, NEW frames, Grown(n, frames), n >= 2, Depth <= n + 1,
         ToSet(List') \subseteq ToSet(List),
         \A t \in ToSet(List') : timer'[t].expiry = timer[t].expiry,
         n = 2 /\ Depth = 3 /\ Level(2).do = "polled" => Level(3).do # "update"
  PROVE  PollBooks'
<1>1. /\ Level(2)' = Level(2) /\ Depth \in Nat /\ Depth >= n /\ Depth' >= n /\ Depth' \in Nat
      /\ (n >= 3 => Level(3)' = Level(3))
  BY LenProperties DEF Grown
<1>2. n >= 3 => Depth' # 2 /\ Depth # 2
  BY <1>1
<1>3. n < 3 => Depth = 2 \/ (n = 2 /\ Depth = 3)
  BY <1>1
<1>4. Level(2).do = "polled" /\ (Depth' = 2 \/ Level(3)'.do # "update") => Depth = 2 \/ Level(3).do # "update"
  BY <1>1, <1>2, <1>3
<1>5. Depth >= 2
  BY <1>1
<1>6. SUFFICES ASSUME Level(2).do = "polled", Depth' = 2 \/ Level(3)'.do # "update",
                      NEW t \in ToSet(List')
               PROVE  timer'[t].expiry > Level(2)'.time
  BY <1>1, Zenon DEF PollBooks
<1>7. timer[t].expiry > Level(2).time
  BY <1>4, <1>5, <1>6, Zenon DEF PollBooks
<1> QED BY <1>1, <1>6, <1>7

LEMMA PollNew ==
  ASSUME Depth' >= 2 /\ Level(2)'.do = "polled" => Depth' # 2 /\ Level(3)'.do = "update"
  PROVE  PollBooks'
BY DEF PollBooks

\* The chains of the calls that stay are kept, and r is that of a new call.
LEMMA PendingStep ==
  ASSUME NEW c, Chains(c), NEW n \in Nat, NEW frames, Grown(n, frames), NEW r \in Seq(Timers),
         \A d \in 1 .. n : \A t \in ToSet(c[d]) : next'[t] = next[t] /\ Waiting(t)',
         \A d \in 1 .. n : Level(d).do = "called" => next'[Level(d).t] = next[Level(d).t],
         IF frames = <<>> THEN r = <<>> ELSE IsChain(r, HeadAt(n + 1)', next'),
         \A d \in n + 2 .. Depth' : HeadAt(d)' = None,
         \A t \in ToSet(r) : Waiting(t)',
         \A d \in 1 .. n : ToSet(r) \cap ToSet(c[d]) = {},
         \A t \in Timers : timer'[t].running =>
           \/ t \in ToSet(List') \/ Unlinked(t)'
           \/ t \in ToSet(r) \/ \E d \in 1 .. n : t \in ToSet(c[d])
  PROVE  \E e : Chains(e)'
<1>0. PICK m : m = Depth'
  OBVIOUS
<1>1. /\ m \in Nat /\ n <= m /\ n <= Depth /\ Depth \in Nat
      /\ (frames = <<>> <=> m = n)
      /\ \A d \in 1 .. n : Level(d)' = Level(d)
  <2>1. Len(frames) \in Nat /\ (frames = <<>> <=> Len(frames) = 0)
    BY LenProperties, EmptySeq DEF Grown
  <2> QED BY <1>0, <2>1 DEF Grown
<1> DEFINE e == [d \in 1 .. m |-> IF d <= n THEN c[d] ELSE IF d = n + 1 THEN r ELSE <<>>]
<1>2. /\ \A d \in 1 .. n : d \in 1 .. m /\ d \in 1 .. Depth /\ e[d] = c[d]
      /\ n + 1 \in 1 .. m => e[n + 1] = r
      /\ \A d \in n + 2 .. m : e[d] = <<>>
  BY <1>1
<1>3. \A d \in 1 .. m : d \in 1 .. n \/ (d = n + 1 /\ n + 1 \in 1 .. m) \/ d \in n + 2 .. m
  BY <1>1
<1>4. <<>> \in Seq(Timers) /\ ToSet(<<>>) = {}
  BY DEF ToSet
<1>5. \A d \in 1 .. Depth : c[d] \in Seq(Timers) /\ IsChain(c[d], HeadAt(d), next)
  BY DEF Chains
<1>6. e \in [1 .. m -> Seq(Timers)]
  BY <1>1, <1>4, <1>5
<1> HIDE DEF e
<1>7. ASSUME NEW d \in 1 .. m PROVE IsChain(e[d], HeadAt(d)', next')
  <2>1. CASE d \in 1 .. n
    <3>1. IsChain(c[d], HeadAt(d), next)
      BY <1>2, <1>5, <2>1
    <3>2. HeadAt(d)' = HeadAt(d)
      BY <1>1, <2>1 DEF HeadAt
    <3>3. IsChain(c[d], HeadAt(d), next')
      BY <2>1, <3>1, ChainKept
    <3> QED BY <1>2, <2>1, <3>2, <3>3
  <2>2. CASE d = n + 1
    <3>1. frames # <<>>
      BY <1>1, <2>2
    <3> QED BY <1>2, <2>2, <3>1
  <2>3. CASE d \in n + 2 .. m
    <3>1. HeadAt(d)' = None
      BY <1>0, <2>3
    <3> QED BY <1>2, <2>3, <3>1, EmptyChain
  <2> QED BY <1>3, <2>1, <2>2, <2>3
<1>8. \A d \in 1 .. m : \A t \in ToSet(e[d]) : Waiting(t)'
  BY <1>2, <1>3, <1>4
<1>9. \A d, f \in 1 .. m : d # f => ToSet(e[d]) \cap ToSet(e[f]) = {}
  <2>1. \A d, f \in 1 .. Depth : d # f => ToSet(c[d]) \cap ToSet(c[f]) = {}
    BY DEF Chains
  <2> SUFFICES ASSUME NEW d \in 1 .. m, NEW f \in 1 .. m, d # f,
                      NEW t \in ToSet(e[d]), t \in ToSet(e[f])
               PROVE  FALSE
    OBVIOUS
  <2>2. d \in 1 .. n + 1 /\ f \in 1 .. n + 1
    BY <1>2, <1>3, <1>4
  <2>3. CASE d \in 1 .. n /\ f \in 1 .. n
    <3>1. ToSet(c[d]) \cap ToSet(c[f]) = {} /\ e[d] = c[d] /\ e[f] = c[f]
      BY <1>2, <2>1, <2>3
    <3> QED BY <3>1
  <2>4. CASE d = n + 1 /\ f \in 1 .. n
    <3>1. ToSet(r) \cap ToSet(c[f]) = {} /\ e[d] = r /\ e[f] = c[f]
      BY <1>2, <2>4
    <3> QED BY <3>1
  <2>5. CASE f = n + 1 /\ d \in 1 .. n
    <3>1. ToSet(r) \cap ToSet(c[d]) = {} /\ e[f] = r /\ e[d] = c[d]
      BY <1>2, <2>5
    <3> QED BY <3>1
  <2> QED BY <2>2, <2>3, <2>4, <2>5
<1>10. ASSUME NEW t \in Timers, timer'[t].running
       PROVE  t \in ToSet(List') \/ Unlinked(t)' \/ \E d \in 1 .. m : t \in ToSet(e[d])
  <2>1. CASE t \in ToSet(r)
    <3>1. r # <<>>
      BY <1>4, <2>1
    <3>2. n + 1 \in 1 .. m
      BY <1>1, <3>1
    <3> QED BY <1>2, <2>1, <3>2
  <2> QED BY <1>2, <1>10, <2>1
<1>11. Chains(e)'
  BY <1>0, <1>6, <1>7, <1>8, <1>9, <1>10 DEF Chains
<1> QED BY <1>11

-----------------------------------------------------------------------------
(* Steps that leave the timers alone.                                      *)

\* The chain of the innermost function, if that goes on or returns.
Innermost(n) == IF n = Depth THEN None ELSE HeadAt(n + 1)

LEMMA QuietPending ==
  ASSUME NEW c, Chains(c), Rest, NEW n \in Nat, NEW frames, Grown(n, frames),
         List' = List, now \in Nat, now' \in Nat, now <= now', timer \in Fields,
         n = Depth \/ (n + 1 = Depth /\ Top.do # "stopped" /\ Level(Depth) = Top),
         IF frames = <<>> THEN Innermost(n) = None ELSE HeadAt(n + 1)' = Innermost(n),
         \A d \in n + 2 .. Depth' : HeadAt(d)' = None
  PROVE  \E e : Chains(e)'
<1>0. Depth \in Nat /\ \A d \in 1 .. n : d \in 1 .. Depth /\ Level(d)' = Level(d)
  BY DEF Grown
<1>1. /\ \A d \in 1 .. Depth : c[d] \in Seq(Timers) /\ IsChain(c[d], HeadAt(d), next)
      /\ \A d \in 1 .. Depth : \A t \in ToSet(c[d]) : Waiting(t) /\ t \in Timers
      /\ \A d, e \in 1 .. Depth : d # e => ToSet(c[d]) \cap ToSet(c[e]) = {}
      /\ \A t \in Timers : timer[t].running =>
           t \in ToSet(List) \/ Unlinked(t) \/ \E d \in 1 .. Depth : t \in ToSet(c[d])
  BY SeqFacts DEF Chains
<1>r. UNCHANGED <<timer, next>>
  BY DEF Rest
<1>2. \A t \in Timers : Waiting(t) => Waiting(t)'
  <2> SUFFICES ASSUME NEW t \in Timers, timer[t].expiry <= now PROVE timer[t].expiry <= now'
    BY <1>r, Zenon DEF Waiting
  <2>1. timer[t].expiry \in Int
    BY DEF Fields
  <2> QED BY <2>1
<1>3. \A t : Unlinked(t) => Unlinked(t)'
  <2> SUFFICES ASSUME NEW t, Unlinked(t) PROVE Unlinked(t)'
    OBVIOUS
  <2>1. Depth >= 2 /\ Level(2).do = "stopped"
    BY DEF Unlinked
  <2>2. n >= 2
    BY <1>0, <2>1
  <2>3. Depth' >= 2 /\ Level(2)' = Level(2)
    BY <1>0, <2>2, LenProperties DEF Grown
  <2> QED BY <2>3, Zenon DEF Unlinked
<1> DEFINE r == IF n = Depth THEN <<>> ELSE c[n + 1]
<1>4. /\ r \in Seq(Timers) /\ IsChain(r, Innermost(n), next)
      /\ \A t \in ToSet(r) : Waiting(t) /\ t \in Timers
      /\ \A d \in 1 .. n : ToSet(r) \cap ToSet(c[d]) = {}
      /\ \A t \in Timers : timer[t].running =>
           t \in ToSet(List) \/ Unlinked(t) \/ t \in ToSet(r) \/ \E d \in 1 .. n : t \in ToSet(c[d])
  <2>1. CASE n = Depth
    <3>1. r = <<>> /\ Innermost(n) = None /\ ToSet(<<>>) = {}
      BY <2>1 DEF Innermost, ToSet
    <3> HIDE DEF r
    <3> QED BY <1>1, <2>1, <3>1, EmptyChain
  <2>2. CASE n # Depth
    <3>1. r = c[n + 1] /\ Innermost(n) = HeadAt(n + 1) /\ n + 1 \in 1 .. Depth
      BY <1>0, <2>2 DEF Innermost
    <3> HIDE DEF r
    <3>2. \A d \in 1 .. Depth : d = n + 1 \/ d \in 1 .. n
      BY <1>0, <2>2
    <3>3. \A d \in 1 .. n : d # n + 1
      OBVIOUS
    <3> QED BY <1>0, <1>1, <3>1, <3>2, <3>3
  <2> QED BY <2>1, <2>2
<1> HIDE DEF r
<1>5. PICK s : s = r
  OBVIOUS
<1>6. frames = <<>> => r = <<>>
  BY <1>4, EmptyChain
<1>7. IF frames = <<>> THEN s = <<>> ELSE IsChain(s, HeadAt(n + 1)', next')
  BY <1>r, <1>4, <1>5, <1>6
<1>8. \A d \in 1 .. n : \A t \in ToSet(c[d]) : next'[t] = next[t] /\ Waiting(t)'
  BY <1>r, <1>0, <1>1, <1>2
<1>9. \A t \in ToSet(s) : Waiting(t)'
  BY <1>2, <1>4, <1>5
<1>10. \A t \in Timers : timer'[t].running =>
           \/ t \in ToSet(List') \/ Unlinked(t)'
           \/ t \in ToSet(s) \/ \E d \in 1 .. n : t \in ToSet(c[d])
  BY <1>r, <1>3, <1>4, <1>5
<1> QED BY <1>r, <1>4, <1>5, <1>7, <1>8, <1>9, <1>10, PendingStep

\* A step of the stack alone, or of the time.
LEMMA QuietStep ==
  ASSUME IInv, PlainInv, Rest, NEW n \in Nat, NEW frames, Grown(n, frames),
         now' \in Nat, now <= now',
         n = Depth \/ (n + 1 = Depth /\ Top.do # "stopped" /\ Level(Depth) = Top),
         IF frames = <<>> THEN Innermost(n) = None ELSE HeadAt(n + 1)' = Innermost(n),
         \A d \in n + 2 .. Depth' : HeadAt(d)' = None,
         Depth' >= 2 /\ Level(2)'.do = "stopped" => n >= 2,
         \A d \in n + 1 .. Depth' : Placed(d, Level(d), Level(d - 1), Level(d - 2))',
         List' = List => CreateBooks' /\ AlarmBooks' /\ PollBooks'
  PROVE  PlainInv'
<1>1. /\ stack \in Seq(Frames) /\ timer \in Fields /\ now \in Nat
      /\ UNCHANGED <<timer, next, timerList, due>>
  BY Types DEF IInv, TypeOK, Rest
<1>2. List' = List /\ ListBooks'
  <2>1. \A t \in ToSet(List) : Stay(t) /\ ~Unlinked(t)'
    <3> SUFFICES ASSUME NEW t \in ToSet(List), Unlinked(t)' PROVE FALSE
      BY <1>1 DEF Stay
    <3>1. Depth' >= 2 /\ Level(2)'.do = "stopped" /\ Level(2)'.t = t
      BY DEF Unlinked
    <3>2. Level(2)' = Level(2) /\ Depth >= 2
      BY <3>1 DEF Grown
    <3>3. Unlinked(t)
      BY <3>1, <3>2 DEF Unlinked
    <3> QED BY <3>3 DEF PlainInv, ListBooks
  <2> QED BY <1>1, <2>1, ListKept DEF PlainInv
<1>3. Expiries'
  <2>1. /\ \A t \in Timers \ {None} : timer'[t] = timer[t] /\ due'[t] = due[t]
        /\ None \notin Timers
    BY <1>1, TimersAssumption
  <2> QED BY <1>1, <2>1, ExpiriesStep DEF PlainInv
<1>4. Places'
  <2>1. \A t \in Timers : Fired(t) => Fired(t)'
    BY <1>1 DEF Fired
  <2> QED BY <1>1, <2>1, PlacesStep DEF PlainInv
<1>5. \E e : Chains(e)'
  BY <1>1, <1>2, QuietPending DEF PlainInv
<1> QED BY <1>2, <1>3, <1>4, <1>5, Zenon DEF PlainInv

LEMMA Here ==
  ASSUME IInv, PlainInv, NEW do, At(do)
  PROVE  /\ stack \in Seq(Frames) /\ stack # <<>> /\ Held /\ Top.do = do /\ do # "wild"
         /\ Top \in Frames /\ Depth \in Nat \ {0} /\ Level(Depth) = Top
         /\ \A d \in 1 .. Depth : Level(d) \in Frames
         /\ Placed(Depth, Top, Level(Depth - 1), Level(Depth - 2))
         /\ Level(1).do \in {"calls", "iret"}
         /\ do \notin {"calls", "iret"} => Depth >= 2
<1>1. stack \in Seq(Frames) /\ stack # <<>> /\ Top.do = do
  BY DEF IInv, TypeOK, At, Top
<1>2. /\ Depth \in Nat \ {0} /\ Level(Depth) = Top /\ \A d \in 1 .. Depth : Level(d) \in Frames
      /\ Depth \in 1 .. Depth /\ 1 \in 1 .. Depth
  BY <1>1, LevelFacts
<1>3. Placed(Depth, Top, Level(Depth - 1), Level(Depth - 2)) /\ Top \in Frames
  BY <1>2, Zenon DEF PlainInv, Places
<1>4. Level(1).do \in {"calls", "iret"}
  BY <1>2 DEF PlainInv, Places, Placed
<1>5. do # "wild"
  BY <1>1, <1>3 DEF Placed
<1>6. Held
  BY <1>1, <1>5, TopFacts
<1> QED BY <1>1, <1>2, <1>3, <1>4, <1>5, <1>6

\* The stack when one, two or three frames are put on it.
LEMMA ShortGrown ==
  ASSUME NEW n \in Nat
  PROVE  /\ Grown(n, <<>>) => Depth' = n
         /\ \A f \in Frames : Grown(n, <<f>>) => Depth' = n + 1 /\ Level(n + 1)' = f
         /\ \A f, g \in Frames :
              Grown(n, <<f, g>>) => Depth' = n + 2 /\ Level(n + 1)' = g /\ Level(n + 2)' = f
         /\ \A f, g, h \in Frames :
              Grown(n, <<f, g, h>>) =>
                Depth' = n + 3 /\ Level(n + 1)' = h /\ Level(n + 2)' = g /\ Level(n + 3)' = f
<1>1. Grown(n, <<>>) => Depth' = n
  BY DEF Grown
<1>2. ASSUME NEW f \in Frames, Grown(n, <<f>>)
      PROVE  Depth' = n + 1 /\ Level(n + 1)' = f
  <2>1. Len(<<f>>) = 1 /\ <<f>>[1 + 1 - 1] = f
    BY ShortSeqs
  <2> QED BY <1>2, <2>1 DEF Grown
<1>3. ASSUME NEW f \in Frames, NEW g \in Frames, Grown(n, <<f, g>>)
      PROVE  Depth' = n + 2 /\ Level(n + 1)' = g /\ Level(n + 2)' = f
  <2>1. Len(<<f, g>>) = 2 /\ <<f, g>>[2 + 1 - 1] = g /\ <<f, g>>[2 + 1 - 2] = f
    BY ShortSeqs
  <2> QED BY <1>3, <2>1 DEF Grown
<1>4. ASSUME NEW f \in Frames, NEW g \in Frames, NEW h \in Frames, Grown(n, <<f, g, h>>)
      PROVE  Depth' = n + 3 /\ Level(n + 1)' = h /\ Level(n + 2)' = g /\ Level(n + 3)' = f
  <2>1. /\ Len(<<f, g, h>>) = 3 /\ <<f, g, h>>[3 + 1 - 1] = h /\ <<f, g, h>>[3 + 1 - 2] = g
        /\ <<f, g, h>>[3 + 1 - 3] = f
    BY ShortSeqs
  <2> QED BY <1>4, <2>1 DEF Grown
<1> QED BY <1>1, <1>2, <1>3, <1>4

\* While the list and the alarm stay, the alarm covers the list.
LEMMA CoveredKept ==
  ASSUME UNCHANGED <<timer, alarm>>, List' = List, Covered
  PROVE  Covered'
BY DEF Covered

\* A function that has changed no timer returns.
LEMMA QuietReturn ==
  ASSUME IInv, PlainInv, Rest, UNCHANGED <<now, alarm>>, NEW do, At(do), GoOn(<<>>),
         do \in {"trigger", "polled", "iret", "calls"} \/ (do = "update" /\ timerLock),
         HeadAt(Depth) = None
  PROVE  PlainInv'
<1>0. /\ stack \in Seq(Frames) /\ stack # <<>> /\ Held /\ Top.do = do
      /\ Depth \in Nat \ {0} /\ Level(Depth) = Top /\ Level(1).do \in {"calls", "iret"}
  BY Here
<1>1. PICK n \in Nat : n = Depth - 1
  BY <1>0
<1>2. Grown(n, <<>>) /\ Depth' = n /\ n + 1 = Depth /\ n # Depth
  <2>1. <<>> \in Seq(Frames)
    BY ShortSeqs
  <2>2. Grown(n, <<>>)
    BY <1>0, <1>1, <2>1, GoneOn
  <2> QED BY <1>0, <1>1, <2>2, ShortGrown
<1>3. Innermost(n) = None
  BY <1>2 DEF Innermost
<1>4. now' \in Nat /\ now <= now' /\ UNCHANGED <<timer, alarm>>
  BY Types DEF Rest
<1>5. ASSUME List' = List PROVE CreateBooks' /\ AlarmBooks' /\ PollBooks'
  <2>1. CreateBooks'
    <3>1. CASE n = 0
      BY <1>2, <3>1 DEF CreateBooks
    <3>2. CASE n = 1
      <4>1. Depth' = 1 /\ Depth = 2 /\ Level(2).do = do
        BY <1>0, <1>2, <3>2
      <4>2. \A t \in Timers : Listed(t)' => Listed(t)
        BY <1>5, <4>1 DEF Listed
      <4> QED BY <1>2, <3>2, <4>1, <4>2, CreateKept DEF PlainInv
    <3>3. CASE n >= 2
      <4>1. \A t \in Timers : Listed(t)' => Listed(t)
        BY <1>2, <1>5, <3>3, ListedKept
      <4> QED BY <1>2, <1>5, <3>3, <4>1, CreateKept DEF PlainInv
    <3> QED BY <3>1, <3>2, <3>3
  <2>2. do = "update" => \E d \in 1 .. n : Level(d).do \in {"insert", "unlink"}
    <3> SUFFICES ASSUME do = "update" PROVE \E d \in 1 .. n : Level(d).do \in {"insert", "unlink"}
      OBVIOUS
    <3>0. timerLock
      OBVIOUS
    <3>1. PICK k \in DOMAIN stack : stack[k].do \in Locking
      BY <1>0, <3>0, Zenon DEF Held
    <3>2. PICK d \in 1 .. Depth : Level(d) = stack[k]
      BY <1>0, LevelFacts
    <3>3. d # Depth
      BY <1>0, <3>1, <3>2 DEF Locking
    <3> QED BY <1>2, <3>1, <3>2, <3>3 DEF Locking
  <2>3. AlarmBooks'
    <3>1. CASE do # "update"
      <4>1. \A d \in n + 1 .. Depth : Level(d).do \notin {"update", "insert", "unlink"}
        BY <1>0, <1>2, <3>1
      <4> QED BY <1>2, <1>4, <1>5, <4>1, CoveredKept, AlarmKept DEF PlainInv
    <3>2. CASE do = "update"
      <4>1. PICK d \in 1 .. n : Level(d).do \in {"insert", "unlink"}
        BY <2>2, <3>2
      <4>2. d \in 1 .. Depth' /\ Level(d)' = Level(d)
        BY <1>2 DEF Grown
      <4> QED BY <4>1, <4>2 DEF AlarmBooks
    <3> QED BY <3>1, <3>2
  <2>4. PollBooks'
    <3>1. CASE n <= 1
      BY <1>2, <3>1, PollNew
    <3>2. CASE n >= 2
      <4>1. ASSUME n = 2, Depth = 3, Level(2).do = "polled" PROVE Level(3).do # "update"
        <5> SUFFICES ASSUME do = "update" PROVE FALSE
          BY <1>0, <4>1
        <5>1. PICK d \in 1 .. 2 : Level(d).do \in {"insert", "unlink"}
          BY <2>2, <4>1
        <5>2. d = 1 \/ d = 2
          OBVIOUS
        <5> QED BY <1>0, <4>1, <5>1, <5>2
      <4> QED BY <1>2, <1>4, <1>5, <3>2, <4>1, PollKept DEF PlainInv
    <3> QED BY <3>1, <3>2
  <2> QED BY <2>1, <2>3, <2>4
<1>6. /\ \A d \in n + 2 .. Depth' : HeadAt(d)' = None
      /\ \A d \in n + 1 .. Depth' : Placed(d, Level(d), Level(d - 1), Level(d - 2))'
      /\ Depth' >= 2 => n >= 2
  BY <1>2
<1> QED BY <1>0, <1>2, <1>3, <1>4, <1>5, <1>6, QuietStep

\* A function that has changed no timer goes on.
LEMMA QuietOne ==
  ASSUME IInv, PlainInv, Rest, UNCHANGED <<now, alarm>>, NEW do, At(do), NEW f, GoOn(<<f>>),
         \/ do = "called" /\ f = Trigger(next[Top.t])
         \/ do = "start" /\ f = Frame("insert", Top.t, 0)
         \/ do = "stop" /\ f = Frame("unlink", Top.t, Top.time)
         \/ do = "insert" /\ f = Update
  PROVE  PlainInv'
<1>0. /\ stack \in Seq(Frames) /\ stack # <<>> /\ Top.do = do /\ Top \in Frames
      /\ Depth \in Nat \ {0} /\ Level(Depth) = Top /\ Level(1).do \in {"calls", "iret"}
      /\ Depth >= 2 /\ Placed(Depth, Top, Level(Depth - 1), Level(Depth - 2))
  BY Here
<1>f. f \in Frames
  <2>1. Top.t \in Timers /\ Top.time \in Nat
    BY <1>0 DEF Frames, OfATimer
  <2>2. next[Top.t] \in Timers \cup {None}
    BY <2>1, Types DEF Links
  <2> QED BY <2>1, <2>2, FrameTypes DEF OfATimer
<1>1. PICK n \in Nat : n = Depth - 1
  BY <1>0
<1>2. Grown(n, <<f>>) /\ Depth' = n + 1 /\ Level(n + 1)' = f /\ n + 1 = Depth /\ n # Depth /\ n >= 1
  <2>1. <<f>> \in Seq(Frames)
    BY <1>f, ShortSeqs
  <2>2. Grown(n, <<f>>)
    BY <1>0, <1>1, <2>1, GoneOn
  <2> QED BY <1>0, <1>f, <1>1, <2>2, ShortGrown
<1>3. now' \in Nat /\ now <= now' /\ UNCHANGED <<timer, alarm>> /\ now \in Nat
  BY Types DEF Rest
<1>4. /\ f.do = CASE do = "called" -> "trigger" [] do = "start" -> "insert"
                  [] do = "stop" -> "unlink" [] do = "insert" -> "update"
      /\ do \in {"start", "stop"} => f.t = Top.t
      /\ do = "called" => f.t = next[Top.t]
      /\ f.time = 0 \/ f.time = Top.time
      /\ do \in {"called", "start", "stop", "insert"}
  BY DEF Trigger, Frame, Update
<1>5. Innermost(n) = HeadAt(n + 1)'
  <2>1. HeadAt(n + 1)' = IF f.do = "trigger" THEN f.t ELSE None
    BY <1>2, <1>4, Zenon DEF HeadAt
  <2>2. HeadAt(n + 1) = IF Top.do = "called" THEN next[Top.t] ELSE None
    BY <1>0, <1>2, <1>4 DEF HeadAt
  <2> QED BY <1>0, <1>2, <1>4, <2>1, <2>2 DEF Innermost
<1>6. ASSUME List' = List PROVE CreateBooks' /\ AlarmBooks' /\ PollBooks'
  <2>1. \A t \in Timers : Listed(t)' => Listed(t)
    <3>1. CASE n = 1
      <4>1. Depth = 2 /\ Depth' = 2 /\ Level(2) = Top /\ Level(2)' = f
        BY <1>0, <1>2, <3>1
      <4> QED BY <1>0, <1>4, <1>6, <4>1 DEF Listed
    <3>2. CASE n >= 2
      BY <1>2, <1>6, <3>2, ListedKept
    <3> QED BY <1>2, <3>1, <3>2
  <2>2. CreateBooks'
    <3>1. Depth' >= 2 /\ Level(2)'.do = "create" => n >= 2 /\ ToSet(List') \subseteq ToSet(List)
      <4>1. n = 1 => Level(2)'.do # "create"
        BY <1>2, <1>4
      <4> QED BY <1>2, <1>6, <4>1
    <3> QED BY <1>2, <2>1, <3>1, CreateKept DEF PlainInv
  <2>3. AlarmBooks'
    <3>1. CASE do \in {"start", "stop", "insert"}
      <4>1. f.do \in {"update", "insert", "unlink"} /\ n + 1 \in 1 .. Depth'
        BY <1>2, <1>4, <3>1
      <4> QED BY <1>2, <4>1 DEF AlarmBooks
    <3>2. CASE do = "called"
      <4>1. \A d \in n + 1 .. Depth : Level(d).do \notin {"update", "insert", "unlink"}
        BY <1>0, <1>2, <3>2
      <4> QED BY <1>2, <1>3, <1>6, <4>1, CoveredKept, AlarmKept DEF PlainInv
    <3> QED BY <1>4, <3>1, <3>2
  <2>4. PollBooks'
    <3>1. CASE n = 1
      <4>1. Level(2)'.do # "polled"
        BY <1>2, <1>4, <3>1
      <4> QED BY <4>1, PollNew
    <3>2. CASE n >= 2
      <4>1. n = 2 /\ Depth = 3 => Level(3).do # "update"
        BY <1>0, <1>4
      <4> QED BY <1>2, <1>3, <1>6, <3>2, <4>1, PollKept DEF PlainInv
    <3> QED BY <1>2, <3>1, <3>2
  <2> QED BY <2>2, <2>3, <2>4
<1>7. ASSUME NEW d \in n + 1 .. Depth'
      PROVE  Placed(d, Level(d), Level(d - 1), Level(d - 2))'
  <2>0. d = n + 1 /\ d = Depth /\ d # 1 /\ Level(d)' = f
    BY <1>2
  <2>1. f.time <= now'
    BY <1>0, <1>3, <1>4 DEF Placed
  <2>2. do = "stop" /\ d # 2 =>
          d > 2 /\ Level(d - 2)'.do = "called" /\ Level(d - 2)'.t = f.t
    <3> SUFFICES ASSUME do = "stop", d # 2
                 PROVE  d > 2 /\ Level(d - 2)'.do = "called" /\ Level(d - 2)'.t = f.t
      OBVIOUS
    <3>1. d - 2 \in 1 .. n /\ d > 2
      BY <1>2, <2>0
    <3>2. Level(d - 2)' = Level(d - 2)
      BY <1>2, <3>1 DEF Grown
    <3>3. Level(d - 2).do = "called" /\ Level(d - 2).t = Top.t
      BY <1>0, <2>0 DEF Placed
    <3> QED BY <1>4, <3>1, <3>2, <3>3
  <2>3. do = "start" => d = 2
    BY <1>0, <2>0 DEF Placed
  <2> QED BY <1>4, <2>0, <2>1, <2>2, <2>3, Zenon DEF Placed
<1>8. /\ \A d \in n + 2 .. Depth' : HeadAt(d)' = None
      /\ \A d \in n + 1 .. Depth' : d = n + 1
      /\ n + 1 = Depth /\ Top.do # "stopped" /\ <<f>> # <<>>
  BY <1>0, <1>2, <1>4
<1>9. Depth' >= 2 /\ Level(2)'.do = "stopped" => n >= 2
  BY <1>2, <1>4
<1>10. \A d \in n + 1 .. Depth' : Placed(d, Level(d), Level(d - 1), Level(d - 2))'
  BY <1>7
<1> QED BY <1>0, <1>2, <1>3, <1>5, <1>6, <1>8, <1>9, <1>10, QuietStep

\* What is left of a handler's calls when it has made the first.
LEMMA TailCalls ==
  ASSUME NEW ops \in Seq(Op), ops # <<>>, Tidy(ops)
  PROVE  /\ Tail(ops) \in Seq(Op) /\ Tidy(Tail(ops)) /\ ops[1] \in Op /\ Head(ops) = ops[1]
         /\ \A k \in DOMAIN Tail(ops) : k + 1 \in DOMAIN ops /\ Tail(ops)[k] = ops[k + 1]
         /\ \A t : Guarded(ops, t) /\ ~(ops[1].op = "stop" /\ ops[1].t = t)
                     => Guarded(Tail(ops), t)
         /\ \A t : ops[1].op = "start" /\ ops[1].t = t => Guarded(Tail(ops), t)
         /\ \A t : Guarded(ops, t) /\ ops[1].op = "create" => ops[1].t # t
<1>1. /\ Len(ops) \in Nat \ {0} /\ DOMAIN ops = 1 .. Len(ops) /\ 1 \in DOMAIN ops
      /\ ops[1] \in Op /\ Head(ops) = ops[1]
  <2>1. Len(ops) \in Nat \ {0} /\ DOMAIN ops = 1 .. Len(ops)
    BY LenProperties, EmptySeq
  <2> QED BY <2>1, ElementOfSeq, HeadTailProperties
<1>2. /\ Tail(ops) \in Seq(Op) /\ DOMAIN Tail(ops) = 1 .. Len(ops) - 1
      /\ \A k \in 1 .. Len(ops) - 1 : Tail(ops)[k] = ops[k + 1]
  <2>1. Tail(ops) \in Seq(Op) /\ Len(Tail(ops)) = Len(ops) - 1
        /\ \A k \in 1 .. Len(Tail(ops)) : Tail(ops)[k] = ops[k + 1]
    BY HeadTailProperties
  <2> QED BY <2>1, LenProperties
<1> DEFINE rest == Tail(ops)
<1> HIDE DEF rest
<1>3. /\ DOMAIN rest = 1 .. Len(ops) - 1
      /\ \A k \in 1 .. Len(ops) - 1 : rest[k] = ops[k + 1] /\ k + 1 \in DOMAIN ops
  BY <1>1, <1>2 DEF rest
<1>4. Tidy(rest)
  <2> SUFFICES ASSUME NEW k \in 1 .. Len(ops) - 1, NEW j \in 1 .. Len(ops) - 1, j < k,
                      rest[j].op = "start", rest[k].op = "create", rest[j].t = rest[k].t
               PROVE  \E i \in j + 1 .. k - 1 : rest[i].op = "stop" /\ rest[i].t = rest[k].t
    BY <1>3 DEF Tidy
  <2>1. PICK i \in (j + 1) + 1 .. (k + 1) - 1 : ops[i].op = "stop" /\ ops[i].t = ops[k + 1].t
    <3>1. j + 1 \in DOMAIN ops /\ k + 1 \in DOMAIN ops /\ j + 1 < k + 1
      BY <1>1
    <3> QED BY <1>3, <3>1 DEF Tidy
  <2>2. i - 1 \in j + 1 .. k - 1 /\ i - 1 \in 1 .. Len(ops) - 1 /\ (i - 1) + 1 = i
    BY <1>1
  <2>3. rest[i - 1] = ops[i]
    BY <1>3, <2>2
  <2> QED BY <1>3, <2>1, <2>2, <2>3
<1>5. ASSUME NEW t, Guarded(ops, t), ~(ops[1].op = "stop" /\ ops[1].t = t)
      PROVE  Guarded(rest, t)
  <2> SUFFICES ASSUME NEW k \in 1 .. Len(ops) - 1, rest[k].op = "create", rest[k].t = t
               PROVE  \E j \in 1 .. k - 1 : rest[j].op = "stop" /\ rest[j].t = t
    BY <1>3 DEF Guarded
  <2>1. PICK j \in 1 .. (k + 1) - 1 : ops[j].op = "stop" /\ ops[j].t = t
    BY <1>3, <1>5 DEF Guarded
  <2>2. j # 1
    BY <1>5, <2>1
  <2>3. j - 1 \in 1 .. k - 1 /\ j - 1 \in 1 .. Len(ops) - 1 /\ (j - 1) + 1 = j
    BY <1>1, <2>2
  <2>4. rest[j - 1] = ops[j]
    BY <1>3, <2>3
  <2> QED BY <2>1, <2>3, <2>4
<1>6. ASSUME NEW t, ops[1].op = "start", ops[1].t = t
      PROVE  Guarded(rest, t)
  <2> SUFFICES ASSUME NEW k \in 1 .. Len(ops) - 1, rest[k].op = "create", rest[k].t = t
               PROVE  \E j \in 1 .. k - 1 : rest[j].op = "stop" /\ rest[j].t = t
    BY <1>3 DEF Guarded
  <2>1. PICK j \in 1 + 1 .. (k + 1) - 1 : ops[j].op = "stop" /\ ops[j].t = t
    <3>1. k + 1 \in DOMAIN ops /\ 1 < k + 1 /\ ops[k + 1] = rest[k]
      BY <1>1, <1>3
    <3> QED BY <1>1, <1>6, <3>1 DEF Tidy
  <2>2. j - 1 \in 1 .. k - 1 /\ j - 1 \in 1 .. Len(ops) - 1 /\ (j - 1) + 1 = j
    BY <1>1
  <2>3. rest[j - 1] = ops[j]
    BY <1>3, <2>2
  <2> QED BY <2>1, <2>2, <2>3
<1>7. \A t : Guarded(ops, t) /\ ops[1].op = "create" => ops[1].t # t
  <2>1. 1 .. 1 - 1 = {}
    OBVIOUS
  <2> QED BY <1>1, <2>1 DEF Guarded
<1> QED BY <1>1, <1>2, <1>3, <1>4, <1>5, <1>6, <1>7 DEF rest

\* A handler or a callback makes its next call.
LEMMA CallGoes ==
  ASSUME IInv, PlainInv, Rest, UNCHANGED <<now, alarm>>, At("calls"), Top.calls # <<>>,
         NEW g \in Frames, g.t = Head(Top.calls).t, g.time <= now, NEW frames, GoOn(frames),
         \/ /\ Head(Top.calls).op = "poll" /\ g.do = "polled"
            /\ frames = <<Update, g, Calls(Tail(Top.calls))>>
         \/ /\ Head(Top.calls).op # "poll" /\ g.do = Head(Top.calls).op
            /\ frames = <<g, Calls(Tail(Top.calls))>>
  PROVE  PlainInv'
<1> DEFINE ops == Top.calls
           rest == Calls(Tail(ops))
<1>0. /\ stack \in Seq(Frames) /\ stack # <<>> /\ Top.do = "calls" /\ Top \in Frames
      /\ Depth \in Nat \ {0} /\ Level(Depth) = Top /\ Level(1).do \in {"calls", "iret"}
      /\ Placed(Depth, Top, Level(Depth - 1), Level(Depth - 2))
  BY Here
<1>c. ops \in Seq(Op) /\ ops # <<>>
  BY <1>0 DEF Frames
<1> HIDE DEF ops
<1>t. /\ Tail(ops) \in Seq(Op) /\ Head(ops) = ops[1] /\ ops[1] \in Op
      /\ \A k \in DOMAIN Tail(ops) : k + 1 \in DOMAIN ops /\ Tail(ops)[k] = ops[k + 1]
      /\ 1 \in DOMAIN ops
  <2>1. /\ Tail(ops) \in Seq(Op) /\ Head(ops) = ops[1] /\ Len(ops) \in Nat \ {0}
        /\ Len(Tail(ops)) = Len(ops) - 1 /\ DOMAIN ops = 1 .. Len(ops)
        /\ DOMAIN Tail(ops) = 1 .. Len(Tail(ops))
        /\ \A k \in 1 .. Len(Tail(ops)) : Tail(ops)[k] = ops[k + 1]
    BY <1>c, HeadTailProperties, LenProperties, EmptySeq
  <2>2. ops[1] \in Op
    BY <1>c, <2>1, ElementOfSeq
  <2> QED BY <2>1, <2>2
<1>1. PICK n \in Nat : n = Depth - 1
  BY <1>0
<1>r. /\ rest \in Frames /\ rest.do = "calls" /\ rest.time = 0 /\ rest.calls = Tail(ops)
  BY <1>t, FrameTypes DEF Calls
<1> HIDE DEF rest
<1>u. Update \in Frames /\ Update.do = "update" /\ Update.time = 0
  BY FrameTypes DEF Update, Frame
<1>g. /\ frames = <<Update, g, rest>> \/ frames = <<g, rest>>
      /\ g.do = "polled" <=> frames = <<Update, g, rest>>
      /\ g.do \in {"polled", "create", "start", "stop"}
      /\ g.do = "polled" => ops[1].op = "poll"
      /\ g.do # "polled" => g.do = ops[1].op
      /\ g.t = ops[1].t
  <2>1. <<Update, g, rest>> # <<g, rest>>
    BY <1>u, <1>r, ShortSeqs
  <2>2. ops[1].op \in {"create", "start", "stop", "poll"}
    BY <1>t DEF Op
  <2> QED BY <1>t, <2>1, <2>2 DEF rest, ops
<1>2. /\ Grown(n, frames) /\ frames # <<>> /\ n + 1 = Depth /\ n # Depth
      /\ Level(n + 1)' = rest /\ Level(n + 2)' = g
      /\ IF g.do = "polled" THEN Depth' = n + 3 /\ Level(n + 3)' = Update ELSE Depth' = n + 2
  <2>1. frames \in Seq(Frames) /\ frames # <<>>
    <3>1. <<g, rest>> \in Seq(Frames) /\ Len(<<g, rest>>) = 2
      BY <1>r, ShortSeqs
    <3>2. <<Update, g, rest>> \in Seq(Frames) /\ Len(<<Update, g, rest>>) = 3
      BY <1>r, <1>u, ShortSeqs
    <3>3. frames \in Seq(Frames) /\ (Len(frames) = 2 \/ Len(frames) = 3)
      BY <1>g, <3>1, <3>2, Zenon
    <3>4. frames # <<>>
      <4> HIDE <1>g
      <4> QED BY <3>3, EmptySeq
    <3> QED BY <3>3, <3>4
  <2>2. Grown(n, frames)
    BY <1>0, <1>1, <2>1, GoneOn
  <2> QED BY <1>0, <1>1, <1>r, <1>u, <1>g, <2>1, <2>2, ShortGrown
<1>3. now' \in Nat /\ now <= now' /\ UNCHANGED <<timer, alarm>> /\ now \in Nat
  BY Types DEF Rest
\* It is a handler, or the callback of a timer that was called at a level above the first.
<1>4. /\ n = 0 \/ n >= 2
      /\ n # 0 => /\ Level(n).do = "called"
                  /\ \A k \in DOMAIN ops : ops[k].op \in {"stop", "poll"} /\ ops[k].t = Level(n).t
  <2>1. n # 0 => /\ Level(n).do = "called"
                 /\ \A k \in DOMAIN ops : ops[k].op \in {"stop", "poll"} /\ ops[k].t = Level(n).t
    BY <1>0, <1>1 DEF Placed, ops
  <2>2. n # 1
    BY <1>0, <2>1
  <2> QED BY <2>1, <2>2
<1>5. Innermost(n) = None /\ HeadAt(n + 1)' = None
  <2>1. HeadAt(n + 1)' = None
    BY <1>2, <1>r, Zenon DEF HeadAt
  <2> QED BY <1>0, <1>2, <2>1 DEF HeadAt, Innermost
<1>6. \A d \in n + 1 .. Depth' :
        \/ d = n + 1 /\ Level(d)' = rest
        \/ d = n + 2 /\ Level(d)' = g
        \/ d = n + 3 /\ Level(d)' = Update /\ g.do = "polled"
  BY <1>2
<1>7. \A d \in n + 2 .. Depth' : HeadAt(d)' = None
  <2> SUFFICES ASSUME NEW d \in n + 2 .. Depth' PROVE HeadAt(d)' = None
    OBVIOUS
  <2>1. Level(d)' = g \/ Level(d)' = Update
    BY <1>6
  <2> QED BY <1>g, <1>u, <2>1 DEF HeadAt
<1>8. ASSUME NEW d \in n + 1 .. Depth'
      PROVE  Placed(d, Level(d), Level(d - 1), Level(d - 2))'
  <2>1. CASE d = n + 1
    <3>1. Level(d)' = rest /\ rest.time <= now'
      BY <1>2, <1>3, <1>r, <2>1
    <3>2. d # 1 => /\ Level(d - 1)'.do = "called"
                   /\ \A k \in DOMAIN rest.calls : rest.calls[k].op \in {"stop", "poll"}
                                                   /\ rest.calls[k].t = Level(d - 1)'.t
      <4> SUFFICES ASSUME n # 0
                   PROVE  /\ Level(d - 1)'.do = "called"
                          /\ \A k \in DOMAIN rest.calls : rest.calls[k].op \in {"stop", "poll"}
                                                   /\ rest.calls[k].t = Level(d - 1)'.t
        BY <2>1
      <4>1. d - 1 \in 1 .. n /\ d - 1 = n
        BY <2>1, <1>4
      <4>2. Level(d - 1)' = Level(d - 1)
        BY <1>2, <4>1 DEF Grown
      <4> QED BY <1>4, <1>r, <1>t, <4>1, <4>2
    <3> QED BY <1>r, <3>1, <3>2, Zenon DEF Placed
  <2>2. CASE d = n + 2
    <3>1. Level(d)' = g /\ g.time <= now'
      BY <1>2, <1>3, <2>2
    <3>2. n = 0 => d = 2
      BY <2>2
    <3>3. ASSUME n # 0
          PROVE  d > 2 /\ Level(d - 2)'.do = "called" /\ Level(d - 2)'.t = g.t
                 /\ g.do \in {"stop", "polled"}
      <4>1. d - 2 \in 1 .. n /\ d - 2 = n /\ d > 2
        BY <2>2, <3>3, <1>4
      <4>2. Level(d - 2)' = Level(d - 2)
        BY <1>2, <4>1 DEF Grown
      <4>3. ops[1].op \in {"stop", "poll"} /\ ops[1].t = Level(n).t
        BY <1>4, <1>t, <3>3
      <4> QED BY <1>4, <1>g, <3>3, <4>1, <4>2, <4>3
    <3>4. d # 1
      BY <2>2
    <3> QED BY <1>g, <3>1, <3>2, <3>3, <3>4, Zenon DEF Placed
  <2>3. CASE d = n + 3
    <3>1. Level(d)' = Update /\ Update.time <= now' /\ d # 1
      BY <1>3, <1>u, <1>6, <2>3
    <3> QED BY <1>u, <3>1, Zenon DEF Placed
  <2> QED BY <1>6, <2>1, <2>2, <2>3
<1>9. Depth' >= 2 /\ Level(2)'.do = "stopped" => n >= 2
  <2>1. n = 0 => Level(2)' = g
    BY <1>2
  <2> QED BY <1>4, <1>g, <2>1
<1>10. ASSUME List' = List PROVE CreateBooks'
  <2>1. CASE n >= 2
    <3>1. \A t \in Timers : Listed(t)' => Listed(t)
      BY <1>2, <1>10, <2>1, ListedKept
    <3> QED BY <1>2, <1>10, <2>1, <3>1, CreateKept DEF PlainInv
  <2>2. CASE n = 0
    <3>1. Depth = 1 /\ Level(1) = Top /\ Level(1)' = rest /\ Depth' >= 2 /\ Level(2)' = g
      BY <1>0, <1>2, <2>2
    <3>2. Tidy(ops) /\ \A t \in Timers : t \in ToSet(List) => Guarded(ops, t)
      BY <1>0, <3>1 DEF PlainInv, CreateBooks, Listed, ops
    <3>3. Tidy(Tail(ops)) /\ \A t \in Timers : t \in ToSet(List) /\ g.do = "create" => g.t # t
      BY <1>c, <1>g, <3>2, TailCalls
    <3>4. g.do = "create" => g.t \notin ToSet(List)
      BY <1>g, <1>t, <3>3 DEF Op
    <3>5. ASSUME NEW t \in Timers, Listed(t)' PROVE Guarded(Tail(ops), t)
      <4>1. \/ t \in ToSet(List) /\ ~(g.do = "stop" /\ g.t = t)
            \/ g.do = "start" /\ g.t = t
        BY <1>g, <1>10, <3>1, <3>5 DEF Listed
      <4>2. CASE t \in ToSet(List) /\ ~(g.do = "stop" /\ g.t = t)
        <5>1. ~(ops[1].op = "stop" /\ ops[1].t = t) /\ Guarded(ops, t)
          BY <1>g, <3>2, <4>2
        <5> QED BY <1>c, <3>2, <5>1, TailCalls
      <4>3. CASE g.do = "start" /\ g.t = t
        <5>1. ops[1].op = "start" /\ ops[1].t = t
          BY <1>g, <4>3
        <5> QED BY <1>c, <3>2, <5>1, TailCalls
      <4> QED BY <4>1, <4>2, <4>3
    <3> QED BY <1>r, <1>10, <3>1, <3>3, <3>4, <3>5, Zenon DEF CreateBooks
  <2> QED BY <1>4, <2>1, <2>2
<1>11. ASSUME List' = List PROVE AlarmBooks' /\ PollBooks'
  <2>1. AlarmBooks'
    <3>1. \A d \in n + 1 .. Depth : Level(d).do \notin {"update", "insert", "unlink"}
      BY <1>0, <1>2
    <3> QED BY <1>2, <1>3, <1>11, <3>1, CoveredKept, AlarmKept DEF PlainInv
  <2>2. PollBooks'
    <3>1. CASE n = 0
      <4>1. Level(2)' = g /\ (g.do = "polled" => Depth' = 3 /\ Level(3)' = Update)
        BY <1>2, <3>1
      <4> QED BY <1>u, <4>1, PollNew
    <3>2. CASE n >= 2
      <4>1. n = 2 /\ Depth = 3 => Level(3).do # "update"
        BY <1>0
      <4> QED BY <1>2, <1>3, <1>11, <3>2, <4>1, PollKept DEF PlainInv
    <3> QED BY <1>4, <3>1, <3>2
  <2> QED BY <2>1, <2>2
<1>12. n + 1 = Depth /\ Top.do # "stopped" /\ Level(Depth) = Top
  BY <1>0, <1>2
<1> QED BY <1>2, <1>3, <1>5, <1>7, <1>8, <1>9, <1>10, <1>11, <1>12, QuietStep

LEMMA PlainCall == ASSUME IInv, PlainInv, Call PROVE PlainInv'
<1>0. /\ At("calls") /\ Rest /\ UNCHANGED <<now, alarm>>
      /\ Top.do = "calls" /\ Top \in Frames /\ Level(Depth) = Top /\ now \in Nat
  BY Here, Types DEF Call, Rest, clock
<1>1. CASE Top.calls = <<>>
  <2>1. GoOn(<<>>) /\ HeadAt(Depth) = None
    BY <1>0, <1>1 DEF Call, HeadAt
  <2> QED BY <1>0, <2>1, QuietReturn
<1>2. CASE Top.calls # <<>>
  <2> DEFINE c == Head(Top.calls)
             rest == Calls(Tail(Top.calls))
  <2>1. c \in Op
    BY <1>0, <1>2, HeadTailProperties DEF Frames
  <2>2. CASE c.op = "poll"
    <3> DEFINE g == Frame("polled", c.t, now)
    <3>1. GoOn(<<Update, g, rest>>)
      BY <1>2, <2>2, Zenon DEF Call
    <3>2. g \in Frames /\ g.do = "polled" /\ g.t = c.t /\ g.time <= now
      BY <1>0, <2>1, FrameTypes DEF Op, OfATimer, Frame
    <3> HIDE DEF g
    <3> QED BY <1>0, <1>2, <2>2, <3>1, <3>2, CallGoes
  <2>3. CASE c.op # "poll"
    <3> DEFINE g == Frame(c.op, c.t, IF c.op = "stop" THEN now ELSE 0)
    <3>1. GoOn(<<g, rest>>)
      BY <1>2, <2>3, Zenon DEF Call
    <3>2. g \in Frames /\ g.do = c.op /\ g.t = c.t /\ g.time <= now
      <4>1. c.op \in OfATimer /\ c.t \in Timers
        BY <2>1, <2>3 DEF Op, OfATimer
      <4>2. (IF c.op = "stop" THEN now ELSE 0) \in Nat /\ (IF c.op = "stop" THEN now ELSE 0) <= now
        BY <1>0
      <4> QED BY <4>1, <4>2, FrameTypes DEF Frame
    <3> HIDE DEF g
    <3> QED BY <1>0, <1>2, <2>3, <3>1, <3>2, CallGoes
  <2> QED BY <2>2, <2>3
<1> QED BY <1>1, <1>2

\* Time passes, or nothing happens.
LEMMA PlainTime ==
  ASSUME IInv, PlainInv, Rest, UNCHANGED <<stack, alarm>>, now' = now \/ now' = now + 1
  PROVE  PlainInv'
<1>0. /\ stack \in Seq(Frames) /\ now \in Nat /\ UNCHANGED <<timer, alarm>>
      /\ Depth \in Nat
  BY LevelFacts DEF IInv, TypeOK, Rest
<1>1. PICK n \in Nat : n = Depth
  BY <1>0
<1>2. Depth' = Depth /\ \A d : Level(d)' = Level(d)
  BY DEF Depth, Level
<1>3. Grown(n, <<>>)
  <2>1. <<>> \in Seq(Frames) /\ Len(<<>>) = 0
    BY ShortSeqs
  <2> QED BY <1>0, <1>1, <1>2, <2>1 DEF Grown
<1>4. ASSUME List' = List PROVE CreateBooks' /\ AlarmBooks' /\ PollBooks'
  <2>1. CreateBooks'
    <3>1. \A t \in Timers : Listed(t)' <=> Listed(t)
      BY <1>2, <1>4, Zenon DEF Listed
    <3> QED BY <1>2, <1>4, <3>1, Zenon DEF PlainInv, CreateBooks
  <2>2. AlarmBooks'
    <3>1. Covered => Covered'
      BY <1>0, <1>4, CoveredKept
    <3> QED BY <1>2, <3>1, Zenon DEF PlainInv, AlarmBooks
  <2>3. PollBooks'
    BY <1>0, <1>2, <1>4, Zenon DEF PlainInv, PollBooks
  <2> QED BY <2>1, <2>2, <2>3
<1>5. /\ Innermost(n) = None /\ now' \in Nat /\ now <= now'
      /\ \A d \in n + 2 .. Depth' : HeadAt(d)' = None
      /\ \A d \in n + 1 .. Depth' : Placed(d, Level(d), Level(d - 1), Level(d - 2))'
      /\ Depth' >= 2 => n >= 2
  BY <1>0, <1>1, <1>2 DEF Innermost
<1> QED BY <1>1, <1>3, <1>4, <1>5, QuietStep

LEMMA PlainInterrupt == ASSUME IInv, PlainInv, tick_handler PROVE PlainInv'
<1> DEFINE iret == Frame("iret", None, 0)
<1>0. /\ stack \in Seq(Frames) /\ now \in Nat /\ UNCHANGED <<timer>> /\ Rest
      /\ now' = now /\ stack' = <<Update, iret>> \o stack
  BY DEF IInv, TypeOK, Rest, tick_handler
<1>u. /\ Update \in Frames /\ Update.do = "update" /\ Update.time = 0
      /\ iret \in Frames /\ iret.do = "iret" /\ iret.time = 0
  BY FrameTypes DEF Update, Frame
<1> HIDE DEF iret
<1>1. PICK n \in Nat : n = Depth
  BY <1>0, LevelFacts
<1>2. /\ Grown(n, <<Update, iret>>) /\ <<Update, iret>> # <<>>
      /\ Depth' = n + 2 /\ Level(n + 1)' = iret /\ Level(n + 2)' = Update
  <2>1. <<Update, iret>> \in Seq(Frames) /\ <<Update, iret>> # <<>>
    BY <1>u, ShortSeqs
  <2>2. Grown(n, <<Update, iret>>)
    BY <1>0, <1>1, <2>1, PushedFacts
  <2> QED BY <1>u, <2>1, <2>2, ShortGrown
<1>3. \A d \in n + 1 .. Depth' : \/ d = n + 1 /\ Level(d)' = iret
                                 \/ d = n + 2 /\ Level(d)' = Update
  BY <1>2
<1>4. ASSUME NEW d \in n + 1 .. Depth'
      PROVE  HeadAt(d)' = None /\ Placed(d, Level(d), Level(d - 1), Level(d - 2))'
  <2>1. CASE d = n + 1
    <3>1. Level(d)' = iret /\ iret.time <= now'
      BY <1>0, <1>u, <1>2, <2>1
    <3> QED BY <1>u, <3>1, Zenon DEF HeadAt, Placed
  <2>2. CASE d = n + 2
    <3>1. Level(d)' = Update /\ Update.time <= now' /\ d # 1
      BY <1>0, <1>u, <1>2, <2>2
    <3> QED BY <1>u, <3>1, Zenon DEF HeadAt, Placed
  <2> QED BY <1>3, <2>1, <2>2
<1>5. Innermost(n) = None /\ HeadAt(n + 1)' = None
  <2>1. n + 1 \in n + 1 .. Depth'
    BY <1>2
  <2> QED BY <1>1, <1>4, <2>1 DEF Innermost
<1>6. n < 2 => Level(2)'.do \in {"iret", "update"}
  <2>1. n = 0 \/ n = 1 \/ n >= 2
    OBVIOUS
  <2> QED BY <1>u, <1>2, <2>1
<1>7. ASSUME List' = List PROVE CreateBooks' /\ AlarmBooks' /\ PollBooks'
  <2>1. CreateBooks'
    <3>1. CASE n = 0
      <4>1. Level(1)'.do = "iret" /\ Level(2)'.do # "create"
        BY <1>u, <1>2, <3>1
      <4> QED BY <4>1 DEF CreateBooks
    <3>2. CASE n = 1
      <4>1. Depth = 1 /\ Level(2)' = iret
        BY <1>1, <1>2, <3>2
      <4>2. \A t \in Timers : Listed(t)' => Listed(t)
        BY <1>u, <1>7, <4>1 DEF Listed
      <4> QED BY <1>u, <1>2, <3>2, <4>1, <4>2, CreateKept DEF PlainInv
    <3>3. CASE n >= 2
      <4>1. \A t \in Timers : Listed(t)' => Listed(t)
        BY <1>2, <1>7, <3>3, ListedKept
      <4> QED BY <1>2, <1>7, <3>3, <4>1, CreateKept DEF PlainInv
    <3> QED BY <3>1, <3>2, <3>3
  <2>2. AlarmBooks'
    <3>1. n + 2 \in 1 .. Depth' /\ Level(n + 2)'.do = "update"
      BY <1>u, <1>2
    <3> QED BY <3>1 DEF AlarmBooks
  <2>3. PollBooks'
    <3>1. CASE n < 2
      BY <1>6, <3>1, PollNew
    <3>2. CASE n >= 2
      <4>1. \A t \in ToSet(List') : timer'[t].expiry = timer[t].expiry
        BY <1>0
      <4> QED BY <1>1, <1>2, <1>7, <3>2, <4>1, PollKept DEF PlainInv
    <3> QED BY <3>1, <3>2
  <2> QED BY <2>1, <2>2, <2>3
<1>8. /\ \A d \in n + 2 .. Depth' : HeadAt(d)' = None
      /\ \A d \in n + 1 .. Depth' : Placed(d, Level(d), Level(d - 1), Level(d - 2))'
      /\ Depth' >= 2 /\ Level(2)'.do = "stopped" => n >= 2
      /\ now' \in Nat /\ now <= now'
  BY <1>0, <1>4, <1>6
<1> QED BY <1>0, <1>1, <1>2, <1>5, <1>7, <1>8, QuietStep

LEMMA PlainHandle ==
  ASSUME IInv, PlainInv, TidyHandlers, NEW ops \in Handlers, Handle(ops)
  PROVE  PlainInv'
<1>0. /\ stack \in Seq(Frames) /\ now \in Nat /\ UNCHANGED <<timer, alarm>> /\ Rest
      /\ now' = now /\ stack = <<>> /\ stack' = <<Calls(ops)>> /\ Legal(ops)
  BY DEF IInv, TypeOK, Rest, Handle, clock
<1>1. ops \in Seq(Op) /\ Tidy(ops)
  BY CallsAssumption DEF TidyHandlers
<1>2. /\ Calls(ops) \in Frames /\ Calls(ops).do = "calls" /\ Calls(ops).time = 0
      /\ Calls(ops).calls = ops
  BY <1>1, FrameTypes DEF Calls
<1>3. Depth = 0 /\ Depth \in Nat
  BY <1>0, LevelFacts
<1>4. Grown(0, <<Calls(ops)>>) /\ Depth' = 1 /\ Level(1)' = Calls(ops) /\ <<Calls(ops)>> # <<>>
  <2>1. <<Calls(ops)>> \in Seq(Frames) /\ <<Calls(ops)>> # <<>> /\ Len(<<Calls(ops)>>) = 1
        /\ <<Calls(ops)>>[1] = Calls(ops)
    BY <1>2, ShortSeqs
  <2>2. Depth' = 1 /\ Level(1)' = Calls(ops)
    BY <1>0, <2>1 DEF Depth, Level
  <2>3. \A j \in 1 .. 1 : Level(0 + j)' = <<Calls(ops)>>[1 + 1 - j]
    BY <2>1, <2>2
  <2> QED BY <1>3, <2>1, <2>2, <2>3 DEF Grown
<1>5. Innermost(0) = None /\ HeadAt(0 + 1)' = None
  BY <1>2, <1>3, <1>4 DEF Innermost, HeadAt
<1>6. ASSUME List' = List PROVE CreateBooks' /\ AlarmBooks' /\ PollBooks'
  <2>1. ASSUME NEW t \in Timers, Listed(t)' PROVE Guarded(ops, t)
    <3>1. t \in ToSet(List)
      BY <1>4, <1>6, <2>1 DEF Listed
    <3>2. Contains(List, t)
      BY <3>1, Types, SeqFacts
    <3> SUFFICES ASSUME NEW k \in DOMAIN ops, ops[k].op = "create", ops[k].t = t
                 PROVE  \E j \in 1 .. k - 1 : ops[j].op = "stop" /\ ops[j].t = t
      BY DEF Guarded
    <3>3. PICK j \in 1 .. k - 1 : ops[j] = [op |-> "stop", t |-> ops[k].t]
      BY <1>0, <3>2 DEF Legal
    <3> QED BY <3>3
  <2>2. CreateBooks'
    BY <1>1, <1>2, <1>4, <2>1 DEF CreateBooks
  <2>3. AlarmBooks'
    <3>1. Covered
      BY <1>3 DEF PlainInv, AlarmBooks
    <3> QED BY <1>0, <1>6, <3>1, CoveredKept DEF AlarmBooks
  <2>4. PollBooks'
    BY <1>4 DEF PollBooks
  <2> QED BY <2>2, <2>3, <2>4
<1>7. ASSUME NEW d \in 0 + 1 .. Depth'
      PROVE  Placed(d, Level(d), Level(d - 1), Level(d - 2))'
  <2>1. d = 1 /\ Level(d)' = Calls(ops) /\ 0 <= now'
    BY <1>0, <1>4
  <2> QED BY <1>2, <2>1, Zenon DEF Placed
<1>8. /\ \A d \in 0 + 2 .. Depth' : HeadAt(d)' = None
      /\ ~(Depth' >= 2) /\ now' \in Nat /\ now <= now'
  BY <1>0, <1>4
<1> QED BY <1>0, <1>3, <1>4, <1>5, <1>6, <1>7, <1>8, QuietStep

\* What is said about the handler's calls, the alarm and the poll, when a
\* function of the main program changes timers that are not in the list.
LEMMA BooksKept ==
  ASSUME IInv, PlainInv, NEW do \in {"trigger", "stopped", "create"}, At(do),
         NEW n \in Nat, n + 1 = Depth, NEW frames, Grown(n, frames),
         n = 1 => Depth' = 1 \/ Level(2)'.do = "called",
         List' = List, UNCHANGED alarm, \A t \in ToSet(List) : timer'[t] = timer[t]
  PROVE  CreateBooks' /\ AlarmBooks' /\ PollBooks'
<1>0. Top.do = do /\ Level(Depth) = Top /\ Depth >= 2 /\ Depth \in Nat
  BY Here
<1>1. n >= 1
  BY <1>0
<1>2. \A t \in Timers : Listed(t)' => Listed(t)
  <2>1. CASE n = 1
    <3>1. Depth = 2 /\ Level(2).do = do
      BY <1>0, <2>1
    <3> QED BY <2>1, <3>1 DEF Listed
  <2>2. CASE n >= 2
    BY <2>2, ListedKept
  <2> QED BY <1>1, <2>1, <2>2
<1>3. CreateBooks'
  <2>1. n = 1 \/ n >= 2
    BY <1>1
  <2> QED BY <1>1, <1>2, <2>1, CreateKept DEF PlainInv
<1>4. AlarmBooks'
  <2>1. Covered => Covered'
    BY Zenon DEF Covered
  <2>2. \A d \in n + 1 .. Depth : Level(d).do \notin {"update", "insert", "unlink"}
    BY <1>0
  <2> QED BY <2>1, <2>2, AlarmKept DEF PlainInv
<1>5. PollBooks'
  <2>1. CASE n = 1
    BY <2>1, PollNew
  <2>2. CASE n >= 2
    <3>1. n = 2 /\ Depth = 3 => Level(3).do # "update"
      BY <1>0
    <3>2. \A t \in ToSet(List') : timer'[t].expiry = timer[t].expiry
      OBVIOUS
    <3> QED BY <2>2, <3>1, <3>2, PollKept DEF PlainInv
  <2> QED BY <1>1, <2>1, <2>2
<1> QED BY <1>3, <1>4, <1>5

\* A function of the main program ends that has changed its own timer.
LEMMA OneChanged ==
  ASSUME IInv, PlainInv, NEW do \in {"stopped", "create"}, At(do), GoOn(<<>>),
         UNCHANGED <<timerList, now, alarm>>,
         NEW x \in Timers, x = Top.t, x \notin ToSet(List), ~timer'[x].running, ExpiryOf(x)',
         \A t \in Timers \ {x} : timer'[t] = timer[t] /\ next'[t] = next[t] /\ due'[t] = due[t],
         Depth = 2 \/ Rest
  PROVE  PlainInv'
<1>0. /\ stack \in Seq(Frames) /\ stack # <<>> /\ Top.do = do /\ Level(Depth) = Top
      /\ Depth >= 2 /\ Depth \in Nat /\ Level(1).do \in {"calls", "iret"}
      /\ timer \in Fields /\ now \in Nat /\ List \in Seq(Timers)
  BY Here, Types
<1>1. PICK n \in Nat : n = Depth - 1
  BY <1>0
<1>2. Grown(n, <<>>) /\ Depth' = n /\ n + 1 = Depth /\ n >= 1
  <2>1. <<>> \in Seq(Frames)
    BY ShortSeqs
  <2>2. Grown(n, <<>>)
    BY <1>0, <1>1, <2>1, GoneOn
  <2> QED BY <1>0, <1>1, <2>2, ShortGrown
<1>3. List' = List /\ ListBooks'
  <2>1. ASSUME NEW t \in ToSet(List) PROVE Stay(t) /\ ~Unlinked(t)'
    <3>1. t \in Timers \ {x}
      BY <1>0, SeqFacts
    <3>2. Unlinked(t)' => Unlinked(t)
      <4>1. Depth' >= 2 => Level(2)' = Level(2)
        BY <1>2 DEF Grown
      <4> QED BY <1>0, <4>1 DEF Unlinked
    <3> QED BY <3>1, <3>2 DEF PlainInv, ListBooks, Stay
  <2> QED BY <2>1, ListKept DEF PlainInv
<1>4. Expiries'
  BY <1>0, ExpiriesStep DEF PlainInv
<1>5. Places'
  <2>1. n <= 1 \/ \A t \in Timers : Fired(t) => Fired(t)'
    BY <1>2 DEF Rest, Fired
  <2>2. \A d \in n + 1 .. Depth' : FALSE
    BY <1>2
  <2> QED BY <1>0, <1>2, <2>1, <2>2, PlacesStep DEF PlainInv
<1>6. \E e : Chains(e)'
  <2>1. PICK c : Chains(c)
    BY DEF PlainInv
  <2>2. ASSUME NEW d \in 1 .. Depth, d = 1 \/ d = Depth PROVE ToSet(c[d]) = {}
    <3>1. HeadAt(d) = None
      BY <1>0, <2>2 DEF HeadAt
    <3>2. c[d] = <<>>
      BY <2>1, <3>1, EmptyChain DEF Chains
    <3> QED BY <3>2 DEF ToSet
  <2>3. \A d \in 1 .. n : d \in 1 .. Depth
    BY <1>2
  <2>4. \A d \in 1 .. n : \A t \in ToSet(c[d]) : next'[t] = next[t] /\ Waiting(t)'
    <3> SUFFICES ASSUME NEW d \in 1 .. n, NEW t \in ToSet(c[d])
                 PROVE  next'[t] = next[t] /\ Waiting(t)'
      OBVIOUS
    <3>1. d # 1 /\ d \in 1 .. Depth
      BY <2>2, <2>3
    <3>2. Rest
      BY <1>2, <3>1
    <3>3. Waiting(t)
      BY <2>1, <3>1 DEF Chains
    <3> QED BY <1>3, <3>2, <3>3 DEF Rest, Waiting
  <2>5. \A d \in 1 .. n : Level(d).do = "called" => next'[Level(d).t] = next[Level(d).t]
    <3> SUFFICES ASSUME NEW d \in 1 .. n, Level(d).do = "called" PROVE Rest
      BY DEF Rest
    <3>1. d # 1
      BY <1>0
    <3> QED BY <1>2, <3>1
  <2>6. ASSUME NEW t \in Timers, timer'[t].running
        PROVE  t \in ToSet(List') \/ Unlinked(t)' \/ \E d \in 1 .. n : t \in ToSet(c[d])
    <3>1. t # x /\ timer[t].running
      BY <2>6
    <3>2. t \in ToSet(List) \/ Unlinked(t) \/ \E d \in 1 .. Depth : t \in ToSet(c[d])
      BY <2>1, <3>1 DEF Chains
    <3>3. Unlinked(t) => Unlinked(t)'
      <4> SUFFICES ASSUME Unlinked(t) PROVE Unlinked(t)'
        OBVIOUS
      <4>1. Depth # 2
        BY <1>0, <3>1 DEF Unlinked
      <4>2. n >= 2
        BY <1>0, <1>2, <4>1
      <4>3. Level(2)' = Level(2) /\ Depth' >= 2
        BY <1>2, <4>2 DEF Grown
      <4> QED BY <4>3, Zenon DEF Unlinked
    <3>4. \A d \in 1 .. Depth : t \in ToSet(c[d]) => d \in 1 .. n
      BY <1>2, <2>2
    <3> QED BY <1>3, <3>2, <3>3, <3>4
  <2>7. PICK r \in Seq(Timers) : r = <<>>
    <3>1. <<>> \in Seq(Timers)
      OBVIOUS
    <3> QED BY <3>1, Zenon
  <2>8. ToSet(r) = {}
    BY <2>7 DEF ToSet
  <2>9. /\ \A d \in n + 2 .. Depth' : HeadAt(d)' = None
        /\ \A t \in ToSet(r) : Waiting(t)'
        /\ \A d \in 1 .. n : ToSet(r) \cap ToSet(c[d]) = {}
    BY <1>2, <2>8
  <2> QED BY <1>2, <2>1, <2>4, <2>5, <2>6, <2>7, <2>9, PendingStep
<1>7. CreateBooks' /\ AlarmBooks' /\ PollBooks'
  <2>1. \A t \in ToSet(List) : timer'[t] = timer[t]
    BY <1>0, SeqFacts
  <2> QED BY <1>2, <1>3, <2>1, BooksKept
<1> QED BY <1>3, <1>4, <1>5, <1>6, <1>7, Zenon DEF PlainInv

LEMMA PlainCreate == ASSUME IInv, PlainInv, Create PROVE PlainInv'
<1>x. PICK x : x = Top.t
  OBVIOUS
<1>0. /\ At("create") /\ GoOn(<<>>) /\ UNCHANGED <<timerList, now, alarm>>
      /\ timer' = [timer EXCEPT ![x] = Fresh(x)] /\ next' = [next EXCEPT ![x] = None]
      /\ due' = [due EXCEPT ![x] = 0]
  BY <1>x, Zenon DEF Create, clock
<1>1. /\ Top.do = "create" /\ Top \in Frames /\ Level(Depth) = Top /\ Depth >= 2
      /\ Placed(Depth, Top, Level(Depth - 1), Level(Depth - 2))
  BY <1>0, Here
<1>2. /\ x \in Timers /\ Interval[x] \in Nat \ {0} /\ now \in Nat
      /\ timer \in Fields /\ next \in Links /\ due \in [Timers -> Int]
  BY <1>x, <1>1, Types, IntervalAssumption DEF Frames, OfATimer
<1>3. Depth = 2 /\ Level(2) = Top
  BY <1>1 DEF Placed
<1>4. x \notin ToSet(List)
  BY <1>x, <1>1, <1>3 DEF PlainInv, CreateBooks
<1>5. /\ \A t \in Timers \ {x} : timer'[t] = timer[t] /\ next'[t] = next[t] /\ due'[t] = due[t]
      /\ timer'[x] = Fresh(x) /\ due'[x] = 0
  BY <1>0, <1>2 DEF Fields, Links
<1>6. ~timer'[x].running /\ ExpiryOf(x)'
  <2>1. ~Fresh(x).running /\ Fresh(x).expiry = Interval[x]
    BY DEF Fresh
  <2>2. Interval[x] + now' >= 1
    BY <1>0, <1>2
  <2> QED BY <1>5, <2>1, <2>2 DEF ExpiryOf
<1> QED BY <1>0, <1>2, <1>3, <1>4, <1>5, <1>6, <1>x, OneChanged

LEMMA PlainStopped == ASSUME Wrap = 0, IInv, PlainInv, Stopped PROVE PlainInv'
<1>x. PICK x : x = Top.t
  OBVIOUS
<1>0. /\ At("stopped") /\ GoOn(<<>>) /\ UNCHANGED <<next, timerList, now, alarm>>
      /\ timer' = IF timer[x].running
                  THEN [timer EXCEPT ![x].running = FALSE, ![x].expiry = @ - Top.time]
                  ELSE timer
      /\ due' = [due EXCEPT ![x] = 0]
  BY <1>x, Zenon DEF Stopped, clock
<1>1. /\ Top.do = "stopped" /\ Top \in Frames /\ Level(Depth) = Top /\ Depth >= 2
      /\ Placed(Depth, Top, Level(Depth - 1), Level(Depth - 2)) /\ Depth \in Nat
      /\ \A d \in 1 .. Depth : Level(d) \in Frames
  BY <1>0, Here
<1>2. /\ x \in Timers /\ Top.time \in Nat /\ now \in Nat /\ Top.time <= now
      /\ timer \in Fields /\ due \in [Timers -> Int] /\ ExpiryOf(x)
  BY <1>x, <1>1, Types DEF Frames, OfATimer, Placed, PlainInv, Expiries
\* Within a callback the timer has fired.
<1>3. Depth = 2 \/ Fired(x)
  <2> SUFFICES ASSUME Depth # 2 PROVE Fired(x)
    OBVIOUS
  <2>1. Level(Depth - 2).do = "called" /\ Level(Depth - 2).t = x
    BY <1>x, <1>1 DEF Placed
  <2>2. Depth - 2 \in 1 .. Depth
    BY <1>1
  <2>3. PICK d \in 1 .. Depth : d = Depth - 2
    BY <2>2
  <2>4. Placed(d, Level(d), Level(d - 1), Level(d - 2))
    BY DEF PlainInv, Places
  <2> QED BY <2>1, <2>3, <2>4 DEF Placed
<1>4. x \notin ToSet(List)
  <2>1. \A t \in ToSet(List) : timer[t].running /\ ~Unlinked(t)
    BY DEF PlainInv, ListBooks
  <2>2. Depth = 2 => Unlinked(x)
    BY <1>x, <1>1 DEF Unlinked
  <2> QED BY <1>3, <2>1, <2>2 DEF Fired
<1>5. /\ \A t \in Timers \ {x} : timer'[t] = timer[t] /\ next'[t] = next[t] /\ due'[t] = due[t]
      /\ timer[x].running => timer'[x].expiry = timer[x].expiry - Top.time
      /\ ~timer[x].running => timer' = timer
      /\ ~timer'[x].running /\ due'[x] = 0
  <2>1. due'[x] = 0 /\ \A t \in Timers \ {x} : due'[t] = due[t] /\ next'[t] = next[t]
    BY <1>0, <1>2
  <2>2. CASE timer[x].running
    BY <1>0, <1>2, <2>1, <2>2 DEF Fields
  <2>3. CASE ~timer[x].running
    BY <1>0, <2>1, <2>3
  <2> QED BY <2>2, <2>3
<1>6. ExpiryOf(x)'
  <2>1. timer'[x].expiry + now' >= 1
    <3>1. timer[x].expiry \in Int
      BY <1>2 DEF Fields
    <3>2. CASE timer[x].running
      <4>1. timer[x].expiry >= 1 /\ timer'[x].expiry = timer[x].expiry - Top.time
        BY <1>2, <1>5, <3>2 DEF ExpiryOf
      <4> QED BY <1>0, <1>2, <3>1, <4>1
    <3>3. CASE ~timer[x].running
      <4>1. timer[x].expiry + now >= 1 /\ timer'[x].expiry = timer[x].expiry
        BY <1>2, <1>5, <3>3 DEF ExpiryOf
      <4> QED BY <1>0, <4>1
    <3> QED BY <3>2, <3>3
  <2> QED BY <1>5, <2>1 DEF ExpiryOf
<1>7. Depth = 2 \/ Rest
  <2> SUFFICES ASSUME Fired(x) PROVE Rest
    BY <1>3
  <2>1. timer' = timer
    BY <1>5 DEF Fired
  <2>2. due[x] = 0
    BY DEF Fired
  <2>3. due' = due
    BY <1>0, <1>2, <2>2
  <2> QED BY <1>0, <2>1, <2>3 DEF Rest
<1> QED BY <1>0, <1>2, <1>4, <1>5, <1>6, <1>7, <1>x, OneChanged

-----------------------------------------------------------------------------
(* The steps that change timers.                                            *)

\* The head of a chain is marked and its callback called.
LEMMA PlainTrigger ==
  ASSUME OwnCallbacks, IInv, PlainInv, timer_trigger
  PROVE  PlainInv'
<1>x. PICK x : x = Top.t
  OBVIOUS
<1> DEFINE calls == Calls(Callback[x])
           called == Frame("called", x, 0)
<1>0. /\ At("trigger") /\ x # None /\ GoOn(<<calls, called>>)
      /\ UNCHANGED <<next, timerList, now, alarm>>
      /\ timer' = [timer EXCEPT ![x].running = FALSE, ![x].hasExpired = TRUE]
      /\ due' = [due EXCEPT ![x] = 0]
  BY <1>x, Zenon DEF timer_trigger, clock
<1>1. /\ stack \in Seq(Frames) /\ stack # <<>>
      /\ Top.do = "trigger" /\ Top \in Frames /\ Level(Depth) = Top /\ Depth >= 2
      /\ Level(1).do \in {"calls", "iret"} /\ Depth \in Nat
  BY <1>0, Here
<1>2. /\ x \in Timers /\ now \in Nat /\ List \in Seq(Timers)
      /\ timer \in Fields /\ due \in [Timers -> Int] /\ ExpiryOf(x)
  BY <1>x, <1>0, <1>1, Types DEF Frames, PlainInv, Expiries
<1>f. /\ calls \in Frames /\ calls.do = "calls" /\ calls.time = 0 /\ calls.calls = Callback[x]
      /\ called \in Frames /\ called.do = "called" /\ called.time = 0 /\ called.t = x
  BY <1>2, CallsAssumption, FrameTypes DEF Calls, Frame, OfATimer
<1> HIDE DEF calls, called
<1>3. PICK n \in Nat : n = Depth - 1
  BY <1>1
<1>4. /\ Grown(n, <<calls, called>>) /\ <<calls, called>> # <<>> /\ n + 1 = Depth /\ n >= 1
      /\ Depth' = n + 2 /\ Level(n + 1)' = called /\ Level(n + 2)' = calls
  <2>1. <<calls, called>> \in Seq(Frames) /\ <<calls, called>> # <<>>
    BY <1>f, ShortSeqs
  <2>2. Grown(n, <<calls, called>>)
    BY <1>0, <1>1, <1>3, <2>1, GoneOn
  <2> QED BY <1>1, <1>3, <1>f, <2>1, <2>2, ShortGrown
\* It has waited at the head of the chain of the call.
<1>5. PICK c : Chains(c)
  BY DEF PlainInv
<1>6. /\ \A d \in 1 .. Depth : c[d] \in Seq(Timers) /\ IsChain(c[d], HeadAt(d), next)
      /\ \A d \in 1 .. Depth : \A t \in ToSet(c[d]) : Waiting(t) /\ t \in Timers
      /\ \A d, e \in 1 .. Depth : d # e => ToSet(c[d]) \cap ToSet(c[e]) = {}
      /\ \A t \in Timers : timer[t].running =>
           t \in ToSet(List) \/ Unlinked(t) \/ \E d \in 1 .. Depth : t \in ToSet(c[d])
  BY <1>5, SeqFacts DEF Chains
<1>7. PICK r : r = Tail(c[n + 1])
  OBVIOUS
<1>8. /\ x \in ToSet(c[n + 1]) /\ r \in Seq(Timers) /\ IsChain(r, next[x], next)
      /\ ToSet(r) = ToSet(c[n + 1]) \ {x} /\ n + 1 \in 1 .. Depth
  <2>1. n + 1 \in 1 .. Depth /\ HeadAt(n + 1) = x
    BY <1>x, <1>1, <1>4 DEF HeadAt
  <2>2. IsChain(c[n + 1], x, next)
    BY <1>6, <2>1
  <2>3. x \in ToSet(c[n + 1]) /\ IsChain(r, next[x], next) /\ ToSet(r) = ToSet(c[n + 1]) \ {x}
    BY <1>2, <1>7, <2>2, ChainTail
  <2>4. r \in Seq(Timers)
    BY <2>3 DEF IsChain
  <2> QED BY <2>1, <2>3, <2>4
<1>9. timer[x].running /\ x \notin ToSet(List) /\ due[x] = timer[x].expiry /\ due[x] >= 1
  <2>1. Waiting(x)
    BY <1>6, <1>8
  <2> QED BY <1>2, <2>1 DEF Waiting, ExpiryOf
<1>10. /\ \A t \in Timers \ {x} : timer'[t] = timer[t] /\ due'[t] = due[t] /\ next'[t] = next[t]
       /\ ~timer'[x].running /\ timer'[x].hasExpired /\ timer'[x].expiry = timer[x].expiry
       /\ due'[x] = 0
  BY <1>0, <1>2 DEF Fields
<1>11. List' = List /\ ListBooks'
  <2>1. ASSUME NEW t \in ToSet(List) PROVE Stay(t) /\ ~Unlinked(t)'
    <3>1. t \in Timers \ {x}
      BY <1>2, <1>9, SeqFacts
    <3>2. Unlinked(t)' => Unlinked(t)
      <4>1. Level(2)'.do = "stopped" => n >= 2
        BY <1>4, <1>f
      <4>2. n >= 2 => Level(2)' = Level(2) /\ Depth >= 2
        BY <1>1, <1>4 DEF Grown
      <4> QED BY <4>1, <4>2 DEF Unlinked
    <3> QED BY <1>10, <3>1, <3>2 DEF PlainInv, ListBooks, Stay
  <2> QED BY <1>0, <2>1, ListKept DEF PlainInv
<1>12. Expiries'
  <2>1. ExpiryOf(x)'
    <3>1. timer[x].expiry + now' >= 1
      BY <1>0, <1>2, <1>9
    <3> QED BY <1>10, <3>1 DEF ExpiryOf
  <2>2. \A t \in Timers \ {x} : timer'[t] = timer[t] /\ due'[t] = due[t]
    BY <1>10, Zenon
  <2>4. now' = now
    BY <1>0
  <2>5. now' \in Nat /\ now <= now'
    BY <1>2, <2>4
  <2>3. Expiries
    BY DEF PlainInv
  <2> QED BY <1>2, <2>1, <2>2, <2>3, <2>5, ExpiriesStep
<1>13. Fired(x)'
  BY <1>10 DEF Fired
<1>14. ASSUME NEW d \in n + 1 .. Depth'
       PROVE  Placed(d, Level(d), Level(d - 1), Level(d - 2))'
  <2>1. CASE d = n + 1
    <3>1. Level(d)' = called /\ called.time <= now' /\ d # 1
      BY <1>0, <1>2, <1>4, <1>f, <2>1
    <3> QED BY <1>f, <1>13, <3>1, Zenon DEF Placed
  <2>2. CASE d = n + 2
    <3>1. Level(d)' = calls /\ calls.time <= now' /\ d # 1 /\ d - 1 = n + 1
      BY <1>0, <1>2, <1>4, <1>f, <2>2
    <3>2. Level(d - 1)' = called
      BY <1>4, <3>1
    <3>3. \A k \in DOMAIN calls.calls : calls.calls[k].op \in {"stop", "poll"} /\ calls.calls[k].t = x
      BY <1>2, <1>f DEF OwnCallbacks
    <3> QED BY <1>f, <3>1, <3>2, <3>3, Zenon DEF Placed
  <2> QED BY <1>4, <2>1, <2>2
<1>15. Places'
  <2>1. \A t \in Timers : Fired(t) => Fired(t)'
    BY <1>9, <1>10 DEF Fired
  <2> QED BY <1>0, <1>1, <1>2, <1>4, <1>14, <2>1, PlacesStep DEF PlainInv
<1>16. \E e : Chains(e)'
  <2>1. \A t \in Timers \ {x} : Waiting(t) => Waiting(t)'
    BY <1>0, <1>10, <1>11, Zenon DEF Waiting
  <2>2. \A d \in 1 .. n : d \in 1 .. Depth /\ d # n + 1
    BY <1>4
  <2>3. \A d \in 1 .. n : x \notin ToSet(c[d]) /\ ToSet(r) \cap ToSet(c[d]) = {}
    <3>1. \A d \in 1 .. n : ToSet(c[d]) \cap ToSet(c[n + 1]) = {}
      BY <1>6, <1>8, <2>2
    <3> QED BY <1>8, <3>1
  <2>4. \A d \in 1 .. n : \A t \in ToSet(c[d]) : next'[t] = next[t] /\ Waiting(t)'
    BY <1>0, <1>6, <2>1, <2>2, <2>3
  <2>5. \A t \in ToSet(r) : Waiting(t)'
    BY <1>6, <1>8, <2>1
  <2>6. IsChain(r, HeadAt(n + 1)', next')
    <3>1. HeadAt(n + 1)' = next'[x]
      BY <1>4, <1>f DEF HeadAt
    <3> QED BY <1>0, <1>8, <3>1
  <2>7. \A d \in n + 2 .. Depth' : HeadAt(d)' = None
    <3> SUFFICES ASSUME NEW d \in n + 2 .. Depth' PROVE HeadAt(d)' = None
      OBVIOUS
    <3>1. Level(d)' = calls
      BY <1>4
    <3> QED BY <1>f, <3>1 DEF HeadAt
  <2>8. ASSUME NEW t \in Timers, timer'[t].running
        PROVE  \/ t \in ToSet(List') \/ Unlinked(t)'
               \/ t \in ToSet(r) \/ \E d \in 1 .. n : t \in ToSet(c[d])
    <3>1. t # x /\ timer[t].running
      BY <1>10, <2>8
    <3>2. Unlinked(t) => Unlinked(t)'
      <4>1. Depth >= 2 /\ Level(2).do = "stopped" => n >= 2
        BY <1>1, <1>4
      <4>2. n >= 2 => Level(2)' = Level(2) /\ Depth' >= 2
        BY <1>4 DEF Grown
      <4> QED BY <4>1, <4>2 DEF Unlinked
    <3>3. \A d \in 1 .. Depth : d = n + 1 \/ d \in 1 .. n
      BY <1>4
    <3> QED BY <1>6, <1>8, <1>11, <3>1, <3>2, <3>3
  <2>9. \A d \in 1 .. n : Level(d).do = "called" => next'[Level(d).t] = next[Level(d).t]
    BY <1>0
  <2>10. /\ IF <<calls, called>> = <<>> THEN r = <<>> ELSE IsChain(r, HeadAt(n + 1)', next')
         /\ \A d \in 1 .. n : ToSet(r) \cap ToSet(c[d]) = {}
    BY <1>4, <2>3, <2>6
  <2>11. r \in Seq(Timers)
    BY <1>8
  <2>12. n \in Nat /\ Grown(n, <<calls, called>>)
    BY <1>3, <1>4
  <2>13. \A d \in 1 .. n : ToSet(r) \cap ToSet(c[d]) = {}
    BY <2>3
  <2> QED BY <1>5, <2>4, <2>5, <2>7, <2>8, <2>9, <2>10, <2>11, <2>12, <2>13, PendingStep, SMTT(60)
<1>17. CreateBooks' /\ AlarmBooks' /\ PollBooks'
  <2>1. n = 1 => Depth' = 1 \/ Level(2)'.do = "called"
    BY <1>4, <1>f
  <2>2. \A t \in ToSet(List) : timer'[t] = timer[t]
    BY <1>2, <1>9, <1>10, SeqFacts
  <2> QED BY <1>0, <1>4, <1>11, <2>1, <2>2, BooksKept
<1> QED BY <1>11, <1>12, <1>15, <1>16, <1>17, Zenon DEF PlainInv

LEMMA MaxOfTwo ==
  ASSUME NEW a \in Int, NEW b \in Int
  PROVE  Max({a, b}) \in {a, b} /\ Max({a, b}) >= a /\ Max({a, b}) >= b
<1>1. \E m \in {a, b} : \A k \in {a, b} : k <= m
  BY a <= b \/ b <= a
<1>2. Max({a, b}) \in {a, b} /\ \A k \in {a, b} : k <= Max({a, b})
  BY <1>1 DEF Max
<1> QED BY <1>2

LEMMA NothingBefore ==
  ASSUME NEW s \in Seq(Timers)
  PROVE  <<>> \o s = s
BY ConcatProperties, EmptySeq

\* What timer_update does with the list, while the ticks do not wrap.
LEMMA UpdateData ==
  ASSUME Wrap = 0, IInv, timer_update
  PROVE  \E front, back :
           /\ Split(List, front, back)
           /\ \A k \in 1 .. Len(front) : timer[front[k]].expiry <= now
           /\ Len(back) # 0 => ~(timer[back[1]].expiry <= now)
           /\ UNCHANGED timer /\ next' = Linked(next, Reverse(front))
           /\ timerList' = HeadOf(back)
           /\ GoOn(<<Trigger(HeadOf(Reverse(front)))>>)
           /\ alarm' = IF back = <<>> THEN alarm
                       ELSE now + Max({MinAlarm, timer[Head(back)].expiry - now})
<1> DEFINE o == timer_check_overflow
           Expired(t) == o.timer[t].expiry <= system_ticks
           front == Before(o.rest, Expired)
           back == From(o.rest, Expired)
           K == {k \in DOMAIN List : ~(timer[List[k]].expiry <= now)}
<1>1. List \in Seq(Timers) /\ timer \in Fields
  BY Types
<1>2. o.missed = <<>> /\ o.rest = List /\ o.timer = timer /\ system_ticks = now
  BY Zenon DEF timer_check_overflow, Overflow, system_ticks
<1>3. /\ timer' = o.timer /\ next' = Linked(next, Reverse(o.missed \o front))
      /\ timerList' = HeadOf(back)
      /\ GoOn(<<Trigger(HeadOf(Reverse(o.missed \o front)))>>)
      /\ alarm' = IF back = <<>> THEN alarm
                  ELSE now + Max({MinAlarm, IF Wrap = 0
                                            THEN o.timer[Head(back)].expiry - system_ticks
                                            ELSE Min({o.timer[Head(back)].expiry - system_ticks,
                                                      Wrap - 1})})
  BY Zenon DEF timer_update
<1>4. front = SubSeq(List, 1, Min(K \cup {Len(List) + 1}) - 1)
  <2>1. front = SubSeq(o.rest, 1, Min({k \in DOMAIN o.rest :
                       ~(o.timer[o.rest[k]].expiry <= system_ticks)} \cup {Len(o.rest) + 1}) - 1)
    BY Zenon DEF Before
  <2> QED BY <1>2, <2>1, Zenon
<1>5. back = SubSeq(List, Len(front) + 1, Len(List))
  <2>1. back = SubSeq(o.rest, Len(Before(o.rest, Expired)) + 1, Len(o.rest))
    BY Zenon DEF From
  <2> QED BY <1>2, <2>1, Zenon
<1>6. K \in SUBSET DOMAIN List
  OBVIOUS
<1> HIDE DEF o, front, back
<1>7. /\ Split(List, front, back)
      /\ \A k \in 1 .. Len(front) : k \notin K
      /\ Len(back) # 0 => Len(front) + 1 \in K
  <2> HIDE DEF K
  <2> QED BY <1>1, <1>4, <1>5, <1>6, CutParts, Zenon
<1>8. /\ Len(front) \in Nat /\ Len(back) \in Nat /\ Len(List) = Len(front) + Len(back)
      /\ DOMAIN List = 1 .. Len(List) /\ front \in Seq(Timers)
      /\ \A k \in 1 .. Len(front) : List[k] = front[k]
      /\ \A k \in 1 .. Len(back) : List[Len(front) + k] = back[k]
  BY <1>1, <1>7, LenProperties DEF Split
<1>9. \A k \in 1 .. Len(front) : timer[front[k]].expiry <= now
  BY <1>7, <1>8
<1>10. Len(back) # 0 => ~(timer[back[1]].expiry <= now)
  BY <1>7, <1>8
<1>11. o.missed \o front = front
  BY <1>2, <1>8, NothingBefore
<1> HIDE DEF K
<1> QED BY <1>2, <1>3, <1>7, <1>9, <1>10, <1>11, Zenon

LEMMA PlainUpdate == ASSUME Wrap = 0, IInv, PlainInv, timer_update PROVE PlainInv'
<1>1. PICK front, back :
           /\ Split(List, front, back)
           /\ \A k \in 1 .. Len(front) : timer[front[k]].expiry <= now
           /\ Len(back) # 0 => ~(timer[back[1]].expiry <= now)
           /\ UNCHANGED timer /\ next' = Linked(next, Reverse(front))
           /\ timerList' = HeadOf(back)
           /\ GoOn(<<Trigger(HeadOf(Reverse(front)))>>)
           /\ alarm' = IF back = <<>> THEN alarm
                       ELSE now + Max({MinAlarm, timer[Head(back)].expiry - now})
  BY UpdateData
<1>0. /\ At("update") /\ UNCHANGED <<now, due, timer>> /\ now \in Nat
      /\ timer \in Fields /\ next \in Links /\ List \in Seq(Timers)
  BY <1>1, Types DEF timer_update
<1>2. /\ stack \in Seq(Frames) /\ stack # <<>>
      /\ Top.do = "update" /\ Level(Depth) = Top /\ Depth >= 2
      /\ Level(1).do \in {"calls", "iret"} /\ Depth \in Nat
  BY <1>0, Here
<1>3. /\ Distinct(List) /\ InOrder(List, timer) /\ IsChain(List, timerList, next)
      /\ \A t \in ToSet(List) : timer[t].running /\ ~Unlinked(t)
  BY DEF PlainInv, ListBooks, IsChain
<1>4. /\ front \in Seq(Timers) /\ back \in Seq(Timers) /\ Distinct(front) /\ Distinct(back)
      /\ ToSet(List) = ToSet(front) \cup ToSet(back)
      /\ ToSet(front) \cap ToSet(back) = {}
      /\ InOrder(back, timer) /\ IsChain(back, HeadOf(back), next)
  <2>1. Split(List, front, back)
    BY <1>1
  <2>2. front \in Seq(Timers) /\ back \in Seq(Timers)
    BY <2>1 DEF Split
  <2>3. /\ Distinct(front) /\ Distinct(back)
        /\ ToSet(List) = ToSet(front) \cup ToSet(back)
        /\ ToSet(front) \cap ToSet(back) = {}
    BY <1>3, <2>1, SplitFacts
  <2>4. \A fields : InOrder(List, fields) => InOrder(back, fields)
    BY <1>3, <2>1, SplitFacts
  <2>5. \A h, links : IsChain(List, h, links) => IsChain(back, HeadOf(back), links)
    BY <1>3, <2>1, SplitFacts
  <2> QED BY <1>3, <2>2, <2>3, <2>4, <2>5, Zenon
<1>r. PICK r : r = Reverse(front)
  OBVIOUS
<1>5. r \in Seq(Timers) /\ Distinct(r) /\ ToSet(r) = ToSet(front)
  BY <1>r, <1>4, ReverseFacts
<1>6. /\ next' = Linked(next, r) /\ IsChain(r, HeadOf(r), next')
      /\ \A t \in Timers : t \notin ToSet(front) => next'[t] = next[t]
  BY <1>0, <1>1, <1>r, <1>5, LinkedFacts
\* The list is what has been left.
<1>7. IsChain(back, timerList', next') /\ List' = back
  <2>1. \A t \in ToSet(back) : next'[t] = next[t]
    BY <1>4, <1>6, SeqFacts
  <2>2. IsChain(back, timerList', next')
    BY <1>1, <1>4, <2>1, ChainKept
  <2> QED BY <2>2, ListNext
<1>8. \A t \in ToSet(front) : timer[t].expiry <= now
  BY <1>1, <1>4, SeqFacts
<1>9. \A t \in ToSet(back) :
        /\ timer[t].expiry \in Int /\ timer[t].expiry > now
        /\ back # <<>> /\ Head(back) \in Timers /\ timer[t].expiry >= timer[Head(back)].expiry
        /\ timer[Head(back)].expiry \in Int /\ timer[Head(back)].expiry > now
  <2> SUFFICES ASSUME NEW t \in ToSet(back)
               PROVE  /\ timer[t].expiry \in Int /\ timer[t].expiry > now
                      /\ back # <<>> /\ Head(back) \in Timers
                      /\ timer[t].expiry >= timer[Head(back)].expiry
                      /\ timer[Head(back)].expiry \in Int /\ timer[Head(back)].expiry > now
    OBVIOUS
  <2>1. PICK k \in 1 .. Len(back) : back[k] = t
    BY <1>4, SeqFacts
  <2>2. /\ Len(back) \in Nat /\ Len(back) # 0 /\ back # <<>> /\ back[1] \in Timers
        /\ t \in Timers
    BY <1>4, <2>1, SeqFacts
  <2>3. Head(back) = back[1]
    BY <1>4, <2>2, HeadTailProperties
  <2>4. timer[t].expiry \in Int /\ timer[back[1]].expiry \in Int
    BY <1>0, <2>2 DEF Fields
  <2>5. timer[back[1]].expiry > now
    BY <1>0, <1>1, <2>2, <2>4
  <2>6. timer[back[1]].expiry <= timer[t].expiry
    <3>1. CASE k = 1
      BY <2>1, <2>4, <3>1
    <3>2. CASE k # 1
      BY <1>4, <2>1, <2>2, <3>2 DEF InOrder
    <3> QED BY <3>1, <3>2
  <2> QED BY <1>0, <2>2, <2>3, <2>4, <2>5, <2>6
<1> DEFINE f == Trigger(HeadOf(r))
<1>f. f \in Frames /\ f.do = "trigger" /\ f.time = 0 /\ f.t = HeadOf(r)
  BY <1>5, HeadOfType, FrameTypes DEF Trigger, Frame
<1>10. PICK n \in Nat : n = Depth - 1
  BY <1>2
<1>g. GoOn(<<f>>)
  BY <1>1, <1>r
<1> HIDE DEF f
<1>11. /\ Grown(n, <<f>>) /\ <<f>> # <<>> /\ n + 1 = Depth /\ n >= 1
       /\ Depth' = n + 1 /\ Level(n + 1)' = f
  <2>1. <<f>> \in Seq(Frames) /\ <<f>> # <<>>
    BY <1>f, ShortSeqs
  <2>2. Grown(n, <<f>>)
    BY <1>g, <1>2, <1>10, <2>1, GoneOn
  <2> QED BY <1>2, <1>10, <1>f, <2>1, <2>2, ShortGrown
<1>u. \A t : Unlinked(t)' <=> Unlinked(t)
  <2>1. Level(2)'.do = "stopped" \/ (Depth >= 2 /\ Level(2).do = "stopped") => n >= 2
    BY <1>2, <1>11, <1>f
  <2>2. n >= 2 => Level(2)' = Level(2) /\ Depth >= 2 /\ Depth' >= 2
    BY <1>2, <1>11 DEF Grown
  <2> QED BY <2>1, <2>2 DEF Unlinked
<1>12. ListBooks'
  <2>1. InOrder(back, timer')
    BY <1>0, <1>4
  <2>2. \A t \in ToSet(back) : timer'[t].running /\ ~Unlinked(t)'
    BY <1>0, <1>3, <1>4, <1>u
  <2> QED BY <1>7, <2>1, <2>2, Zenon DEF ListBooks
<1>13. Expiries'
  <2>1. \A t \in Timers : ExpiryOf(t)'
    BY <1>0, Zenon DEF PlainInv, Expiries, ExpiryOf
  <2> QED BY <2>1, Zenon DEF Expiries
<1>14. Places'
  <2>1. \A t \in Timers : Fired(t) => Fired(t)'
    BY <1>0 DEF Fired
  <2>2. ASSUME NEW d \in n + 1 .. Depth'
        PROVE  Placed(d, Level(d), Level(d - 1), Level(d - 2))'
    <3>1. Level(d)' = f /\ f.time <= now' /\ d # 1
      BY <1>0, <1>11, <1>f
    <3> QED BY <1>f, <3>1, Zenon DEF Placed
  <2> QED BY <1>0, <1>2, <1>11, <2>1, <2>2, PlacesStep DEF PlainInv
<1>15. \E e : Chains(e)'
  <2>1. PICK c : Chains(c)
    BY DEF PlainInv
  <2>2. /\ \A d \in 1 .. n : d \in 1 .. Depth
        /\ \A d \in 1 .. Depth : d = n + 1 \/ d \in 1 .. n
        /\ n + 1 \in 1 .. Depth
    BY <1>2, <1>11
  <2>3. /\ \A d \in 1 .. Depth : c[d] \in Seq(Timers) /\ IsChain(c[d], HeadAt(d), next)
        /\ \A d \in 1 .. Depth : \A t \in ToSet(c[d]) : Waiting(t) /\ t \in Timers
        /\ \A t \in Timers : timer[t].running =>
           t \in ToSet(List) \/ Unlinked(t) \/ \E d \in 1 .. Depth : t \in ToSet(c[d])
    BY <2>1, SeqFacts DEF Chains
  <2>4. ToSet(c[n + 1]) = {}
    <3>1. HeadAt(n + 1) = None
      BY <1>2, <1>11 DEF HeadAt
    <3>2. c[n + 1] = <<>>
      BY <2>2, <2>3, <3>1, EmptyChain
    <3> QED BY <3>2 DEF ToSet
  <2>5. \A t \in Timers : Waiting(t) => t \notin ToSet(List) /\ next'[t] = next[t] /\ Waiting(t)'
    <3> SUFFICES ASSUME NEW t \in Timers, Waiting(t)
                 PROVE  t \notin ToSet(List) /\ next'[t] = next[t] /\ Waiting(t)'
      OBVIOUS
    <3>1. t \notin ToSet(List)
      BY DEF Waiting
    <3>2. t \notin ToSet(front) /\ t \notin ToSet(List')
      BY <1>4, <1>7, <3>1
    <3> QED BY <1>0, <1>6, <3>1, <3>2 DEF Waiting
  <2>6. \A d \in 1 .. n : \A t \in ToSet(c[d]) : next'[t] = next[t] /\ Waiting(t)'
    BY <2>2, <2>3, <2>5
  <2>7. \A d \in 1 .. n : Level(d).do = "called" => next'[Level(d).t] = next[Level(d).t]
    <3> SUFFICES ASSUME NEW d \in 1 .. n, Level(d).do = "called"
                 PROVE  next'[Level(d).t] = next[Level(d).t]
      OBVIOUS
    <3>1. d \in 1 .. Depth /\ Placed(d, Level(d), Level(d - 1), Level(d - 2))
      BY <2>2 DEF PlainInv, Places
    <3>2. Fired(Level(d).t) /\ Level(d) \in Frames
      BY <1>2, <3>1, LevelFacts DEF Placed
    <3>3. Level(d).t \in Timers /\ Level(d).t \notin ToSet(List)
      BY <1>3, <3>2 DEF Fired, Frames, OfATimer
    <3> QED BY <1>4, <1>6, <3>3
  <2>8. IF <<f>> = <<>> THEN r = <<>> ELSE IsChain(r, HeadAt(n + 1)', next')
    <3>1. HeadAt(n + 1)' = HeadOf(r)
      BY <1>11, <1>f DEF HeadAt
    <3> QED BY <1>6, <1>11, <3>1
  <2>9. \A t \in ToSet(r) : Waiting(t)'
    <3> SUFFICES ASSUME NEW t \in ToSet(front) PROVE Waiting(t)'
      BY <1>5
    <3>1. t \in ToSet(List) /\ t \notin ToSet(List')
      BY <1>4, <1>7
    <3>2. timer[t].running /\ timer[t].expiry <= now
      BY <1>3, <1>8, <3>1
    <3> QED BY <1>0, <3>1, <3>2, Zenon DEF Waiting
  <2>10. \A d \in 1 .. n : ToSet(r) \cap ToSet(c[d]) = {}
    BY <1>4, <1>5, <2>2, <2>3, <2>5
  <2>11. \A t \in Timers : timer'[t].running =>
           \/ t \in ToSet(List') \/ Unlinked(t)'
           \/ t \in ToSet(r) \/ \E d \in 1 .. n : t \in ToSet(c[d])
    BY <1>0, <1>4, <1>5, <1>7, <1>u, <2>2, <2>3, <2>4
  <2>12. /\ n \in Nat /\ Grown(n, <<f>>) /\ r \in Seq(Timers)
         /\ \A d \in n + 2 .. Depth' : HeadAt(d)' = None
    BY <1>5, <1>10, <1>11
  <2>13. PICK fs : fs = <<f>>
    OBVIOUS
  <2>14. /\ n \in Nat /\ Grown(n, fs) /\ r \in Seq(Timers)
         /\ IF fs = <<>> THEN r = <<>> ELSE IsChain(r, HeadAt(n + 1)', next')
    BY <2>8, <2>12, <2>13
  <2> QED BY <2>1, <2>6, <2>7, <2>9, <2>10, <2>11, <2>12, <2>14, PendingStep
<1>16. ToSet(List') \subseteq ToSet(List)
  BY <1>4, <1>7
<1>17. CreateBooks'
  <2>1. n = 1 => Depth = 2 /\ Level(2) = Top /\ Level(2)' = f
    BY <1>2, <1>11
  <2>2. \A t \in Timers : Listed(t)' => Listed(t)
    <3>1. CASE n = 1
      BY <1>2, <1>f, <1>16, <2>1, <3>1 DEF Listed
    <3>2. CASE n >= 2
      BY <1>11, <1>16, <3>2, ListedKept
    <3> QED BY <1>11, <3>1, <3>2
  <2>3. Depth' >= 2 /\ Level(2)'.do = "create" => n >= 2 /\ ToSet(List') \subseteq ToSet(List)
    BY <1>11, <1>16, <1>f, <2>1
  <2> QED BY <1>10, <1>11, <2>2, <2>3, CreateKept DEF PlainInv
<1>18. Covered'
  <2> SUFFICES ASSUME NEW t \in ToSet(back)
               PROVE  alarm' # 0 /\ alarm' <= timer[t].expiry + MinAlarm - 1
    BY <1>0, <1>7, Zenon DEF Covered
  <2>1. /\ timer[t].expiry \in Int /\ back # <<>> /\ timer[t].expiry >= timer[Head(back)].expiry
        /\ timer[Head(back)].expiry \in Int /\ timer[Head(back)].expiry > now
    BY <1>9
  <2>2. MinAlarm \in Nat \ {0} /\ now \in Nat
    BY <1>0, AlarmAssumption
  <2>3. alarm' = now + Max({MinAlarm, timer[Head(back)].expiry - now})
    BY <1>1, <2>1
  <2> DEFINE b == timer[Head(back)].expiry - now
  <2>4. b \in Int /\ b >= 1 /\ now + b <= timer[t].expiry /\ MinAlarm \in Int
    BY <2>1, <2>2
  <2> HIDE DEF b
  <2>5. Max({MinAlarm, b}) \in {MinAlarm, b} /\ Max({MinAlarm, b}) >= MinAlarm
    BY <2>4, MaxOfTwo
  <2>6. PICK m : m = Max({MinAlarm, b})
    OBVIOUS
  <2>7. m \in Int /\ m >= MinAlarm /\ (m = MinAlarm \/ m = b)
    BY <2>4, <2>5, <2>6
  <2>8. now + m # 0 /\ now + m <= timer[t].expiry + MinAlarm - 1
    BY <2>1, <2>2, <2>4, <2>7
  <2>9. alarm' = now + m
    BY <2>3, <2>6 DEF b
  <2> QED BY <2>8, <2>9
<1>19. AlarmBooks'
  BY <1>18 DEF AlarmBooks
\* Whatever was due when the question was asked has left the list.
<1>20. PollBooks'
  <2>1. CASE n = 1
    <3>1. Level(2)'.do # "polled"
      BY <1>11, <1>f, <2>1
    <3> QED BY <3>1, PollNew
  <2>2. CASE n >= 2
    <3>1. 2 \in 1 .. Depth' /\ 2 \in 1 .. Depth /\ Level(2)' = Level(2)
      BY <1>2, <1>11, <2>2 DEF Grown
    <3>2. Level(2) \in Frames
      BY <1>2, <3>1, LevelFacts
    <3>3. Level(2)'.time <= now' /\ Level(2)'.time \in Nat
      BY <1>14, <3>1, <3>2 DEF Places, Placed, Frames
    <3>4. ASSUME NEW t \in ToSet(back) PROVE timer'[t].expiry > Level(2)'.time
      <4>1. timer[t].expiry \in Int /\ timer[t].expiry > now
        BY <1>9
      <4> QED BY <1>0, <3>3, <4>1
    <3> QED BY <1>7, <3>4 DEF PollBooks
  <2> QED BY <1>11, <2>1, <2>2
<1> QED BY <1>12, <1>13, <1>14, <1>15, <1>17, <1>19, <1>20, Zenon DEF PlainInv

\* Where timer_start puts a timer, while the ticks do not wrap.
LEMMA InsertData ==
  ASSUME Wrap = 0, IInv, Insert, NEW x, x = Top.t
  PROVE  \E front, back :
           /\ Split(List, front, back)
           /\ \A k \in 1 .. Len(front) : timer[front[k]].expiry <= timer[x].expiry + now
           /\ Len(back) # 0 => ~(timer[back[1]].expiry <= timer[x].expiry + now)
           /\ timer' = [timer EXCEPT ![x].expiry = timer[x].expiry + now, ![x].running = TRUE]
           /\ next' = Linked(next, front \o <<x>> \o back)
           /\ timerList' = Head(front \o <<x>> \o back)
           /\ due' = [due EXCEPT ![x] = now + timer[x].expiry]
           /\ GoOn(<<Update, Trigger(None)>>)
<1> DEFINE o == timer_check_overflow
           deadline == o.timer[Top.t].expiry + system_ticks
           Earlier(u) == o.timer[u].expiry <= deadline
           front == Before(o.rest, Earlier)
           back == From(o.rest, Earlier)
           K == {k \in DOMAIN List : ~(timer[List[k]].expiry <= timer[Top.t].expiry + now)}
<1>1. List \in Seq(Timers) /\ timer \in Fields /\ next \in Links
  BY Types
<1>2. o.missed = <<>> /\ o.rest = List /\ o.timer = timer /\ system_ticks = now
  BY Zenon DEF timer_check_overflow, Overflow, system_ticks
<1>3. /\ timer' = [o.timer EXCEPT ![Top.t].expiry = deadline, ![Top.t].running = TRUE]
      /\ next' = Linked(Linked(next, Reverse(o.missed)), front \o <<Top.t>> \o back)
      /\ timerList' = Head(front \o <<Top.t>> \o back)
      /\ due' = [due EXCEPT ![Top.t] = now + timer[Top.t].expiry]
      /\ GoOn(<<Update, Trigger(HeadOf(Reverse(o.missed)))>>)
  BY Zenon DEF Insert
<1>4. front = SubSeq(List, 1, Min(K \cup {Len(List) + 1}) - 1)
  <2>1. front = SubSeq(o.rest, 1, Min({k \in DOMAIN o.rest :
                       ~(o.timer[o.rest[k]].expiry <= deadline)} \cup {Len(o.rest) + 1}) - 1)
    BY Zenon DEF Before
  <2> QED BY <1>2, <2>1, Zenon
<1>5. back = SubSeq(List, Len(front) + 1, Len(List))
  <2>1. back = SubSeq(o.rest, Len(Before(o.rest, Earlier)) + 1, Len(o.rest))
    BY Zenon DEF From
  <2> QED BY <1>2, <2>1, Zenon
<1>6. K \in SUBSET DOMAIN List
  OBVIOUS
<1>d. deadline = timer[Top.t].expiry + now
  BY <1>2, Zenon
<1> HIDE DEF o, front, back, deadline
<1>7. /\ Split(List, front, back)
      /\ \A k \in 1 .. Len(front) : k \notin K
      /\ Len(back) # 0 => Len(front) + 1 \in K
  <2> HIDE DEF K
  <2> QED BY <1>1, <1>4, <1>5, <1>6, CutParts, Zenon
<1>8. /\ Len(front) \in Nat /\ Len(back) \in Nat /\ Len(List) = Len(front) + Len(back)
      /\ DOMAIN List = 1 .. Len(List) /\ front \in Seq(Timers)
      /\ \A k \in 1 .. Len(front) : List[k] = front[k]
      /\ \A k \in 1 .. Len(back) : List[Len(front) + k] = back[k]
  BY <1>1, <1>7, LenProperties DEF Split
<1>9. \A k \in 1 .. Len(front) : timer[front[k]].expiry <= timer[Top.t].expiry + now
  BY <1>7, <1>8
<1>10. Len(back) # 0 => ~(timer[back[1]].expiry <= timer[Top.t].expiry + now)
  BY <1>7, <1>8
<1>11. Reverse(o.missed) = <<>> /\ Linked(next, <<>>) = next /\ HeadOf(<<>>) = None
  <2>1. Reverse(<<>>) = <<>>
    BY ReverseFacts DEF Reverse
  <2> QED BY <1>1, <1>2, <2>1, LinkedNothing DEF HeadOf
<1> HIDE DEF K
<1>12. /\ next' = Linked(next, front \o <<Top.t>> \o back)
       /\ GoOn(<<Update, Trigger(None)>>)
       /\ timer' = [timer EXCEPT ![Top.t].expiry = timer[Top.t].expiry + now, ![Top.t].running = TRUE]
  BY <1>2, <1>3, <1>d, <1>11, Zenon
<1>13. /\ timerList' = Head(front \o <<Top.t>> \o back)
       /\ due' = [due EXCEPT ![Top.t] = now + timer[Top.t].expiry]
       /\ Split(List, front, back)
  BY <1>3, <1>7, Zenon
<1> QED BY <1>9, <1>10, <1>12, <1>13, Zenon

LEMMA PlainInsert == ASSUME Wrap = 0, IInv, PlainInv, Insert PROVE PlainInv'
<1>x. PICK x : x = Top.t
  OBVIOUS
<1>1. PICK front, back :
           /\ Split(List, front, back)
           /\ \A k \in 1 .. Len(front) : timer[front[k]].expiry <= timer[x].expiry + now
           /\ Len(back) # 0 => ~(timer[back[1]].expiry <= timer[x].expiry + now)
           /\ timer' = [timer EXCEPT ![x].expiry = timer[x].expiry + now, ![x].running = TRUE]
           /\ next' = Linked(next, front \o <<x>> \o back)
           /\ timerList' = Head(front \o <<x>> \o back)
           /\ due' = [due EXCEPT ![x] = now + timer[x].expiry]
           /\ GoOn(<<Update, Trigger(None)>>)
  BY <1>x, InsertData
<1>0. /\ At("insert") /\ ~timer[x].running /\ ~timer[x].hasExpired /\ UNCHANGED <<now, alarm>>
  BY <1>x DEF Insert, clock
<1>2. /\ stack \in Seq(Frames) /\ stack # <<>>
      /\ Top.do = "insert" /\ Top \in Frames /\ Level(Depth) = Top /\ Depth >= 2
      /\ Level(1).do \in {"calls", "iret"} /\ Depth \in Nat
      /\ Placed(Depth, Top, Level(Depth - 1), Level(Depth - 2))
  BY <1>0, Here
<1>3. /\ x \in Timers /\ now \in Nat /\ timer \in Fields /\ next \in Links
      /\ due \in [Timers -> Int] /\ List \in Seq(Timers) /\ timer[x].expiry \in Int
  BY <1>x, <1>2, Types DEF Frames, OfATimer, Fields
<1>4. Depth = 2 /\ Level(2) = Top
  BY <1>2 DEF Placed
<1>5. /\ timer'[x].expiry = timer[x].expiry + now /\ timer'[x].running
      /\ timer'[x].hasExpired = timer[x].hasExpired /\ due'[x] = now + timer[x].expiry
      /\ \A t \in Timers \ {x} : timer'[t] = timer[t] /\ due'[t] = due[t]
  BY <1>1, <1>3 DEF Fields
<1>6. /\ Distinct(List) /\ InOrder(List, timer) /\ IsChain(List, timerList, next)
      /\ \A t \in ToSet(List) : timer[t].running
      /\ x \notin ToSet(List) /\ Split(List, front, back)
  BY <1>0, <1>1 DEF PlainInv, ListBooks, IsChain
<1>7. /\ front \in Seq(Timers) /\ back \in Seq(Timers)
      /\ Len(front) \in Nat /\ Len(back) \in Nat /\ Len(List) = Len(front) + Len(back)
      /\ \A k \in 1 .. Len(front) : List[k] = front[k] /\ front[k] \in Timers \ {x}
      /\ \A k \in 1 .. Len(back) : List[Len(front) + k] = back[k] /\ back[k] \in Timers \ {x}
  <2>1. /\ front \in Seq(Timers) /\ back \in Seq(Timers)
        /\ Len(List) = Len(front) + Len(back)
        /\ \A k \in 1 .. Len(front) : List[k] = front[k]
        /\ \A k \in 1 .. Len(back) : List[Len(front) + k] = back[k]
    BY <1>6 DEF Split
  <2>2. Len(front) \in Nat /\ Len(back) \in Nat
    BY <2>1, LenProperties
  <2>3. /\ \A k \in 1 .. Len(front) : k \in 1 .. Len(List)
        /\ \A k \in 1 .. Len(back) : Len(front) + k \in 1 .. Len(List)
    BY <2>1, <2>2
  <2>4. \A k \in 1 .. Len(List) : List[k] \in Timers \ {x}
    BY <1>3, <1>6, SeqFacts
  <2> QED BY <2>1, <2>2, <2>3, <2>4
<1>b. PICK list : Inserted(list, front, x, back)
  BY DEF Inserted
<1>8. /\ list \in Seq(Timers) /\ Distinct(list) /\ ToSet(list) = ToSet(List) \cup {x}
      /\ list # <<>> /\ InOrder(list, timer')
  <2>1. /\ list \in Seq(Timers) /\ Distinct(list) /\ ToSet(list) = ToSet(List) \cup {x}
        /\ list # <<>>
        /\ \A fields :
             /\ InOrder(List, fields)
             /\ \A k \in 1 .. Len(front) : fields[front[k]].expiry <= fields[x].expiry
             /\ \A k \in 1 .. Len(back) : fields[x].expiry <= fields[back[k]].expiry
             => InOrder(list, fields)
    <3>1. x \in Timers /\ x \notin ToSet(List) /\ Split(List, front, back) /\ Distinct(List)
      BY <1>3, <1>6
    <3> QED BY <1>b, <3>1, InsertFacts
  <2>2. \A k \in 1 .. Len(List) : timer'[List[k]] = timer[List[k]]
    BY <1>3, <1>5, <1>6, SeqFacts
  <2>3. InOrder(List, timer')
    BY <1>6, <2>2 DEF InOrder
  <2>4. \A k \in 1 .. Len(front) : timer'[front[k]].expiry <= timer'[x].expiry
    BY <1>1, <1>5, <1>7
  <2>5. ASSUME NEW k \in 1 .. Len(back) PROVE timer'[x].expiry <= timer'[back[k]].expiry
    <3>1. Len(back) # 0 /\ 1 \in 1 .. Len(back)
      BY <1>7
    <3>2. timer[back[1]].expiry \in Int /\ timer[back[k]].expiry \in Int
      BY <1>3, <1>7, <3>1 DEF Fields
    <3>3. timer[back[1]].expiry <= timer[back[k]].expiry
      <4>1. CASE k = 1
        BY <3>2, <4>1
      <4>2. CASE k # 1
        <5>1. /\ Len(front) + 1 \in 1 .. Len(List) /\ Len(front) + k \in 1 .. Len(List)
              /\ Len(front) + 1 < Len(front) + k
          BY <1>7, <4>2
        <5>2. timer[List[Len(front) + 1]].expiry <= timer[List[Len(front) + k]].expiry
          BY <1>6, <5>1, Zenon DEF InOrder
        <5> QED BY <1>7, <3>1, <5>2
      <4> QED BY <4>1, <4>2
    <3>4. ~(timer[back[1]].expiry <= timer[x].expiry + now)
      BY <1>1, <3>1
    <3>5. timer[x].expiry + now <= timer[back[k]].expiry
      BY <1>3, <3>2, <3>3, <3>4
    <3>6. timer'[back[k]] = timer[back[k]]
      BY <1>5, <1>7
    <3> QED BY <1>5, <3>5, <3>6
  <2> QED BY <2>1, <2>3, <2>4, <2>5
<1>a. next' = Linked(next, list) /\ timerList' = Head(list)
  BY <1>1, <1>b, Zenon DEF Inserted
<1>9. IsChain(list, timerList', next') /\ List' = list
  <2>1. HeadOf(list) = timerList'
    BY <1>8, <1>a DEF HeadOf
  <2>2. IsChain(list, timerList', next')
    BY <1>3, <1>8, <1>a, <2>1, LinkedFacts
  <2> QED BY <2>2, ListNext
<1>10. PICK n \in Nat : n = 1
  OBVIOUS
<1> DEFINE f == Trigger(None)
<1>f. /\ f \in Frames /\ f.do = "trigger" /\ f.time = 0 /\ f.t = None
      /\ Update \in Frames /\ Update.do = "update" /\ Update.time = 0
  BY FrameTypes DEF Trigger, Frame, Update
<1>g. GoOn(<<Update, f>>)
  BY <1>1
<1> HIDE DEF f
<1>s. PICK fs : fs = <<Update, f>>
  OBVIOUS
<1>11. Grown(n, fs) /\ fs # <<>> /\ Depth' = n + 2 /\ Level(n + 1)' = f /\ Level(n + 2)' = Update
  <2>1. fs \in Seq(Frames) /\ fs # <<>>
    BY <1>f, <1>s, ShortSeqs
  <2>2. n = Depth - 1
    BY <1>4, <1>10
  <2>3. Grown(n, fs)
    BY <1>g, <1>2, <1>s, <2>1, <2>2, GoneOn
  <2>4. Grown(n, <<Update, f>>)
    BY <1>s, <2>3
  <2> QED BY <1>10, <1>f, <2>1, <2>3, <2>4, ShortGrown
<1>12. Depth' = 3 /\ Level(2)' = f /\ Level(3)' = Update
  BY <1>10, <1>11
<1>13. ListBooks'
  <2>1. \A t \in ToSet(list) : timer'[t].running /\ ~Unlinked(t)'
    <3>1. \A t \in ToSet(list) : timer'[t].running
      BY <1>3, <1>5, <1>6, <1>8, SeqFacts
    <3>2. \A t : ~Unlinked(t)'
      BY <1>12, <1>f DEF Unlinked
    <3> QED BY <3>1, <3>2
  <2> QED BY <1>8, <1>9, <2>1, Zenon DEF ListBooks
<1>14. Expiries'
  <2>1. ExpiryOf(x)'
    <3>1. timer[x].expiry + now >= 1
      BY <1>0, <1>3 DEF PlainInv, Expiries, ExpiryOf
    <3>2. due'[x] = timer'[x].expiry /\ due'[x] >= 1
      BY <1>3, <1>5, <3>1
    <3> QED BY <1>0, <1>5, <3>2 DEF ExpiryOf
  <2>2. now' \in Nat /\ now <= now' /\ Expiries
    BY <1>0, <1>3 DEF PlainInv
  <2> QED BY <1>3, <1>5, <2>1, <2>2, ExpiriesStep
<1>15. Places'
  <2>1. ASSUME NEW d \in n + 1 .. Depth'
        PROVE  Placed(d, Level(d), Level(d - 1), Level(d - 2))'
    <3>1. d # 1 /\ (Level(d)' = f \/ Level(d)' = Update) /\ f.time <= now' /\ Update.time <= now'
      <4>1. d = 2 \/ d = 3
        BY <1>10, <1>12
      <4> QED BY <1>0, <1>3, <1>12, <1>f, <4>1
    <3> QED BY <1>f, <3>1, Zenon DEF Placed
  <2>2. n <= 1 /\ now' \in Nat /\ now <= now'
    BY <1>0, <1>3, <1>10
  <2> QED BY <1>2, <1>3, <1>10, <1>11, <2>1, <2>2, PlacesStep DEF PlainInv
<1>16. \E e : Chains(e)'
  <2>1. PICK c : Chains(c)
    BY DEF PlainInv
  <2>2. ASSUME NEW d \in 1 .. Depth PROVE ToSet(c[d]) = {}
    <3>1. d = 1 \/ d = Depth
      BY <1>4
    <3>2. HeadAt(d) = None
      BY <1>2, <3>1 DEF HeadAt
    <3>3. c[d] = <<>>
      BY <2>1, <3>2, EmptyChain DEF Chains
    <3> QED BY <3>3 DEF ToSet
  <2>3. PICK r \in Seq(Timers) : r = <<>>
    <3>1. <<>> \in Seq(Timers)
      OBVIOUS
    <3> QED BY <3>1, Zenon
  <2>4. ToSet(r) = {}
    BY <2>3 DEF ToSet
  <2>5. \A d \in 1 .. n : d = 1 /\ d \in 1 .. Depth
    BY <1>4, <1>10
  <2>6. /\ \A d \in 1 .. n : \A t \in ToSet(c[d]) : next'[t] = next[t] /\ Waiting(t)'
        /\ \A d \in 1 .. n : ToSet(r) \cap ToSet(c[d]) = {}
        /\ \A t \in ToSet(r) : Waiting(t)'
    BY <2>2, <2>4, <2>5
  <2>7. \A d \in 1 .. n : Level(d).do = "called" => next'[Level(d).t] = next[Level(d).t]
    BY <1>2, <2>5
  <2>8. HeadAt(n + 1)' = None /\ HeadAt(n + 2)' = None
    BY <1>11, <1>f DEF HeadAt
  <2>9. \A d \in n + 2 .. Depth' : HeadAt(d)' = None
    <3> SUFFICES ASSUME NEW d \in n + 2 .. Depth' PROVE HeadAt(d)' = None
      OBVIOUS
    <3>1. Level(d)' = Update
      BY <1>11
    <3> QED BY <1>f, <3>1 DEF HeadAt
  <2>10. IF fs = <<>> THEN r = <<>> ELSE IsChain(r, HeadAt(n + 1)', next')
    BY <1>11, <2>3, <2>8, EmptyChain
  <2>11. ASSUME NEW t \in Timers, timer'[t].running PROVE t \in ToSet(List')
    <3>1. t # x => timer[t].running
      BY <1>5, <2>11
    <3>2. ~Unlinked(t)
      BY <1>2, <1>4 DEF Unlinked
    <3>3. t # x => t \in ToSet(List)
      BY <2>1, <2>2, <3>1, <3>2 DEF Chains
    <3> QED BY <1>8, <1>9, <3>3
  <2>12. n \in Nat /\ r \in Seq(Timers) /\ Grown(n, fs)
    BY <1>10, <1>11, <2>3
  <2>13. \A t \in Timers : timer'[t].running =>
           \/ t \in ToSet(List') \/ Unlinked(t)'
           \/ t \in ToSet(r) \/ \E d \in 1 .. n : t \in ToSet(c[d])
    BY <2>11
  <2> QED BY <2>1, <2>6, <2>7, <2>9, <2>10, <2>12, <2>13, PendingStep
<1>17. CreateBooks'
  <2>1. ASSUME NEW t \in Timers, Listed(t)' PROVE Listed(t)
    <3>1. t \in ToSet(List) \/ t = x
      BY <1>8, <1>9, <1>12, <1>f, <2>1 DEF Listed
    <3> QED BY <1>x, <1>2, <1>4, <3>1 DEF Listed
  <2>2. ~(Level(2)'.do = "create")
    BY <1>12, <1>f
  <2>3. n \in Nat /\ n >= 1
    BY <1>10
  <2> QED BY <1>11, <2>1, <2>2, <2>3, CreateKept DEF PlainInv
<1>18. AlarmBooks'
  <2>1. 3 \in 1 .. Depth' /\ Level(3)'.do = "update"
    BY <1>12, <1>f
  <2> QED BY <2>1 DEF AlarmBooks
<1>19. PollBooks'
  BY <1>12, <1>f, PollNew
<1> QED BY <1>13, <1>14, <1>15, <1>16, <1>17, <1>18, <1>19, Zenon DEF PlainInv

\* A timer is taken out of the list.
LEMMA PlainUnlink == ASSUME IInv, PlainInv, Unlink PROVE PlainInv'
<1>x. PICK x : x = Top.t
  OBVIOUS
<1>y. PICK list : list = RemoveFirst(List, x)
  OBVIOUS
<1> DEFINE s == Frame("stopped", x, Top.time)
<1>0. /\ At("unlink") /\ GoOn(<<Update, s>>) /\ UNCHANGED <<timer, due, now, alarm>>
      /\ timerList' = HeadOf(list) /\ next' = Linked(next, list)
  BY <1>x, <1>y, Zenon DEF Unlink, clock
<1>1. /\ stack \in Seq(Frames) /\ stack # <<>>
      /\ Top.do = "unlink" /\ Top \in Frames /\ Level(Depth) = Top /\ Depth >= 2
      /\ Level(1).do \in {"calls", "iret"} /\ Depth \in Nat
      /\ \A d \in 1 .. Depth : Level(d) \in Frames
      /\ Placed(Depth, Top, Level(Depth - 1), Level(Depth - 2))
  BY <1>0, Here
<1>2. /\ x \in Timers /\ Top.time \in Nat /\ Top.time <= now /\ now \in Nat
      /\ timer \in Fields /\ next \in Links /\ List \in Seq(Timers)
  BY <1>x, <1>1, Types DEF Frames, OfATimer, Placed
<1>f. /\ s \in Frames /\ s.do = "stopped" /\ s.t = x /\ s.time = Top.time
      /\ Update \in Frames /\ Update.do = "update" /\ Update.time = 0
  BY <1>2, FrameTypes DEF Frame, Update, OfATimer
<1> HIDE DEF s
<1>3. PICK n \in Nat : n = Depth - 1
  BY <1>1
<1>g. PICK fs : fs = <<Update, s>>
  OBVIOUS
<1>4. /\ Grown(n, fs) /\ fs # <<>> /\ n + 1 = Depth /\ n >= 1
      /\ Depth' = n + 2 /\ Level(n + 1)' = s /\ Level(n + 2)' = Update
  <2>1. fs \in Seq(Frames) /\ fs # <<>>
    BY <1>f, <1>g, ShortSeqs
  <2>2. Grown(n, fs)
    BY <1>0, <1>1, <1>3, <1>g, <2>1, GoneOn
  <2>3. Grown(n, <<Update, s>>)
    BY <1>g, <2>2
  <2> QED BY <1>1, <1>3, <1>f, <2>1, <2>2, <2>3, ShortGrown
\* Within a callback the timer has fired and is in no list.
<1>5. Depth = 2 \/ Fired(x)
  <2> SUFFICES ASSUME Depth # 2 PROVE Fired(x)
    OBVIOUS
  <2>1. Level(Depth - 2).do = "called" /\ Level(Depth - 2).t = x
    BY <1>x, <1>1 DEF Placed
  <2>2. PICK d \in 1 .. Depth : d = Depth - 2
    BY <1>1
  <2>3. Placed(d, Level(d), Level(d - 1), Level(d - 2))
    BY <2>2 DEF PlainInv, Places
  <2> QED BY <2>1, <2>2, <2>3 DEF Placed
<1>6. /\ Distinct(List) /\ InOrder(List, timer)
      /\ \A t \in ToSet(List) : timer[t].running /\ ~Unlinked(t)
  BY DEF PlainInv, ListBooks, IsChain
<1>7. /\ list \in Seq(Timers) /\ Distinct(list) /\ ToSet(list) = ToSet(List) \ {x}
      /\ InOrder(list, timer)
  BY <1>2, <1>6, <1>y, RemoveFacts
<1>8. IsChain(list, timerList', next') /\ List' = list
  <2>1. IsChain(list, timerList', next')
    BY <1>0, <1>2, <1>7, LinkedFacts
  <2> QED BY <2>1, ListNext
<1>9. \A t \in Timers : t \notin ToSet(List) => next'[t] = next[t]
  BY <1>0, <1>2, <1>7, LinkedFacts
<1>10. \A t : Unlinked(t)' => t = x \/ Unlinked(t)
  <2>1. n = 1 \/ n >= 2
    BY <1>4
  <2>2. n = 1 => Level(2)' = s
    BY <1>4
  <2>3. n >= 2 => Level(2)' = Level(2) /\ Depth >= 2
    BY <1>4 DEF Grown
  <2> QED BY <1>f, <2>1, <2>2, <2>3 DEF Unlinked
<1>11. ListBooks'
  <2>1. \A t \in ToSet(list) : timer'[t].running /\ ~Unlinked(t)'
    BY <1>0, <1>6, <1>7, <1>10
  <2>2. InOrder(list, timer')
    BY <1>0, <1>7
  <2> QED BY <1>8, <2>1, <2>2, Zenon DEF ListBooks
<1>12. Expiries'
  <2>1. \A t \in Timers \ {None} : timer'[t] = timer[t] /\ due'[t] = due[t]
    BY <1>0
  <2>2. now' \in Nat /\ now <= now' /\ Expiries /\ None \notin Timers
    BY <1>0, <1>2, TimersAssumption DEF PlainInv
  <2> QED BY <1>2, <2>1, <2>2, ExpiriesStep
<1>13. ASSUME NEW d \in n + 1 .. Depth'
       PROVE  Placed(d, Level(d), Level(d - 1), Level(d - 2))'
  <2>1. CASE d = n + 1
    <3>1. Level(d)' = s /\ s.time <= now' /\ d # 1
      BY <1>0, <1>2, <1>4, <1>f, <2>1
    <3>2. ASSUME d # 2
          PROVE  d > 2 /\ Level(d - 2)'.do = "called" /\ Level(d - 2)'.t = x
      <4>1. d > 2 /\ d = Depth /\ d - 2 \in 1 .. n
        BY <1>4, <2>1, <3>2
      <4>2. Level(d - 2)' = Level(d - 2)
        BY <1>4, <4>1 DEF Grown
      <4>3. Level(d - 2).do = "called" /\ Level(d - 2).t = x
        BY <1>x, <1>1, <3>2, <4>1 DEF Placed
      <4> QED BY <4>1, <4>2, <4>3
    <3> QED BY <1>f, <3>1, <3>2, Zenon DEF Placed
  <2>2. CASE d = n + 2
    <3>1. Level(d)' = Update /\ Update.time <= now' /\ d # 1
      BY <1>0, <1>2, <1>4, <1>f, <2>2
    <3> QED BY <1>f, <3>1, Zenon DEF Placed
  <2> QED BY <1>4, <2>1, <2>2
<1>14. Places'
  <2>1. \A t \in Timers : Fired(t) => Fired(t)'
    BY <1>0 DEF Fired
  <2> QED BY <1>0, <1>1, <1>2, <1>4, <1>13, <2>1, PlacesStep DEF PlainInv
<1>15. \E e : Chains(e)'
  <2>1. PICK c : Chains(c)
    BY DEF PlainInv
  <2>2. /\ \A d \in 1 .. Depth : c[d] \in Seq(Timers) /\ IsChain(c[d], HeadAt(d), next)
        /\ \A d \in 1 .. Depth : \A t \in ToSet(c[d]) : Waiting(t) /\ t \in Timers
        /\ \A t \in Timers : timer[t].running =>
             t \in ToSet(List) \/ Unlinked(t) \/ \E d \in 1 .. Depth : t \in ToSet(c[d])
    BY <2>1, SeqFacts DEF Chains
  <2>3. \A d \in 1 .. n : d \in 1 .. Depth
    BY <1>4
  <2>4. ToSet(c[Depth]) = {}
    <3>1. Depth \in 1 .. Depth /\ HeadAt(Depth) = None
      BY <1>1 DEF HeadAt
    <3>2. c[Depth] = <<>>
      BY <2>2, <3>1, EmptyChain
    <3> QED BY <3>2 DEF ToSet
  <2>5. \A d \in 1 .. n : \A t \in ToSet(c[d]) : next'[t] = next[t] /\ Waiting(t)'
    <3> SUFFICES ASSUME NEW d \in 1 .. n, NEW t \in ToSet(c[d])
                 PROVE  next'[t] = next[t] /\ Waiting(t)'
      OBVIOUS
    <3>1. Waiting(t) /\ t \in Timers
      BY <2>2, <2>3
    <3> QED BY <1>0, <1>7, <1>8, <1>9, <3>1 DEF Waiting
  <2>6. \A d \in 1 .. n : Level(d).do = "called" => next'[Level(d).t] = next[Level(d).t]
    <3> SUFFICES ASSUME NEW d \in 1 .. n, Level(d).do = "called"
                 PROVE  next'[Level(d).t] = next[Level(d).t]
      OBVIOUS
    <3>1. Placed(d, Level(d), Level(d - 1), Level(d - 2)) /\ Level(d) \in Frames
      BY <1>1, <2>3 DEF PlainInv, Places
    <3>2. Level(d).t \in Timers /\ ~timer[Level(d).t].running
      BY <3>1 DEF Placed, Fired, Frames, OfATimer
    <3> QED BY <1>6, <1>9, <3>2
  <2>7. PICK r \in Seq(Timers) : r = <<>>
    <3>1. <<>> \in Seq(Timers)
      OBVIOUS
    <3> QED BY <3>1, Zenon
  <2>8. ToSet(r) = {}
    BY <2>7 DEF ToSet
  <2>9. /\ \A t \in ToSet(r) : Waiting(t)'
        /\ \A d \in 1 .. n : ToSet(r) \cap ToSet(c[d]) = {}
    BY <2>8
  <2>10. HeadAt(n + 1)' = None /\ HeadAt(n + 2)' = None
    BY <1>4, <1>f DEF HeadAt
  <2>11. \A d \in n + 2 .. Depth' : HeadAt(d)' = None
    <3> SUFFICES ASSUME NEW d \in n + 2 .. Depth' PROVE HeadAt(d)' = None
      OBVIOUS
    <3>1. Level(d)' = Update
      BY <1>4
    <3> QED BY <1>f, <3>1 DEF HeadAt
  <2>12. IF fs = <<>> THEN r = <<>> ELSE IsChain(r, HeadAt(n + 1)', next')
    BY <1>4, <2>7, <2>10, EmptyChain
  <2>13. ASSUME NEW t \in Timers, timer'[t].running
         PROVE  t \in ToSet(List') \/ Unlinked(t)' \/ \E d \in 1 .. n : t \in ToSet(c[d])
    <3>1. timer[t].running
      BY <1>0, <2>13
    <3>2. t \in ToSet(List) \/ Unlinked(t) \/ \E d \in 1 .. Depth : t \in ToSet(c[d])
      BY <2>2, <3>1
    <3>3. CASE t \in ToSet(List)
      <4>1. CASE t = x
        <5>1. Depth = 2
          BY <1>5, <3>1, <4>1 DEF Fired
        <5>2. Level(2)' = s /\ Depth' >= 2
          BY <1>4, <5>1
        <5>3. Unlinked(t)'
          BY <1>f, <4>1, <5>2 DEF Unlinked
        <5> QED BY <5>3
      <4>2. CASE t # x
        BY <1>7, <1>8, <3>3, <4>2
      <4> QED BY <4>1, <4>2
    <3>4. CASE Unlinked(t)
      <4>1. Depth # 2
        BY <1>1, <3>4 DEF Unlinked
      <4>2. n >= 2
        BY <1>1, <1>4, <4>1
      <4>3. Level(2)' = Level(2) /\ Depth' >= 2
        BY <1>4, <4>2 DEF Grown
      <4>4. Unlinked(t)'
        BY <3>4, <4>3 DEF Unlinked
      <4> QED BY <4>4
    <3>5. \A d \in 1 .. Depth : d = Depth \/ d \in 1 .. n
      BY <1>4
    <3> QED BY <2>4, <3>2, <3>3, <3>4, <3>5
  <2>14. \A t \in Timers : timer'[t].running =>
           \/ t \in ToSet(List') \/ Unlinked(t)'
           \/ t \in ToSet(r) \/ \E d \in 1 .. n : t \in ToSet(c[d])
    BY <2>13
  <2>15. n \in Nat /\ r \in Seq(Timers) /\ Grown(n, fs)
    BY <1>3, <1>4, <2>7
  <2> QED BY <2>1, <2>5, <2>6, <2>9, <2>11, <2>12, <2>14, <2>15, PendingStep
<1>16. ToSet(List') \subseteq ToSet(List) /\ (n = 1 => Depth = 2 /\ Level(2) = Top /\ Level(2)' = s)
  BY <1>1, <1>4, <1>7, <1>8
<1>17. CreateBooks'
  <2>1. ASSUME NEW t \in Timers, Listed(t)' PROVE Listed(t)
    <3>1. CASE n = 1
      <4>1. t \in ToSet(List) /\ t # x
        BY <1>7, <1>8, <1>16, <1>f, <2>1, <3>1 DEF Listed
      <4> QED BY <1>x, <1>1, <1>16, <3>1, <4>1 DEF Listed
    <3>2. CASE n >= 2
      BY <1>4, <1>16, <2>1, <3>2, ListedKept
    <3> QED BY <1>4, <3>1, <3>2
  <2>2. Depth' >= 2 /\ Level(2)'.do = "create" => n >= 2 /\ ToSet(List') \subseteq ToSet(List)
    BY <1>4, <1>f, <1>16
  <2> QED BY <1>4, <2>1, <2>2, CreateKept DEF PlainInv
<1>18. AlarmBooks'
  <2>1. n + 2 \in 1 .. Depth' /\ Level(n + 2)'.do = "update"
    BY <1>4, <1>f
  <2> QED BY <2>1 DEF AlarmBooks
<1>19. PollBooks'
  <2>1. CASE n = 1
    BY <1>f, <1>16, <2>1, PollNew
  <2>2. CASE n >= 2
    <3>1. n = 2 /\ Depth = 3 => Level(3).do # "update"
      BY <1>1
    <3>2. \A t \in ToSet(List') : timer'[t].expiry = timer[t].expiry
      BY <1>0
    <3>3. Depth <= n + 1
      BY <1>4
    <3> QED BY <1>4, <1>16, <2>2, <3>1, <3>2, <3>3, PollKept DEF PlainInv
  <2> QED BY <1>4, <2>1, <2>2
<1> QED BY <1>11, <1>12, <1>14, <1>15, <1>17, <1>18, <1>19, Zenon DEF PlainInv

-----------------------------------------------------------------------------
(* All steps.                                                               *)

\* Functions that return.
LEMMA PlainReturns ==
  ASSUME IInv, PlainInv, UpdateLocked \/ EndOfChain \/ Polled \/ ReturnFromInterrupt
  PROVE  PlainInv'
<1>1. CASE UpdateLocked
  <2>1. At("update") /\ timerLock /\ GoOn(<<>>) /\ Rest /\ UNCHANGED <<now, alarm>>
    BY <1>1 DEF UpdateLocked, Rest, clock
  <2>2. HeadAt(Depth) = None
    BY <2>1, Here DEF HeadAt
  <2> QED BY <2>1, <2>2, QuietReturn
<1>2. CASE EndOfChain
  <2>1. At("trigger") /\ Top.t = None /\ GoOn(<<>>) /\ Rest /\ UNCHANGED <<now, alarm>>
    BY <1>2 DEF EndOfChain, Rest, clock
  <2>2. HeadAt(Depth) = None
    BY <2>1, Here DEF HeadAt
  <2> QED BY <2>1, <2>2, QuietReturn
<1>3. CASE Polled
  <2>1. At("polled") /\ GoOn(<<>>) /\ Rest /\ UNCHANGED <<now, alarm>>
    BY <1>3 DEF Polled, Rest, clock
  <2>2. HeadAt(Depth) = None
    BY <2>1, Here DEF HeadAt
  <2> QED BY <2>1, <2>2, QuietReturn
<1>4. CASE ReturnFromInterrupt
  <2>1. At("iret") /\ GoOn(<<>>) /\ Rest /\ UNCHANGED <<now, alarm>>
    BY <1>4 DEF ReturnFromInterrupt, Rest, clock
  <2>2. HeadAt(Depth) = None
    BY <2>1, Here DEF HeadAt
  <2> QED BY <2>1, <2>2, QuietReturn
<1> QED BY <1>1, <1>2, <1>3, <1>4

\* The lock is free when it is taken.
LEMMA PlainLock ==
  ASSUME IInv, PlainInv, timer_start \/ timer_stop
  PROVE  PlainInv'
<1>1. CASE timer_start
  <2> DEFINE f == Frame("insert", Top.t, 0)
  <2>1. At("start") /\ Lock(f)
    BY <1>1 DEF timer_start
  <2>2. ~timerLock
    BY <2>1, Here, NoneBelow DEF Locking, Top
  <2>3. GoOn(<<f>>) /\ Rest /\ UNCHANGED <<now, alarm>>
    BY <2>1, <2>2 DEF Lock, Rest, clock
  <2> QED BY <2>1, <2>3, QuietOne
<1>2. CASE timer_stop
  <2> DEFINE f == Frame("unlink", Top.t, Top.time)
  <2>1. At("stop") /\ Lock(f)
    BY <1>2 DEF timer_stop
  <2>2. ~timerLock
    BY <2>1, Here, NoneBelow DEF Locking, Top
  <2>3. GoOn(<<f>>) /\ Rest /\ UNCHANGED <<now, alarm>>
    BY <2>1, <2>2 DEF Lock, Rest, clock
  <2> QED BY <2>1, <2>3, QuietOne
<1> QED BY <1>1, <1>2

LEMMA PlainKept ==
  ASSUME Wrap = 0, OwnCallbacks, TidyHandlers, IInv, PlainInv, [Next]_vars
  PROVE  PlainInv'
<1>1. CASE NextInChain
  <2>1. At("called") /\ GoOn(<<Trigger(next[Top.t])>>) /\ Rest /\ UNCHANGED <<now, alarm>>
    BY <1>1 DEF NextInChain, Rest, clock
  <2> QED BY <2>1, QuietOne
<1>2. CASE InsertIgnored
  <2>1. At("insert") /\ GoOn(<<Update>>) /\ Rest /\ UNCHANGED <<now, alarm>>
    BY <1>2 DEF InsertIgnored, Rest, clock
  <2> QED BY <2>1, QuietOne
<1>3. CASE Tick \/ UNCHANGED vars
  <2>1. Rest /\ UNCHANGED <<stack, alarm>> /\ (now' = now \/ now' = now + 1)
    BY <1>3 DEF Tick, Rest, vars, clock
  <2> QED BY <2>1, PlainTime
<1>4. CASE \E ops \in Handlers : Handle(ops)
  BY <1>4, PlainHandle
<1>5. ~WildRead
  BY DEF WildRead, Overrun, Overflow
<1> QED BY <1>1, <1>2, <1>3, <1>4, <1>5, PlainReturns, PlainLock, PlainUpdate, PlainTrigger,
           PlainInsert, PlainUnlink, PlainStopped, PlainCreate, PlainCall, PlainInterrupt
        DEF Next, Step

\* The list is empty at first.
LEMMA PlainInit == ASSUME Init PROVE PlainInv /\ List = <<>>
<1>1. PICK e \in Seq(Timers) : e = <<>>
  <2>1. <<>> \in Seq(Timers)
    OBVIOUS
  <2> QED BY <2>1, Zenon
<1>2. IsChain(e, timerList, next)
  BY <1>1, EmptyChain DEF Init
<1>3. List = e /\ ToSet(List) = {} /\ Len(List) = 0
  <2>1. List = e
    BY <1>2, ListIs
  <2> QED BY <1>1, <2>1, SeqFacts DEF ToSet
<1>4. Depth = 0
  BY DEF Init, Depth
<1>5. \A t \in Timers : /\ ~timer[t].running /\ ~timer[t].hasExpired /\ due[t] = 0
                        /\ timer[t].expiry \in Nat \ {0}
  BY IntervalAssumption DEF Init, Fresh
<1>6. Places /\ Expiries
  <2>1. \A d \in 1 .. 0 : FALSE
    OBVIOUS
  <2>2. Places
    BY <1>4, <2>1 DEF Places
  <2>3. \A t \in Timers : timer[t].expiry + now >= 1
    BY <1>5 DEF Init
  <2> QED BY <1>5, <2>2, <2>3 DEF Expiries, ExpiryOf
<1>7. ListBooks
  <2>1. InOrder(List, timer)
    BY <1>3 DEF InOrder
  <2> QED BY <1>2, <1>3, <2>1 DEF ListBooks
<1>8. \E c : Chains(c)
  <2> DEFINE c == [d \in 1 .. 0 |-> e]
  <2>1. c \in [1 .. Depth -> Seq(Timers)] /\ \A d \in 1 .. Depth : FALSE
    BY <1>4
  <2> HIDE DEF c
  <2>2. Chains(c)
    BY <1>5, <2>1 DEF Chains
  <2> QED BY <2>2
<1>9. CreateBooks /\ AlarmBooks /\ PollBooks
  <2>1. ~(Depth >= 1) /\ ~(Depth >= 2)
    BY <1>4
  <2>2. Covered
    BY <1>3 DEF Covered
  <2> QED BY <2>1, <2>2 DEF CreateBooks, AlarmBooks, PollBooks
<1> QED BY <1>1, <1>3, <1>6, <1>7, <1>8, <1>9 DEF PlainInv

-----------------------------------------------------------------------------
(* What the invariant gives.                                                *)

\* Nothing waits in a chain when the program is idle.
LEMMA OrderHolds == ASSUME IInv, PlainInv PROVE ListInOrder
<1> SUFFICES ASSUME stack = <<>>
             PROVE  /\ ToSet(List) = {t \in Timers : timer[t].running}
                    /\ Len(List) = Cardinality(ToSet(List))
                    /\ timerList # None => next[List[Len(List)]] = None
                    /\ \A k \in 1 .. Len(List) - 1 : due[List[k]] <= due[List[k + 1]]
                    /\ \A t \in ToSet(List) :
                         due[t] - timer[t].expiry = due[timerList] - timer[timerList].expiry
  BY DEF ListInOrder
<1>1. /\ IsChain(List, timerList, next) /\ InOrder(List, timer) /\ List \in Seq(Timers)
      /\ timer \in Fields
  BY Types DEF PlainInv, ListBooks
<1>2. /\ Len(List) \in Nat /\ ToSet(List) \subseteq Timers
      /\ \A k \in 1 .. Len(List) : List[k] \in ToSet(List)
      /\ \A t \in ToSet(List) : Len(List) # 0
      /\ timerList = IF Len(List) = 0 THEN None ELSE List[1]
  BY <1>1, SeqFacts DEF IsChain
<1>3. \A t \in ToSet(List) :
        timer[t].running /\ due[t] = timer[t].expiry /\ timer[t].expiry \in Int
  <2>1. \A t \in ToSet(List) : timer[t].running /\ ExpiryOf(t)
    BY <1>2 DEF PlainInv, ListBooks, Expiries
  <2> QED BY <1>1, <1>2, <2>1 DEF ExpiryOf, Fields
<1>4. \A t \in Timers : timer[t].running => t \in ToSet(List)
  <2>1. Depth = 0
    BY DEF Depth
  <2>2. PICK c : Chains(c)
    BY DEF PlainInv
  <2>3. ~(Depth >= 2) /\ \A d \in 1 .. Depth : FALSE
    BY <2>1
  <2> QED BY <2>2, <2>3 DEF Chains, Unlinked
<1>5. Len(List) = Cardinality(ToSet(List))
  BY <1>1, ChainLength
<1>6. timerList # None => next[List[Len(List)]] = None
  BY <1>1, <1>2 DEF IsChain
<1>7. \A k \in 1 .. Len(List) - 1 : due[List[k]] <= due[List[k + 1]]
  <2> SUFFICES ASSUME NEW k \in 1 .. Len(List) - 1 PROVE due[List[k]] <= due[List[k + 1]]
    OBVIOUS
  <2>1. k \in 1 .. Len(List) /\ k + 1 \in 1 .. Len(List) /\ k < k + 1
    BY <1>2
  <2>2. timer[List[k]].expiry <= timer[List[k + 1]].expiry
    BY <1>1, <2>1 DEF InOrder
  <2> QED BY <1>2, <1>3, <2>1, <2>2
<1>8. \A t \in ToSet(List) :
        due[t] - timer[t].expiry = due[timerList] - timer[timerList].expiry
  <2>1. \A t \in ToSet(List) : due[t] - timer[t].expiry = 0
    BY <1>3
  <2>2. \A t \in ToSet(List) : timerList \in ToSet(List)
    BY <1>2
  <2> QED BY <2>1, <2>2
<1> QED BY <1>2, <1>3, <1>4, <1>5, <1>6, <1>7, <1>8

\* No timer_update is to come when the program is idle.
LEMMA CoverHolds == ASSUME IInv, PlainInv PROVE AlarmCoversList
<1> SUFFICES ASSUME stack = <<>>, NEW t \in ToSet(List)
             PROVE  alarm # 0 /\ alarm <= due[t] + MinAlarm - 1
  BY DEF AlarmCoversList
<1>1. \A d \in 1 .. Depth : FALSE
  BY DEF Depth
<1>2. Covered
  BY <1>1 DEF PlainInv, AlarmBooks
<1>3. t \in Timers
  BY Types, SeqFacts
<1>4. due[t] = timer[t].expiry
  BY <1>3 DEF PlainInv, ListBooks, Expiries, ExpiryOf
<1> QED BY <1>2, <1>4 DEF Covered

\* What a handler asks about is in the list, or has fired.
LEMMA PollHolds == ASSUME IInv, PlainInv PROVE PollTruthful
<1> SUFFICES ASSUME At("polled"), due[Top.t] # 0 PROVE Top.time < due[Top.t]
  BY DEF PollTruthful
<1>x. PICK x : x = Top.t
  OBVIOUS
<1>1. /\ Top.do = "polled" /\ Top \in Frames /\ Level(Depth) = Top /\ Depth >= 2
      /\ Level(1).do \in {"calls", "iret"} /\ Depth \in Nat
      /\ Placed(Depth, Top, Level(Depth - 1), Level(Depth - 2))
  BY Here
<1>2. x \in Timers /\ Top.time \in Nat /\ due[x] # 0
  BY <1>x, <1>1 DEF Frames, OfATimer
<1>3. timer[x].running /\ due[x] = timer[x].expiry /\ timer[x].expiry \in Int
  <2>1. timer \in Fields /\ ExpiryOf(x)
    BY <1>2, Types DEF PlainInv, Expiries
  <2> QED BY <1>2, <2>1 DEF ExpiryOf, Fields
\* It is the handler that asks: the timer of a callback has fired.
<1>4. Depth = 2
  <2> SUFFICES ASSUME Depth # 2 PROVE FALSE
    OBVIOUS
  <2>1. Level(Depth - 2).do = "called" /\ Level(Depth - 2).t = x
    BY <1>x, <1>1 DEF Placed
  <2>2. PICK d \in 1 .. Depth : d = Depth - 2
    BY <1>1
  <2>3. Placed(d, Level(d), Level(d - 1), Level(d - 2))
    BY <2>2 DEF PlainInv, Places
  <2> QED BY <1>3, <2>1, <2>2, <2>3 DEF Placed, Fired
<1>5. x \in ToSet(List)
  <2>1. PICK c : Chains(c)
    BY DEF PlainInv
  <2>2. ASSUME NEW d \in 1 .. Depth PROVE ToSet(c[d]) = {}
    <3>1. d = 1 \/ d = Depth
      BY <1>4
    <3>2. HeadAt(d) = None
      BY <1>1, <3>1 DEF HeadAt
    <3>3. c[d] = <<>>
      BY <2>1, <3>2, EmptyChain DEF Chains
    <3> QED BY <3>3 DEF ToSet
  <2>3. ~Unlinked(x)
    BY <1>1, <1>4 DEF Unlinked
  <2> QED BY <1>2, <1>3, <2>1, <2>2, <2>3 DEF Chains
<1>6. timer[x].expiry > Top.time
  <2>1. Depth >= 2 /\ Level(2) = Top
    BY <1>1, <1>4
  <2> QED BY <1>1, <1>4, <1>5, <2>1 DEF PlainInv, PollBooks
<1>7. Top.time < due[x]
  BY <1>2, <1>3, <1>6
<1> QED BY <1>x, <1>7

\* Only timer_trigger marks a timer, and what it marks has waited to be.
LEMMA FiresHolds ==
  ASSUME Wrap = 0, IInv, PlainInv, [Next]_vars,
         NEW u \in Timers, timer'[u].hasExpired, ~timer[u].hasExpired
  PROVE  due[u] # 0 /\ due[u] <= now
<1>1. timer \in Fields /\ now \in Nat
  BY Types
<1>x. PICK x : x = Top.t
  OBVIOUS
<1>2. ~timer_update
  BY UpdateData
<1>3. ~Insert
  <2> SUFFICES ASSUME Insert PROVE FALSE
    OBVIOUS
  <2>1. timer' = [timer EXCEPT ![x].expiry = timer[x].expiry + now, ![x].running = TRUE]
    BY <1>x, InsertData
  <2> QED BY <1>1, <2>1 DEF Fields
<1>4. ~Stopped
  <2> SUFFICES ASSUME Stopped PROVE FALSE
    OBVIOUS
  <2> DEFINE ticks == IF Wrap = 0 THEN Top.time ELSE Top.time % Wrap
  <2>1. timer' = IF timer[x].running
                 THEN [timer EXCEPT ![x].running = FALSE, ![x].expiry = @ - ticks]
                 ELSE timer
    BY <1>x, Zenon DEF Stopped
  <2> HIDE DEF ticks
  <2> QED BY <1>1, <2>1 DEF Fields
<1>5. ~Create
  <2> SUFFICES ASSUME Create PROVE FALSE
    OBVIOUS
  <2>1. timer' = [timer EXCEPT ![x] = Fresh(x)]
    BY <1>x DEF Create
  <2> QED BY <1>1, <2>1 DEF Fields, Fresh
<1>6. timer_trigger
  <2>1. timer' # timer
    OBVIOUS
  <2> QED BY <1>2, <1>3, <1>4, <1>5, <2>1
      DEF Next, Step, UpdateLocked, NextInChain, EndOfChain, timer_start, timer_stop, Lock,
          InsertIgnored, Unlink, Polled, Call, ReturnFromInterrupt, WildRead, tick_handler,
          Tick, Handle, vars
<1>7. /\ At("trigger") /\ x # None
      /\ timer' = [timer EXCEPT ![x].running = FALSE, ![x].hasExpired = TRUE]
  BY <1>x, <1>6 DEF timer_trigger
<1>8. u = x
  BY <1>1, <1>7 DEF Fields
<1>9. Waiting(x)
  <2>1. PICK c : Chains(c)
    BY DEF PlainInv
  <2>2. Depth \in 1 .. Depth /\ HeadAt(Depth) = x
    BY <1>x, <1>7, Here DEF HeadAt
  <2>3. IsChain(c[Depth], x, next) /\ \A t \in ToSet(c[Depth]) : Waiting(t)
    BY <2>1, <2>2 DEF Chains
  <2>4. x \in ToSet(c[Depth])
    BY <1>8, <2>3, ChainTail
  <2> QED BY <2>3, <2>4
<1>10. due[u] = timer[u].expiry /\ due[u] >= 1 /\ timer[u].expiry <= now
  BY <1>8, <1>9 DEF Waiting, PlainInv, Expiries, ExpiryOf
<1>11. due[u] # 0
  <2>1. timer[u].expiry \in Int
    BY <1>1 DEF Fields
  <2> QED BY <1>10, <2>1
<1> QED BY <1>10, <1>11

-----------------------------------------------------------------------------
(* The theorems about plain programs.                                       *)

\* The inductive invariant of plain programs.
THEOREM PlainInvariance ==
  ASSUME Wrap = 0, OwnCallbacks, TidyHandlers
  PROVE  Spec => []PlainInv
<1>1. Init => PlainInv
  BY PlainInit
<1>2. IInv /\ PlainInv /\ [Next]_vars => PlainInv'
  BY PlainKept
<1> QED BY <1>1, <1>2, Invariance, PTL DEF Spec

\* While the ticks do not wrap, and if callbacks stay with their own timer and
\* handlers stop what they create anew: when the program is idle the list that
\* timer_start and timer_stop leave is that of the running timers, in order.
THEOREM ListsAreOrdered ==
  ASSUME Wrap = 0, OwnCallbacks, TidyHandlers
  PROVE  Spec => []ListInOrder
<1>1. IInv /\ PlainInv => ListInOrder
  BY OrderHolds
<1> QED BY <1>1, Invariance, PlainInvariance, PTL

\* Under the same assumptions timer_update forgets no timer: when the program is
\* idle the alarm is armed for each that runs, even if a tick met a held lock.
THEOREM AlarmCovers ==
  ASSUME Wrap = 0, OwnCallbacks, TidyHandlers
  PROVE  Spec => []AlarmCoversList
<1>1. IInv /\ PlainInv => AlarmCoversList
  BY CoverHolds
<1> QED BY <1>1, Invariance, PlainInvariance, PTL

\* Under the same assumptions timer_has_expired does not miss an expiry: a timer
\* that was due when the question was asked has fired when it is answered.
THEOREM PollsAreTruthful ==
  ASSUME Wrap = 0, OwnCallbacks, TidyHandlers
  PROVE  Spec => []PollTruthful
<1>1. IInv /\ PlainInv => PollTruthful
  BY PollHolds
<1> QED BY <1>1, Invariance, PlainInvariance, PTL

\* Under the same assumptions timer_trigger fires a timer once for each start,
\* never before it is due and never once timer_stop has returned.  The program
\* with the LED timer (baseband_bootloader/main.c:8-17) does not meet them, and
\* there it fails.
THEOREM TimersFireWhenDue ==
  ASSUME Wrap = 0, OwnCallbacks, TidyHandlers
  PROVE  Spec => FiresWhenDue
<1> DEFINE Fires == \A t \in Timers :
              timer'[t].hasExpired /\ ~timer[t].hasExpired => due[t] # 0 /\ due[t] <= now
<1>1. IInv /\ PlainInv /\ [Next]_vars => [Fires]_vars
  BY FiresHolds
<1> QED BY <1>1, Invariance, PlainInvariance, PTL DEF Spec, FiresWhenDue
=============================================================================
