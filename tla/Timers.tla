------------------------------- MODULE Timers -------------------------------
(***************************************************************************)
(* system/time.c: software timers in a list sorted by expiry, served by    *)
(* one alarm of the hardware (arch/csr/timer.c, arch/avr/timer.c).         *)
(*                                                                         *)
(* The program is the set of call sequences its event handlers make; the   *)
(* C stack is explicit, because timer callbacks call the timer functions   *)
(* again while timer_trigger walks a chain, and because on the AVR the     *)
(* tick interrupt runs between any two steps of the main program.          *)
(*                                                                         *)
(* Time is in ticks.  system_ticks() wraps on the CSR (TICKS_BITS 21); on  *)
(* the AVR it does not within the 50 days that 32 bits last.               *)
(***************************************************************************)
EXTENDS Integers, SequencesExt

CONSTANTS
  Timers, None,
  Interval,    \* the interval each timer is created with
  Callback,    \* the calls each timer's callback makes: sequences of [op, t]
  Handlers,    \* the sequences of calls that the event handlers make
  Wrap,        \* 2^TICKS_BITS, or 0 if the ticks do not wrap
  MinAlarm,    \* the shortest alarm that timer_set_alarm sets
  Interrupts,  \* TRUE: the tick handler interrupts the program (AVR);
               \* FALSE: it runs when the program has returned (CSR)
  MaxLate,     \* bound: ticks that pass while the program is busy
  MaxTime      \* bound on the time

ASSUME TimersAssumption == None \notin Timers /\ IsFiniteSet(Timers)
ASSUME IntervalAssumption == Interval \in [Timers -> Nat \ {0}]
ASSUME AlarmAssumption ==
  /\ Wrap \in Nat /\ Wrap # 1
  /\ MinAlarm \in Nat \ {0}
  /\ Interrupts \in BOOLEAN
  /\ MaxLate \in Nat /\ MaxTime \in Nat

\* The calls of the timer functions.
Op == [op: {"create", "start", "stop", "poll"}, t: Timers]

ASSUME CallsAssumption == Callback \in [Timers -> Seq(Op)] /\ Handlers \subseteq Seq(Op)

VARIABLES
  timer,      \* the fields of each timer_t: [expiry, running, hasExpired]
  next,       \* ... and its link
  timerList,  \* the first running timer or None
  timerLock,
  oldTicks,   \* the static variable of timer_check_overflow
  alarm,      \* the time at which the tick handler is due, 0: not armed
  stack,      \* the frames of the C stack, the innermost first
  now,        \* the real time
  late,       \* ticks that have passed since the program was last seen idle
  due         \* history: when each started timer is due, or 0

clock == <<alarm, now, late>>
vars == <<timer, next, timerList, timerLock, oldTicks, stack, due, clock>>

system_ticks == IF Wrap = 0 THEN now ELSE now % Wrap

-----------------------------------------------------------------------------
(* Linked lists.                                                           *)

\* The list: the nodes that are reached from timerList on.
List ==
  LET node[n \in 1 .. Cardinality(Timers)] ==
        IF n = 1 THEN timerList
        ELSE IF node[n - 1] = None THEN None ELSE next[node[n - 1]]
  IN SubSeq(node, 1, Cardinality({n \in DOMAIN node : node[n] # None}))

HeadOf(s) == IF s = <<>> THEN None ELSE Head(s)

\* The links with those of the members of s set to form this list.
Linked(links, s) ==
  [t \in Timers |-> IF Contains(s, t)
                    THEN HeadOf(SubSeq(s, SelectInSeq(s, LAMBDA u : u = t) + 1, Len(s)))
                    ELSE links[t]]

\* The members of s before the first that fails the test, and the others.
Before(s, Test(_)) ==
  SubSeq(s, 1, Min({k \in DOMAIN s : ~Test(s[k])} \cup {Len(s) + 1}) - 1)

From(s, Test(_)) == SubSeq(s, Len(Before(s, Test)) + 1, Len(s))

-----------------------------------------------------------------------------
(* The C stack.  A frame is a point in a function: what it does next, for  *)
(* which timer, and the time it remembers; or calls yet to be made.        *)

Frame(do, t, time) == [do |-> do, t |-> t, time |-> time, calls |-> <<>>]

Calls(ops) == [do |-> "calls", t |-> None, time |-> 0, calls |-> ops]

At(do) == stack # <<>> /\ Head(stack).do = do

Top == Head(stack)

\* The innermost function goes on with these frames; with <<>> it returns.
GoOn(frames) == stack' = frames \o Tail(stack)

Update == Frame("update", None, 0)

Trigger(t) == Frame("trigger", t, 0)

-----------------------------------------------------------------------------
(* timer_check_overflow.                                                   *)

Overflow == Wrap # 0 /\ system_ticks < oldTicks

\* Slip: a timer due exactly at the overflow is taken to be missed.
InOldEpoch_Inclusive(t) == timer[t].expiry <= Wrap

InOldEpoch(t) == timer[t].expiry < Wrap

\* The loop runs over the end of the list and reads through NULL.
Overrun == Overflow /\ From(List, InOldEpoch) = <<>>

\* Slip: what is left in the list keeps the expiry of the old epoch.
timer_check_overflow_NotShifted ==
  IF Overflow
  THEN [missed |-> Before(List, InOldEpoch),
        rest |-> From(List, InOldEpoch),
        timer |-> timer]
  ELSE [missed |-> <<>>, rest |-> List, timer |-> timer]

\* The timers missed, the rest of the list, and the timers in the new epoch.
timer_check_overflow ==
  IF Overflow
  THEN [missed |-> Before(List, InOldEpoch),
        rest |-> From(List, InOldEpoch),
        timer |-> [t \in Timers |->
                     IF Contains(From(List, InOldEpoch), t)
                     THEN [timer[t] EXCEPT !.expiry = @ - Wrap]
                     ELSE timer[t]]]
  ELSE [missed |-> <<>>, rest |-> List, timer |-> timer]

\* What the processor makes of a timer at address 0 is anyone's guess.
WildRead ==
  /\ Overrun
  /\ \/ At("update") /\ ~timerLock
     \/ At("insert") /\ ~timer[Top.t].running /\ ~timer[Top.t].hasExpired
  /\ stack' = <<Frame("wild", None, 0)>>
  /\ UNCHANGED <<timer, next, timerList, timerLock, oldTicks, due, clock>>

-----------------------------------------------------------------------------
(* timer_update and timer_trigger.                                         *)

\* timer_update when the lock is held: nothing.
UpdateLocked ==
  /\ At("update") /\ timerLock
  /\ GoOn(<<>>)
  /\ UNCHANGED <<timer, next, timerList, timerLock, oldTicks, due, clock>>

\* Slip: a timer that is due at this very tick is left in the list.
timer_update_Late ==
  /\ At("update") /\ ~timerLock /\ ~Overrun
  /\ LET o == timer_check_overflow
         Expired(t) == o.timer[t].expiry < system_ticks
         chain == Reverse(o.missed \o Before(o.rest, Expired))
         left == From(o.rest, Expired)
         wait == o.timer[Head(left)].expiry - system_ticks
     IN /\ timer' = o.timer
        /\ next' = Linked(next, chain)
        /\ timerList' = HeadOf(left)
        /\ alarm' = IF left = <<>> THEN alarm
                    ELSE now + Max({MinAlarm, IF Wrap = 0 THEN wait
                                              ELSE Min({wait, Wrap - 1})})
        /\ GoOn(<<Trigger(HeadOf(chain))>>)
  /\ oldTicks' = system_ticks
  /\ UNCHANGED <<timerLock, due, now, late>>

\* The atomic block of timer_update: expired timers leave the list for a
\* chain, the last of them first, and the alarm is set for the next one.
timer_update ==
  /\ At("update") /\ ~timerLock /\ ~Overrun
  /\ LET o == timer_check_overflow
         Expired(t) == o.timer[t].expiry <= system_ticks
         chain == Reverse(o.missed \o Before(o.rest, Expired))
         left == From(o.rest, Expired)
         wait == o.timer[Head(left)].expiry - system_ticks
     IN /\ timer' = o.timer
        /\ next' = Linked(next, chain)
        /\ timerList' = HeadOf(left)
        /\ alarm' = IF left = <<>> THEN alarm
                    ELSE now + Max({MinAlarm, IF Wrap = 0 THEN wait
                                              ELSE Min({wait, Wrap - 1})})
        /\ GoOn(<<Trigger(HeadOf(chain))>>)
  /\ oldTicks' = system_ticks
  /\ UNCHANGED <<timerLock, due, now, late>>

\* A round of timer_trigger: a timer is marked and its callback called ...
timer_trigger ==
  /\ At("trigger") /\ Top.t # None
  /\ timer' = [timer EXCEPT ![Top.t].running = FALSE, ![Top.t].hasExpired = TRUE]
  /\ due' = [due EXCEPT ![Top.t] = 0]
  /\ GoOn(<<Calls(Callback[Top.t]), Frame("called", Top.t, 0)>>)
  /\ UNCHANGED <<next, timerList, timerLock, oldTicks, clock>>

\* ... and when it has returned, the link that the timer has by then counts.
NextInChain ==
  /\ At("called")
  /\ GoOn(<<Trigger(next[Top.t])>>)
  /\ UNCHANGED <<timer, next, timerList, timerLock, oldTicks, due, clock>>

EndOfChain ==
  /\ At("trigger") /\ Top.t = None
  /\ GoOn(<<>>)
  /\ UNCHANGED <<timer, next, timerList, timerLock, oldTicks, due, clock>>

-----------------------------------------------------------------------------
(* timer_start.                                                            *)

\* The lock is taken, or the program ends in a bug check.
Lock(frame) ==
  /\ timerLock' = TRUE
  /\ IF timerLock THEN stack' = <<Frame("bugcheck", None, 0)>> ELSE GoOn(<<frame>>)
  /\ UNCHANGED <<timer, next, timerList, oldTicks, due, clock>>

timer_start == At("start") /\ Lock(Frame("insert", Top.t, 0))

\* Slip: timer_update is not called, so no alarm is set.
Insert_NoUpdate ==
  /\ At("insert") /\ ~timer[Top.t].running /\ ~timer[Top.t].hasExpired
  /\ ~Overrun
  /\ LET o == timer_check_overflow
         deadline == o.timer[Top.t].expiry + system_ticks
         Earlier(u) == o.timer[u].expiry <= deadline
         missed == Reverse(o.missed)
         list == Before(o.rest, Earlier) \o <<Top.t>> \o From(o.rest, Earlier)
     IN /\ timer' = [o.timer EXCEPT ![Top.t].expiry = deadline,
                                    ![Top.t].running = TRUE]
        /\ next' = Linked(Linked(next, missed), list)
        /\ timerList' = Head(list)
        /\ due' = [due EXCEPT ![Top.t] = now + timer[Top.t].expiry]
        /\ GoOn(<<Trigger(HeadOf(missed))>>)
  /\ oldTicks' = system_ticks
  /\ timerLock' = FALSE
  /\ UNCHANGED clock

\* Unless it is running or has expired, the timer is inserted behind all
\* that are due no later.  The lock is released.
Insert ==
  /\ At("insert") /\ ~timer[Top.t].running /\ ~timer[Top.t].hasExpired
  /\ ~Overrun
  /\ LET o == timer_check_overflow
         deadline == o.timer[Top.t].expiry + system_ticks
         Earlier(u) == o.timer[u].expiry <= deadline
         missed == Reverse(o.missed)
         list == Before(o.rest, Earlier) \o <<Top.t>> \o From(o.rest, Earlier)
     IN /\ timer' = [o.timer EXCEPT ![Top.t].expiry = deadline,
                                    ![Top.t].running = TRUE]
        /\ next' = Linked(Linked(next, missed), list)
        /\ timerList' = Head(list)
        /\ due' = [due EXCEPT ![Top.t] = now + timer[Top.t].expiry]
        /\ GoOn(<<Update, Trigger(HeadOf(missed))>>)
  /\ oldTicks' = system_ticks
  /\ timerLock' = FALSE
  /\ UNCHANGED clock

InsertIgnored ==
  /\ At("insert") /\ (timer[Top.t].running \/ timer[Top.t].hasExpired)
  /\ timerLock' = FALSE
  /\ GoOn(<<Update>>)
  /\ UNCHANGED <<timer, next, timerList, oldTicks, due, clock>>

-----------------------------------------------------------------------------
(* timer_stop and timer_has_expired.                                       *)

\* The ticks have been read before the lock is taken.
timer_stop == At("stop") /\ Lock(Frame("unlink", Top.t, Top.time))

\* Slip: the link that pointed to the timer is left alone.
Unlink_Kept ==
  /\ At("unlink")
  /\ timerLock' = FALSE
  /\ GoOn(<<Update, Frame("stopped", Top.t, Top.time)>>)
  /\ UNCHANGED <<timer, next, timerList, oldTicks, due, clock>>

\* Slip: the lock is not released.
Unlink_Locked ==
  /\ At("unlink")
  /\ LET list == RemoveFirst(List, Top.t) IN
     /\ timerList' = HeadOf(list)
     /\ next' = Linked(next, list)
  /\ timerLock' = timerLock
  /\ GoOn(<<Update, Frame("stopped", Top.t, Top.time)>>)
  /\ UNCHANGED <<timer, oldTicks, due, clock>>

Unlink ==
  /\ At("unlink")
  /\ LET list == RemoveFirst(List, Top.t) IN
     /\ timerList' = HeadOf(list)
     /\ next' = Linked(next, list)
  /\ timerLock' = FALSE
  /\ GoOn(<<Update, Frame("stopped", Top.t, Top.time)>>)
  /\ UNCHANGED <<timer, oldTicks, due, clock>>

\* Slip: the remainder is counted from the time at which the stop ends.
Stopped_Late ==
  /\ At("stopped")
  /\ LET t == Top.t
         ticks == system_ticks
     IN timer' = IF timer[t].running
                 THEN [timer EXCEPT ![t].running = FALSE, ![t].expiry = @ - ticks]
                 ELSE timer
  /\ due' = [due EXCEPT ![Top.t] = 0]
  /\ GoOn(<<>>)
  /\ UNCHANGED <<next, timerList, timerLock, oldTicks, clock>>

\* The expiry of a paused timer becomes the time that remained.
Stopped ==
  /\ At("stopped")
  /\ LET t == Top.t
         ticks == IF Wrap = 0 THEN Top.time ELSE Top.time % Wrap
     IN timer' = IF timer[t].running
                 THEN [timer EXCEPT ![t].running = FALSE, ![t].expiry = @ - ticks]
                 ELSE timer
  /\ due' = [due EXCEPT ![Top.t] = 0]
  /\ GoOn(<<>>)
  /\ UNCHANGED <<next, timerList, timerLock, oldTicks, clock>>

\* timer_has_expired reads the flag when timer_update has returned.
Polled ==
  /\ At("polled")
  /\ GoOn(<<>>)
  /\ UNCHANGED <<timer, next, timerList, timerLock, oldTicks, due, clock>>

-----------------------------------------------------------------------------
(* The program.                                                            *)

Fresh(t) == [expiry |-> Interval[t], running |-> FALSE, hasExpired |-> FALSE]

\* CREATE_TIMER overwrites the whole structure.
Create ==
  /\ At("create")
  /\ timer' = [timer EXCEPT ![Top.t] = Fresh(Top.t)]
  /\ next' = [next EXCEPT ![Top.t] = None]
  /\ due' = [due EXCEPT ![Top.t] = 0]
  /\ GoOn(<<>>)
  /\ UNCHANGED <<timerList, timerLock, oldTicks, clock>>

\* A handler or a callback makes its next call, or returns.
Call ==
  /\ At("calls")
  /\ IF Top.calls = <<>> THEN GoOn(<<>>)
     ELSE LET c == Head(Top.calls)
              rest == Calls(Tail(Top.calls))
          IN IF c.op = "poll"
             THEN GoOn(<<Update, Frame("polled", c.t, now), rest>>)
             ELSE GoOn(<<Frame(c.op, c.t, IF c.op = "stop" THEN now ELSE 0), rest>>)
  /\ UNCHANGED <<timer, next, timerList, timerLock, oldTicks, due, clock>>

\* The program never overwrites a timer that is in the list.
Legal(ops) ==
  \A k \in DOMAIN ops :
    ops[k].op = "create" /\ Contains(List, ops[k].t) =>
      \E j \in 1 .. k - 1 : ops[j] = [op |-> "stop", t |-> ops[k].t]

Handle(ops) ==
  /\ stack = <<>>
  /\ Legal(ops)
  /\ stack' = <<Calls(ops)>>
  /\ UNCHANGED <<timer, next, timerList, timerLock, oldTicks, due, clock>>

\* What makes a program plain: a callback only stops or polls its own timer,
\* as that of the advertisements does (the others here call no timer function),
OwnCallbacks ==
  \A t \in Timers : \A k \in DOMAIN Callback[t] :
    Callback[t][k].op \in {"stop", "poll"} /\ Callback[t][k].t = t

\* and a handler that has started a timer stops it before it creates it anew.
Tidy(ops) ==
  \A k \in DOMAIN ops, j \in DOMAIN ops :
    j < k /\ ops[j].op = "start" /\ ops[k].op = "create" /\ ops[j].t = ops[k].t =>
      \E i \in j + 1 .. k - 1 : ops[i].op = "stop" /\ ops[i].t = ops[k].t

TidyHandlers == \A ops \in Handlers : Tidy(ops)

-----------------------------------------------------------------------------
(* Time.                                                                   *)

Overdue == alarm # 0 /\ alarm <= now

InInterrupt == \E k \in DOMAIN stack : stack[k].do = "iret"

Halted == At("wild") \/ At("bugcheck")

tick_handler ==
  /\ Overdue
  /\ stack = <<>> \/ (Interrupts /\ ~InInterrupt /\ ~Halted)
  /\ alarm' = 0
  /\ stack' = <<Update, Frame("iret", None, 0)>> \o stack
  /\ UNCHANGED <<timer, next, timerList, timerLock, oldTicks, due, now, late>>

ReturnFromInterrupt ==
  /\ At("iret")
  /\ GoOn(<<>>)
  /\ UNCHANGED <<timer, next, timerList, timerLock, oldTicks, due, clock>>

Tick ==
  /\ now < MaxTime
  /\ ~Halted
  /\ now' = now + 1
  /\ IF stack # <<>> \/ Overdue
     THEN late < MaxLate /\ late' = late + 1
     ELSE late' = 0
  /\ UNCHANGED <<timer, next, timerList, timerLock, oldTicks, due, stack, alarm>>

-----------------------------------------------------------------------------
Init ==
  /\ timer = [t \in Timers |-> Fresh(t)]
  /\ next = [t \in Timers |-> None]
  /\ timerList = None
  /\ timerLock = FALSE
  /\ oldTicks = 0
  /\ alarm = 0
  /\ stack = <<>>
  /\ now = 0
  /\ late = 0
  /\ due = [t \in Timers |-> 0]

\* The processor executes the innermost function.
Step ==
  \/ UpdateLocked \/ timer_update \/ timer_trigger \/ NextInChain \/ EndOfChain
  \/ timer_start \/ Insert \/ InsertIgnored
  \/ timer_stop \/ Unlink \/ Stopped \/ Polled
  \/ Create \/ Call \/ ReturnFromInterrupt

Next ==
  \/ Step
  \/ WildRead
  \/ tick_handler
  \/ Tick
  \/ \E ops \in Handlers : Handle(ops)

Spec == Init /\ [][Next]_vars

\* The processor keeps executing, a pending interrupt is served, and time
\* passes, even if handler follows upon handler (SF: the bound MaxLate makes
\* a tick wait for the program to be idle).
FairSpec == Spec /\ WF_vars(Step) /\ WF_vars(tick_handler) /\ SF_vars(Tick)

-----------------------------------------------------------------------------
(* Properties.                                                             *)

\* A timer fires once for each start, never before it is due and never once
\* timer_stop has returned, wherever the ticks wrap (time.c:73).  This is of
\* plain programs: it fails if a callback starts its own timer again, as that
\* of the LEDs does (baseband_bootloader/main.c:15), because the link read
\* behind the callback (time.c:42) is then one of the list.
FiresWhenDue ==
  [][\A t \in Timers :
       timer'[t].hasExpired /\ ~timer[t].hasExpired => due[t] # 0 /\ due[t] <= now]_vars

\* Outside of the timer functions the list holds the running timers, each
\* once, in the order in which they are due; their expiries are those times
\* counted from one origin.
ListInOrder ==
  stack = <<>> =>
    /\ ToSet(List) = {t \in Timers : timer[t].running}
    /\ Len(List) = Cardinality(ToSet(List))
    /\ timerList # None => next[List[Len(List)]] = None
    /\ \A k \in 1 .. Len(List) - 1 : due[List[k]] <= due[List[k + 1]]
    /\ \A t \in ToSet(List) :
         due[t] - timer[t].expiry = due[timerList] - timer[timerList].expiry

\* No timer is forgotten: when the program is idle and a timer is running,
\* the alarm is armed for no later than the timer is due, even if the tick
\* handler has met a held lock and left without setting it (time.c:79).
AlarmCoversList ==
  stack = <<>> =>
    \A t \in ToSet(List) : alarm # 0 /\ alarm <= due[t] + MinAlarm - 1

\* The lock is always free when timer_start or timer_stop takes it: neither
\* a callback nor an interrupt can meet the bug checks of lines 113 and 146.
NeverBugChecks == ~At("bugcheck")

\* timer_has_expired does not miss an expiry: if the timer was due when the
\* question was asked, the answer is yes (time.c:168-170).
PollTruthful ==
  At("polled") /\ due[Top.t] # 0 => Top.time < due[Top.t]

\* Every timer that is due before the bound on time is served or stopped:
\* the chain of alarms does not break.
DueIsServed == \A t \in Timers : due[t] # 0 /\ due[t] < MaxTime ~> due[t] = 0

\* The search for timers missed before a wrap runs over the end of the list
\* at most if none is left in it that is due after the wrap (time.c:58).
OverrunOnlyAtEnd ==
  [][At("wild")' => \A t \in ToSet(List) : due[t] < now - system_ticks]_vars

\* A timer that is stopped before it has fired keeps
\* exactly the time it had left, for a later timer_start (time.c:139), as long
\* as the ticks do not wrap.
PauseKeepsRemainder ==
  [][\A t \in Timers :
       timer[t].running /\ ~timer'[t].running /\ ~timer'[t].hasExpired /\ At("stopped")
         => timer'[t].expiry = due[t] - Top.time]_vars
=============================================================================
