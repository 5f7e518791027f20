----------------------------- MODULE FlightProofs -----------------------------
(***************************************************************************)
(* Proofs about Flight, for any size of the FIFO, any number of empty      *)
(* reads, any throttle, and interrupts that nest or do not: the I2C master *)
(* has one user at a time, no packet is dropped because the one before is  *)
(* still being handled, and one that was missed is never caught up with.   *)
(***************************************************************************)
EXTENDS Flight, TLAPS

-----------------------------------------------------------------------------
(* The inductive invariant.                                                *)

InAir == main \in {"on", "fly"}

\* The driver acquires exactly while the application is on.
RunningInAir == mpu.running <=> InAir

\* The driver says that it is handling exactly while handlers are called.
HandlingBooks == mpu.handling <=> callback \in {"notifyError", "notifyData"}

\* What an interrupt that has begun is about: its flag is still set, and what
\* is being downloaded is still in the FIFO.
InterruptHasPacket ==
  /\ pin # "none" => "mpu" \in flags
  /\ callback = "busy" => fifo > 0

IInv ==
  /\ TypeOK
  /\ OneUser
  /\ RunningInAir
  /\ HandlingBooks
  /\ InterruptHasPacket

-----------------------------------------------------------------------------
(* Operators.                                                              *)

\* pwm_set yields 0, or at full speed 1; both are steps of the timer.
LEMMA PwmSteps == ASSUME NEW speed \in 0 .. Full PROVE pwm_set(speed) \in 0 .. Period
<1>1. Full \in Nat /\ Full > 0
  BY FlightAssumption
<1>2. speed \div Full = IF speed = Full THEN 1 ELSE 0
  BY <1>1
<1>3. pwm_set(speed) \in {0, 1}
  BY <1>2 DEF pwm_set
<1>4. {0, 1} \subseteq 0 .. Period
  BY DEF Period
<1> QED BY <1>3, <1>4

LEMMA FreshFacts ==
  /\ Fresh \in Mpu
  /\ ~Fresh.running /\ ~Fresh.downloading /\ ~Fresh.handling
BY FlightAssumption DEF Fresh, Mpu

\* The fields of mpu6050_t when one of them is set.
LEMMA MpuFacts ==
  ASSUME NEW m \in Mpu, NEW b \in BOOLEAN
  PROVE  /\ [m EXCEPT !.running = b] \in Mpu
         /\ [m EXCEPT !.downloading = b] \in Mpu
         /\ [m EXCEPT !.handling = b] \in Mpu
         /\ [m EXCEPT !.firstPacket = b] \in Mpu
         /\ \A n \in 0 .. EmptyLimit : [m EXCEPT !.fifoEmpty = n] \in Mpu
BY Zenon DEF Mpu

-----------------------------------------------------------------------------
(* Initial states and resets.                                              *)

\* A reset leaves nothing of the driver behind; what it needs of the sensor is
\* that it keeps its type.
LEMMA RestartInvariant ==
  ASSUME TypeOK, Restart, fifo' \in 0 .. FifoSize, skewed' \in BOOLEAN,
         pressed' \in BOOLEAN, nests' = nests
  PROVE  IInv'
<1>1. /\ main' = "reset" /\ pin' = "none" /\ callback' = "none" /\ shutdown' = FALSE
      /\ mpu' = Fresh /\ flags' = {} /\ throttle' = 0 /\ pwm' = 0 /\ wdt' = "fresh"
  BY DEF Restart
<1>2. TypeOK'
  <2>1. 0 \in 0 .. Full /\ 0 \in 0 .. Period
    BY FlightAssumption DEF Period
  <2> QED BY <1>1, <2>1, FreshFacts, Zenon DEF TypeOK
<1>3. OneUser' /\ RunningInAir'
  BY <1>1, FreshFacts DEF OneUser, RunningInAir, InAir
<1>4. HandlingBooks' /\ InterruptHasPacket'
  BY <1>1, FreshFacts DEF HandlingBooks, InterruptHasPacket
<1> QED BY <1>2, <1>3, <1>4 DEF IInv

LEMMA InitInvariant == ASSUME Init PROVE IInv
<1>1. TypeOK
  <2>1. 0 \in 0 .. Full /\ 0 \in 0 .. Period /\ 0 \in 0 .. FifoSize /\ nests \in BOOLEAN
    BY FlightAssumption DEF Init, Period
  <2> QED BY <2>1, FreshFacts, Zenon DEF Init, TypeOK
<1>2. OneUser /\ RunningInAir
  BY FreshFacts DEF Init, OneUser, RunningInAir, InAir
<1>3. HandlingBooks /\ InterruptHasPacket
  BY FreshFacts DEF Init, HandlingBooks, InterruptHasPacket
<1> QED BY <1>1, <1>2, <1>3 DEF IInv

-----------------------------------------------------------------------------
(* The world outside and main.                                             *)

\* A step in which neither the driver nor its interrupts take part.
LEMMA QuietStep ==
  ASSUME IInv,
         UNCHANGED <<pin, callback, mpu, fifo, skewed, flags, nests>>,
         main' \in {"reset", "start", "starting", "on", "fly", "off"}, InAir' <=> InAir,
         shutdown' \in BOOLEAN, pressed' \in BOOLEAN, throttle' \in 0 .. Full,
         pwm' \in 0 .. Period, wdt' \in {"fresh", "old"}
  PROVE  IInv'
<1>1. TypeOK'
  BY Zenon DEF IInv, TypeOK
<1>2. OneUser' /\ RunningInAir'
  BY DEF IInv, OneUser, RunningInAir, InAir
<1>3. HandlingBooks' /\ InterruptHasPacket'
  BY DEF IInv, HandlingBooks, InterruptHasPacket
<1> QED BY <1>1, <1>2, <1>3 DEF IInv

LEMMA ArrivalStep == ASSUME IInv, PacketArrives PROVE IInv'
<1>1. /\ UNCHANGED <<main, pin, callback, shutdown, mpu, pressed, throttle, pwm, wdt, nests>>
      /\ flags' \in {flags, flags \cup {"mpu"}}
      /\ skewed' <=> (skewed \/ fifo = FifoSize)
      /\ fifo' = IF fifo < FifoSize THEN fifo + 1 ELSE fifo
  BY DEF PacketArrives
<1>2. fifo' \in 0 .. FifoSize /\ fifo' >= fifo
  BY <1>1, FlightAssumption DEF IInv, TypeOK
<1>3. TypeOK'
  <2>1. skewed' \in BOOLEAN
    BY DEF PacketArrives
  <2>2. flags' \subseteq {"mpu", "power"}
    BY <1>1 DEF IInv, TypeOK
  <2> QED BY <1>1, <1>2, <2>1, <2>2, Zenon DEF IInv, TypeOK
<1>4. OneUser' /\ RunningInAir' /\ HandlingBooks'
  BY <1>1 DEF IInv, OneUser, RunningInAir, InAir, HandlingBooks
<1>5. InterruptHasPacket'
  BY <1>1, <1>2 DEF IInv, TypeOK, InterruptHasPacket
<1> QED BY <1>3, <1>4, <1>5 DEF IInv

LEMMA PressStep == ASSUME IInv, Press PROVE IInv'
<1>1. pressed' \in BOOLEAN /\ fifo' \in 0 .. FifoSize /\ skewed' \in BOOLEAN /\ nests' = nests
  BY DEF Press, sensor, IInv, TypeOK
<1>2. CASE Restart
  BY <1>1, <1>2, RestartInvariant DEF IInv
<1>3. CASE /\ flags' = flags \cup {"power"}
           /\ UNCHANGED <<main, pin, callback, shutdown, mpu, throttle, pwm, wdt>>
  <2>1. fifo' = fifo
    BY DEF Press, sensor
  <2>2. TypeOK'
    <3>1. flags' \subseteq {"mpu", "power"}
      BY <1>3 DEF IInv, TypeOK
    <3> QED BY <1>1, <1>3, <3>1, Zenon DEF IInv, TypeOK
  <2>3. OneUser' /\ RunningInAir' /\ HandlingBooks'
        /\ InterruptHasPacket'
    BY <1>1, <1>3, <2>1 DEF IInv, OneUser, RunningInAir, InAir, HandlingBooks, InterruptHasPacket
  <2> QED BY <2>2, <2>3 DEF IInv
<1> QED BY <1>2, <1>3 DEF Press

LEMMA BitesStep == ASSUME IInv, Bites PROVE IInv'
<1>1. pressed' \in BOOLEAN /\ fifo' \in 0 .. FifoSize /\ skewed' \in BOOLEAN /\ nests' = nests
  BY DEF Bites, sensor, IInv, TypeOK
<1> QED BY <1>1, RestartInvariant DEF Bites, IInv

\* The power is cut with the button released; what was under way is forgotten.
LEMMA PowerCutStep == ASSUME IInv, PowerCut PROVE IInv'
<1>1. /\ main' = "off" /\ pin' = "none" /\ callback' = "none" /\ shutdown' = FALSE
      /\ mpu' = Fresh /\ flags' = {} /\ throttle' = 0 /\ pwm' = 0 /\ wdt' = "fresh"
      /\ fifo' = 0 /\ skewed' = FALSE /\ UNCHANGED <<pressed, nests>>
  BY DEF PowerCut
<1>2. TypeOK'
  <2>1. 0 \in 0 .. Full /\ 0 \in 0 .. Period /\ 0 \in 0 .. FifoSize
    BY FlightAssumption DEF Period
  <2> QED BY <1>1, <2>1, FreshFacts, Zenon DEF IInv, TypeOK
<1>3. OneUser' /\ RunningInAir'
  BY <1>1, FreshFacts DEF OneUser, RunningInAir, InAir
<1>4. HandlingBooks' /\ InterruptHasPacket'
  BY <1>1, FreshFacts DEF HandlingBooks, InterruptHasPacket
<1> QED BY <1>2, <1>3, <1>4 DEF IInv

LEMMA MpuStartStep == ASSUME IInv, mpu_start PROVE IInv'
<1>1. main = "starting" /\ pin = "none" /\ UNCHANGED <<pressed, nests>>
  BY DEF mpu_start, MainRuns
<1>2. CASE Restart /\ UNCHANGED sensor
  BY <1>1, <1>2, RestartInvariant DEF IInv, TypeOK, sensor
<1>3. CASE /\ FifoReset
           /\ main' = "on"
           /\ mpu' = [mpu EXCEPT !.running = TRUE]
           /\ UNCHANGED <<pin, callback, shutdown, flags, throttle, pwm, wdt>>
  <2>1. callback = "none"
    \* Nothing can have been asked for before the application is on.
    BY <1>1 DEF IInv, OneUser
  <2>2. mpu' \in Mpu
    BY <1>3, MpuFacts DEF IInv, TypeOK
  <2>3. mpu'.running /\ (mpu'.downloading <=> mpu.downloading)
        /\ (mpu'.handling <=> mpu.handling)
    BY <1>3, Zenon DEF IInv, TypeOK, Mpu
  <2>4. TypeOK'
    <3>1. 0 \in 0 .. FifoSize
      BY FlightAssumption
    <3> QED BY <1>1, <1>3, <2>2, <3>1, Zenon DEF IInv, TypeOK, FifoReset
  <2>5. OneUser' /\ RunningInAir'
    BY <1>1, <1>3, <2>1, <2>3 DEF IInv, OneUser, RunningInAir, InAir
  <2>6. HandlingBooks' /\ InterruptHasPacket'
    BY <1>1, <1>3, <2>1, <2>3 DEF IInv, HandlingBooks,
                                 InterruptHasPacket
  <2> QED BY <2>4, <2>5, <2>6 DEF IInv
<1> QED BY <1>2, <1>3 DEF mpu_start

LEMMA MainStep == ASSUME IInv, Main PROVE IInv'
<1>1. CASE mpu_reset
  <2>1. pressed' \in BOOLEAN /\ fifo' \in 0 .. FifoSize /\ skewed' \in BOOLEAN /\ nests' = nests
    BY <1>1 DEF mpu_reset, sensor, IInv, TypeOK
  <2>2. CASE Restart
    BY <2>1, <2>2, RestartInvariant DEF IInv
  <2>3. CASE main' = "start" /\ UNCHANGED <<pin, callback, shutdown, mpu, flags, throttle, pwm, wdt>>
    BY <1>1, <2>3, QuietStep DEF mpu_reset, sensor, IInv, TypeOK, InAir
  <2> QED BY <1>1, <2>2, <2>3 DEF mpu_reset
<1>2. CASE StartBegins
  BY <1>2, QuietStep DEF StartBegins, sensor, IInv, TypeOK, InAir
<1>3. CASE mpu_start
  BY <1>3, MpuStartStep
<1>4. CASE uav_on
  <2>1. /\ main = "on" /\ main' = "fly" /\ pwm' = 0
        /\ UNCHANGED <<pin, callback, mpu, fifo, skewed, flags, nests>>
        /\ UNCHANGED <<shutdown, pressed, throttle, wdt>>
    BY <1>4 DEF uav_on, sensor
  <2>2. pwm' \in 0 .. Period
    BY <2>1 DEF Period
  <2>3. InAir' <=> InAir
    BY <2>1 DEF InAir
  <2>4. /\ shutdown' \in BOOLEAN /\ pressed' \in BOOLEAN /\ throttle' \in 0 .. Full
        /\ wdt' \in {"fresh", "old"}
    BY <2>1 DEF IInv, TypeOK
  <2> QED BY <2>1, <2>2, <2>3, <2>4, QuietStep
<1>5. CASE uav_control
  BY <1>5, QuietStep DEF uav_control, sensor, IInv, TypeOK, InAir
<1> QED BY <1>1, <1>2, <1>3, <1>4, <1>5 DEF Main

-----------------------------------------------------------------------------
(* The pin interrupts.                                                     *)

LEMMA PinEnterStep == ASSUME IInv, PinEnter PROVE IInv'
<1>1. /\ "mpu" \in flags /\ pin' \in {"clear", "check"}
      /\ pin' = "check" => mpu.running /\ ~mpu.downloading
      /\ UNCHANGED <<main, shutdown, pressed, throttle, pwm, wdt, nests>>
      /\ UNCHANGED <<callback, mpu, fifo, skewed, flags>>
  BY DEF PinEnter, Handler, sensor
<1>2. TypeOK'
  BY <1>1, Zenon DEF IInv, TypeOK
<1>3. OneUser'
  \* The driver asks only while it runs and no download is under way.
  BY <1>1 DEF IInv, OneUser, RunningInAir, InAir, PinEnter, MainRuns, InCallback
<1>4. RunningInAir' /\ HandlingBooks' /\ InterruptHasPacket'
  BY <1>1 DEF IInv, RunningInAir, InAir, HandlingBooks,
              InterruptHasPacket
<1> QED BY <1>2, <1>3, <1>4 DEF IInv

\* The answer to how many bytes there are.
LEMMA PinCheckedStep == ASSUME IInv, PinChecked PROVE IInv'
<1>1. /\ pin = "check" /\ UNCHANGED <<main, shutdown, pressed, throttle, pwm, wdt, nests>>
      /\ UNCHANGED <<fifo, skewed, flags>>
  BY DEF PinChecked, Handler, sensor
<1>2. callback = "none" /\ main \in {"on", "fly"} /\ mpu \in Mpu /\ mpu.fifoEmpty \in 0 .. EmptyLimit
      /\ ~mpu.downloading
  BY <1>1 DEF IInv, OneUser, TypeOK, Mpu
<1>3. CASE pin' = "clear" /\ UNCHANGED <<callback, mpu>>
  <2>1. TypeOK'
    BY <1>1, <1>3, Zenon DEF IInv, TypeOK
  <2>2. OneUser' /\ RunningInAir' /\ HandlingBooks'
        /\ InterruptHasPacket'
    BY <1>1, <1>3 DEF IInv, OneUser, RunningInAir, InAir, HandlingBooks, InterruptHasPacket
  <2> QED BY <2>1, <2>2 DEF IInv
<1>4. CASE /\ fifo = 0
           /\ mpu' = [mpu EXCEPT !.fifoEmpty = IF @ < EmptyLimit THEN @ + 1 ELSE @]
           /\ pin' = IF mpu'.fifoEmpty = EmptyLimit THEN "resetFifo" ELSE "clear"
           /\ UNCHANGED callback
  <2> DEFINE n == IF mpu.fifoEmpty < EmptyLimit THEN mpu.fifoEmpty + 1 ELSE mpu.fifoEmpty
  <2>1. n \in 0 .. EmptyLimit /\ mpu' = [mpu EXCEPT !.fifoEmpty = n]
    BY <1>2, <1>4, FlightAssumption
  <2> HIDE DEF n
  <2>2. mpu' \in Mpu
    BY <1>2, <2>1, MpuFacts
  <2>3. /\ mpu'.running <=> mpu.running
        /\ mpu'.downloading <=> mpu.downloading
        /\ mpu'.handling <=> mpu.handling
    BY <1>2, <2>1, Zenon DEF Mpu
  <2>4. pin' \in {"resetFifo", "clear"} /\ callback' = callback
    BY <1>4
  <2>5. TypeOK'
    BY <1>1, <2>2, <2>4, Zenon DEF IInv, TypeOK
  <2>6. OneUser' /\ RunningInAir'
    BY <1>1, <1>2, <2>3, <2>4 DEF IInv, OneUser, RunningInAir, InAir
  <2>7. HandlingBooks' /\ InterruptHasPacket'
    BY <1>1, <2>3, <2>4 DEF IInv, HandlingBooks, InterruptHasPacket
  <2> QED BY <2>5, <2>6, <2>7 DEF IInv
<1>5. CASE /\ fifo > 0
           /\ mpu' = [mpu EXCEPT !.downloading = TRUE, !.fifoEmpty = 0]
           /\ callback' = "busy"
           /\ pin' = "clear"
  <2>1. 0 \in 0 .. EmptyLimit
    BY FlightAssumption
  <2>2. mpu' \in Mpu
    BY <1>2, <1>5, <2>1, Zenon DEF Mpu
  <2>3. mpu'.downloading /\ (mpu'.running <=> mpu.running)
        /\ (mpu'.handling <=> mpu.handling)
    BY <1>2, <1>5, Zenon DEF Mpu
  <2>4. TypeOK'
    BY <1>1, <1>5, <2>2, Zenon DEF IInv, TypeOK
  <2>5. OneUser' /\ RunningInAir'
    BY <1>1, <1>2, <1>5, <2>3 DEF IInv, OneUser, RunningInAir, InAir
  <2>6. HandlingBooks' /\ InterruptHasPacket'
    BY <1>1, <1>2, <1>5, <2>3 DEF IInv, HandlingBooks, InterruptHasPacket
  <2> QED BY <2>4, <2>5, <2>6 DEF IInv
<1> QED BY <1>3, <1>4, <1>5 DEF PinChecked

\* FifoReset or not.
LEMMA MaybeReset ==
  ASSUME TypeOK, FifoReset \/ UNCHANGED sensor
  PROVE  fifo' \in 0 .. FifoSize /\ skewed' \in BOOLEAN
<1>1. CASE FifoReset
  <2>1. fifo' = 0 /\ skewed' = FALSE /\ 0 \in 0 .. FifoSize
    BY <1>1, FlightAssumption DEF FifoReset
  <2> QED BY <2>1
<1>2. CASE UNCHANGED sensor
  BY <1>2 DEF TypeOK, sensor
<1> QED BY <1>1, <1>2

LEMMA PinEndsStep == ASSUME IInv, PinResetsFifo \/ PinLeave PROVE IInv'
<1>1. /\ pin' \in {"clear", "none"}
      /\ pin' = "clear" => pin = "resetFifo" /\ flags' = flags
      /\ flags' \subseteq flags
      /\ (FifoReset /\ callback = "none") \/ UNCHANGED sensor
      /\ UNCHANGED <<main, shutdown, pressed, throttle, pwm, wdt, nests>>
      /\ UNCHANGED <<callback, mpu>>
  BY DEF IInv, OneUser, PinResetsFifo, PinLeave, Handler
<1>2. TypeOK'
  <2>1. fifo' \in 0 .. FifoSize /\ skewed' \in BOOLEAN
    BY <1>1, MaybeReset DEF IInv
  <2>2. flags' \subseteq {"mpu", "power"}
    BY <1>1 DEF IInv, TypeOK
  <2> QED BY <1>1, <2>1, <2>2, Zenon DEF IInv, TypeOK
<1>3. OneUser' /\ RunningInAir' /\ HandlingBooks'
  BY <1>1 DEF IInv, OneUser, RunningInAir, InAir, HandlingBooks
<1>4. InterruptHasPacket'
  BY <1>1 DEF IInv, InterruptHasPacket, sensor
<1> QED BY <1>2, <1>3, <1>4 DEF IInv

-----------------------------------------------------------------------------
(* The callback of a download.                                             *)

\* A callback that goes on or ends; what it may change of mpu6050_t.
LEMMA CallbackStep ==
  ASSUME IInv, callback # "none",
         callback' \in {"none", "resetFifo", "first", "error", "handle",
                       "notifyError", "notifyData"},
         mpu' \in Mpu, mpu'.running <=> mpu.running,
         callback' \notin {"none", "notifyError", "notifyData"} <=> mpu'.downloading,
         mpu'.handling <=> callback' \in {"notifyError", "notifyData"},
         fifo' \in 0 .. FifoSize, skewed' \in BOOLEAN,
         pwm' \in 0 .. Period, wdt' \in {"fresh", "old"},
         UNCHANGED <<main, pin, shutdown, flags, pressed, nests, throttle>>
  PROVE  IInv'
<1>1. TypeOK'
  BY Zenon DEF IInv, TypeOK
<1>2. OneUser' /\ RunningInAir' /\ HandlingBooks' /\ InterruptHasPacket'
  BY DEF IInv, OneUser, RunningInAir, InAir, HandlingBooks, InterruptHasPacket
<1> QED BY <1>1, <1>2 DEF IInv

LEMMA DownloadStep == ASSUME IInv, DownloadEnds PROVE IInv'
<1>1. /\ callback = "busy" /\ mpu \in Mpu /\ mpu.downloading /\ ~mpu.handling
      /\ UNCHANGED <<main, pin, shutdown, flags, pressed, nests, mpu, throttle, pwm, wdt>>
  BY DEF IInv, TypeOK, OneUser, HandlingBooks, DownloadEnds, Callback
<1>2. fifo > 0 /\ fifo \in 0 .. FifoSize /\ skewed \in BOOLEAN
  BY <1>1 DEF IInv, TypeOK, InterruptHasPacket
<1>3. fifo' \in 0 .. FifoSize
  <2>1. fifo' = fifo \/ fifo' = fifo - 1
    BY DEF DownloadEnds, Downloaded
  <2> QED BY <1>2, <2>1, FlightAssumption
<1>4. skewed' \in BOOLEAN
  BY <1>2 DEF DownloadEnds
<1>5. callback' \in {"error", "resetFifo", "first", "handle"}
  BY DEF DownloadEnds
<1>6. pwm' \in 0 .. Period /\ wdt' \in {"fresh", "old"}
  BY <1>1 DEF IInv, TypeOK
<1> QED BY <1>1, <1>3, <1>4, <1>5, <1>6, CallbackStep

LEMMA CallbackResetStep == ASSUME IInv, CallbackResetsFifo PROVE IInv'
<1>1. /\ callback = "resetFifo" /\ callback' = "error"
      /\ mpu \in Mpu /\ mpu.downloading /\ ~mpu.handling
      /\ FifoReset \/ UNCHANGED sensor
      /\ UNCHANGED <<main, pin, shutdown, flags, pressed, nests, mpu, throttle, pwm, wdt>>
  BY DEF IInv, TypeOK, OneUser, HandlingBooks, CallbackResetsFifo, Callback
<1>2. fifo' \in 0 .. FifoSize /\ skewed' \in BOOLEAN
  BY <1>1, MaybeReset DEF IInv
<1>3. pwm' \in 0 .. Period /\ wdt' \in {"fresh", "old"}
  BY <1>1 DEF IInv, TypeOK
<1> QED BY <1>1, <1>2, <1>3, CallbackStep

LEMMA FirstPacketStep == ASSUME IInv, FirstPacket PROVE IInv'
<1>1. /\ callback = "first" /\ callback' \in {"handle", "error"}
      /\ mpu' \in {mpu, [mpu EXCEPT !.firstPacket = FALSE]}
      /\ UNCHANGED <<main, pin, shutdown, flags, pressed, nests, throttle, pwm, wdt>>
      /\ UNCHANGED <<fifo, skewed>>
  BY DEF FirstPacket, Callback, sensor
<1>2. mpu \in Mpu /\ mpu.downloading /\ ~mpu.handling
  BY <1>1 DEF IInv, TypeOK, OneUser, HandlingBooks
<1>3. mpu' \in Mpu
  BY <1>1, <1>2, MpuFacts
<1>4. /\ mpu'.running <=> mpu.running
      /\ mpu'.downloading <=> mpu.downloading
      /\ mpu'.handling <=> mpu.handling
  BY <1>1, <1>2, Zenon DEF Mpu
<1>5. /\ pwm' \in 0 .. Period /\ wdt' \in {"fresh", "old"}
      /\ fifo' \in 0 .. FifoSize /\ skewed' \in BOOLEAN
  BY <1>1 DEF IInv, TypeOK
<1> QED BY <1>1, <1>2, <1>3, <1>4, <1>5, CallbackStep

\* The handlers are called: nobody else is calling them.
LEMMA NotifyStep == ASSUME IInv, Notify PROVE IInv'
<1>1. callback \in {"error", "handle"} /\ mpu \in Mpu /\ ~mpu.handling
  BY DEF Notify, IInv, TypeOK, HandlingBooks
<1>2. /\ callback' \in {"notifyError", "notifyData"}
      /\ mpu' = [mpu EXCEPT !.downloading = FALSE, !.handling = TRUE]
      /\ UNCHANGED <<main, pin, shutdown, flags, pressed, nests, throttle, pwm, wdt>>
      /\ UNCHANGED <<fifo, skewed>>
  BY <1>1 DEF Notify, Callback, sensor
<1>3. mpu' \in Mpu
  BY <1>1, <1>2, Zenon DEF Mpu
<1>4. (mpu'.running <=> mpu.running) /\ ~mpu'.downloading /\ mpu'.handling
  BY <1>1, <1>2, Zenon DEF Mpu
<1>5. /\ pwm' \in 0 .. Period /\ wdt' \in {"fresh", "old"}
      /\ fifo' \in 0 .. FifoSize /\ skewed' \in BOOLEAN
  BY <1>2 DEF IInv, TypeOK
<1> QED BY <1>1, <1>2, <1>3, <1>4, <1>5, CallbackStep

\* The packet has been notified, as an error or as data.
LEMMA CallbackEndsStep == ASSUME IInv, CallbackFails \/ uav_control_iteration PROVE IInv'
<1>1. /\ callback \in {"notifyError", "notifyData"} /\ callback' = "none"
      /\ mpu' = [mpu EXCEPT !.handling = FALSE]
      /\ UNCHANGED <<main, pin, shutdown, flags, pressed, nests, fifo, skewed, throttle>>
  BY DEF CallbackFails, uav_control_iteration, Callback, sensor
<1>2. mpu \in Mpu /\ ~mpu.downloading
  BY <1>1 DEF IInv, TypeOK, OneUser
<1>3. mpu' \in Mpu
  BY <1>1, <1>2, MpuFacts
<1>4. (mpu'.running <=> mpu.running) /\ ~mpu'.downloading /\ ~mpu'.handling
  BY <1>1, <1>2, Zenon DEF Mpu
<1>5. pwm' \in 0 .. Period
  <2>1. CASE CallbackFails
    BY <2>1 DEF CallbackFails, IInv, TypeOK
  <2>2. CASE uav_control_iteration
    <3>1. PICK speed \in 0 .. Full : pwm' = pwm_set(speed)
      BY <2>2, FlightAssumption DEF uav_control_iteration
    <3> QED BY <3>1, PwmSteps
  <2> QED BY <2>1, <2>2
<1>6. /\ wdt' \in {"fresh", "old"}
      /\ fifo' \in 0 .. FifoSize /\ skewed' \in BOOLEAN
  BY <1>1 DEF IInv, TypeOK, CallbackFails, uav_control_iteration
<1> QED BY <1>1, <1>3, <1>4, <1>5, <1>6, CallbackStep

-----------------------------------------------------------------------------
(* The invariant, and what follows from it.                                *)

LEMMA StepInvariant == ASSUME IInv, [Next]_vars PROVE IInv'
<1>1. CASE UNCHANGED vars
  BY <1>1, QuietStep DEF vars, IInv, TypeOK, InAir
<1>2. CASE PacketArrives
  BY <1>2, ArrivalStep
<1>3. CASE Press
  BY <1>3, PressStep
<1>4. CASE Release
  BY <1>4, QuietStep DEF Release, sensor, IInv, TypeOK, InAir
<1>5. CASE Ages
  BY <1>5, QuietStep DEF Ages, sensor, IInv, TypeOK, InAir
<1>6. CASE Bites
  BY <1>6, BitesStep
<1>7. CASE Main
  BY <1>7, MainStep
<1>8. CASE PinInterrupt
  BY <1>8, PinEnterStep, PinCheckedStep, PinEndsStep DEF PinInterrupt
<1>9. CASE pwr_switch_callback
  BY <1>9, QuietStep DEF pwr_switch_callback, sensor, IInv, TypeOK, InAir
<1>10. CASE PowerCut
  BY <1>10, PowerCutStep
<1>11. CASE TwiInterrupt
  BY <1>11, DownloadStep, CallbackResetStep, FirstPacketStep, NotifyStep,
     CallbackEndsStep
     DEF TwiInterrupt
<1> QED BY <1>1, <1>2, <1>3, <1>4, <1>5, <1>6, <1>7, <1>8, <1>9, <1>10, <1>11 DEF Next

\* The inductive invariant: types, who uses the I2C master, when the driver
\* acquires, and what packet an interrupt is about.
THEOREM Invariance == Spec => []IInv
<1>1. Init => IInv
  BY InitInvariant
<1>2. IInv /\ [Next]_vars => IInv'
  BY StepInvariant
<1> QED BY <1>1, <1>2, PTL DEF Spec

\* Every variable keeps its type: a download is only ever begun of a packet
\* that is there (invensense_mpu.c:374), and a motor is set to a step of its timer.
THEOREM TypeCorrect == Spec => []TypeOK
<1>1. IInv => TypeOK
  BY DEF IInv
<1> QED BY <1>1, Invariance, PTL

\* main, a pin interrupt and a download never use the I2C master at the same
\* time, whatever packets, presses and resets come in between.
THEOREM OneUserOfTheMaster == Spec => []OneUser
<1>1. IInv => OneUser
  BY DEF IInv
<1> QED BY <1>1, Invariance, PTL

\* No packet and no error is dropped because the handlers of the one before are
\* still being called (invensense_mpu.c:312).
THEOREM PacketsAreHandled == Spec => []NoneDropped
<1>1. IInv => NoneDropped
  BY DEF IInv, HandlingBooks, NoneDropped
<1> QED BY <1>1, Invariance, PTL

\* Steps of the program in the air: none takes two packets at once, and none
\* clears the flag of a packet that it has not seen to.
LEMMA CatchUpStep ==
  ASSUME IInv, [Next]_vars, {main, main'} \subseteq {"on", "fly"}, ~skewed',
         pin # "resetFifo", callback # "resetFifo"
  PROVE  Unfetched' >= Unfetched
<1>1. fifo \in Nat /\ FifoSize \in Nat /\ InterruptHasPacket
  BY FlightAssumption DEF IInv, TypeOK
<1>2. ~Restart /\ main' # "off" /\ main \notin {"reset", "start", "starting", "off"}
  BY DEF Restart
<1>3. CASE PacketArrives
  <2>1. fifo # FifoSize
    BY <1>3 DEF PacketArrives
  <2>2. fifo < FifoSize
    BY <2>1, FlightAssumption DEF IInv, TypeOK
  <2>3. fifo' = fifo + 1 /\ UNCHANGED <<pin, callback>>
    BY <1>3, <2>2 DEF PacketArrives
  <2> QED BY <1>1, <2>3 DEF Unfetched
<1>4. CASE PinEnter
  <2>1. pin = "none" /\ UNCHANGED <<callback, fifo, flags>>
    BY <1>4 DEF PinEnter, MainRuns, sensor
  <2> QED BY <1>1, <2>1 DEF Unfetched
<1>5. CASE PinChecked
  <2>1. pin = "check" /\ "mpu" \in flags /\ UNCHANGED <<fifo, flags>> /\ callback = "none"
    BY <1>1, <1>5 DEF PinChecked, InterruptHasPacket, sensor, IInv, OneUser
  <2>2. callback' = callback \/ (callback' = "busy" /\ pin' = "clear")
    BY <1>5 DEF PinChecked
  <2> QED BY <1>1, <2>1, <2>2 DEF Unfetched
<1>6. CASE PinLeave
  <2>1. pin = "clear" /\ flags' = flags \ {"mpu"} /\ UNCHANGED <<callback, fifo>>
    BY <1>6 DEF PinLeave, sensor
  <2> QED BY <1>1, <2>1 DEF Unfetched
<1>7. CASE DownloadEnds
  <2>1. callback = "busy" /\ callback' # "busy" /\ UNCHANGED <<pin, flags>>
    BY <1>7 DEF DownloadEnds, Callback
  <2>2. fifo' = fifo \/ fifo' = fifo - 1
    BY <1>7 DEF DownloadEnds, Downloaded
  <2> QED BY <1>1, <2>1, <2>2 DEF Unfetched
<1>8. CASE FirstPacket \/ Notify \/ CallbackFails \/ uav_control_iteration
  <2>1. callback # "busy" /\ callback' # "busy" /\ UNCHANGED <<pin, flags, fifo>>
    BY <1>8 DEF FirstPacket, Notify, CallbackFails, uav_control_iteration, Callback, sensor
  <2> QED BY <1>1, <2>1 DEF Unfetched
<1>9. CASE Press
  <2>1. flags' = flags \cup {"power"} /\ UNCHANGED <<pin, callback, fifo>>
    BY <1>2, <1>9 DEF Press, sensor
  <2>2. "mpu" \in flags' <=> "mpu" \in flags
    BY <2>1
  <2> QED BY <1>1, <2>1, <2>2 DEF Unfetched
<1>10. CASE UNCHANGED <<pin, callback, fifo, flags>>
  BY <1>1, <1>10 DEF Unfetched
<1>11. UNCHANGED vars \/ Release \/ Ages \/ Main \/ pwr_switch_callback
         => UNCHANGED <<pin, callback, fifo, flags>>
  BY <1>2 DEF vars, Release, Ages, Main, mpu_reset, StartBegins, mpu_start, uav_on,
              uav_control, pwr_switch_callback, sensor
<1>12. ~Bites /\ ~PowerCut /\ ~PinResetsFifo /\ ~CallbackResetsFifo
  BY <1>2 DEF Bites, PowerCut, PinResetsFifo, CallbackResetsFifo
<1> QED BY <1>3, <1>4, <1>5, <1>6, <1>7, <1>8, <1>9, <1>10, <1>11, <1>12
        DEF Next, PinInterrupt, TwiInterrupt

\* An interrupt that was lost or ignored is never made up for.
THEOREM MissedStaysMissed == Spec => NeverCatchesUp
<1> DEFINE Kept == /\ {main, main'} \subseteq {"on", "fly"} /\ ~skewed'
                   /\ pin # "resetFifo" /\ callback # "resetFifo"
                   => Unfetched' >= Unfetched
<1>1. IInv /\ [Next]_vars => [Kept]_vars
  BY CatchUpStep
<1>2. Spec => [][Kept]_vars
  BY <1>1, Invariance, PTL DEF Spec
<1> QED BY <1>2 DEF NeverCatchesUp
===============================================================================
