------------------------------- MODULE Flight -------------------------------
(***************************************************************************)
(* The flight controller's application: main, the driver of the motion     *)
(* sensor (hardware/mpu/invensense_mpu.c), the control loop that it calls  *)
(* (uav/local_uav.c), the power button and the watchdog.                   *)
(*                                                                         *)
(* The contexts, by priority: main; the pin interrupts of the sensor and   *)
(* of the button (PORT_INTLVL_LO, interrupt.c:108); the interrupt of the   *)
(* I2C master, in which the callback of a background transfer runs         *)
(* (TWI_MASTER_INTLVL_MED, conf_twim.h:46).  A context that waits for a    *)
(* transfer spins until that last interrupt has set its status, which      *)
(* cannot interrupt itself unless `Nests'.  Global interrupts are on.      *)
(*                                                                         *)
(* The controllers compute with floats: here they command anything.        *)
(***************************************************************************)
EXTENDS Integers

CONSTANTS
  Nests,        \* the answers considered to: may the interrupt of the I2C
                \* master, whose handler is not in the repository, nest?
  Full,         \* full throttle; the speeds are 0 .. Full
  FifoSize,     \* packets that the FIFO of the sensor holds
  EmptyLimit    \* 200 in the code

ASSUME FlightAssumption ==
  /\ Nests \subseteq BOOLEAN
  /\ Full \in Nat \ {0} /\ FifoSize \in Nat \ {0} /\ EmptyLimit \in Nat \ {0}

VARIABLES
  main,         \* the step of main, "off" without power
  pin,          \* the step of mpu_interrupt in the pin interrupt
  callback,     \* the step of mpu_download_complete, or "busy": downloading
  shutdown,     \* pwr_shutdown is waiting for the button
  mpu,          \* mpu6050_t, see Mpu
  fifo, skewed, \* the sensor's packets, and whether it has lost part of one
  flags,        \* pins whose interrupt flag is set
  pressed,      \* the power button
  throttle,     \* controlThrottle
  pwm,          \* the compare register of a motor
  wdt,          \* the watchdog has been reset a short or a long time ago
  nests

sensor == <<fifo, skewed>>
vars == <<main, pin, callback, shutdown, mpu, fifo, skewed, flags, pressed,
          throttle, pwm, wdt, nests>>

Mpu == [running : BOOLEAN, downloading : BOOLEAN, handling : BOOLEAN,
        firstPacket : BOOLEAN, fifoEmpty : 0 .. EmptyLimit]

\* mpu6050_t behind invensense_mpu_reset.
Fresh == [running |-> FALSE, downloading |-> FALSE, handling |-> FALSE,
          firstPacket |-> TRUE, fifoEmpty |-> 0]

\* What a reset of the processor leaves behind; the sensor keeps its power.
Restart ==
  /\ main' = "reset" /\ pin' = "none" /\ callback' = "none"
  /\ shutdown' = FALSE
  /\ mpu' = Fresh
  /\ flags' = {}
  /\ throttle' = 0 /\ pwm' = 0 /\ wdt' = "fresh"

Init ==
  /\ main = "reset" /\ pin = "none" /\ callback = "none" /\ shutdown = FALSE
  /\ mpu = Fresh
  /\ fifo = 0 /\ skewed = FALSE
  /\ flags = {} /\ pressed \in BOOLEAN
  /\ throttle = 0 /\ pwm = 0 /\ wdt = "fresh"
  /\ nests \in Nests

-----------------------------------------------------------------------------
(* Who runs.                                                               *)

InCallback == callback \notin {"none", "busy"}
Running == main # "off" /\ ~shutdown
MainRuns == Running /\ pin = "none" /\ ~InCallback
PinRuns == Running /\ pin # "none" /\ ~InCallback

-----------------------------------------------------------------------------
(* The sensor, and the world outside.                                      *)

\* A packet comes at the FIFO rate; the interrupt is registered by mpu_reset.
PacketArrives ==
  /\ main # "off"
  /\ fifo' = IF fifo < FifoSize THEN fifo + 1 ELSE fifo
  /\ skewed' = (skewed \/ fifo = FifoSize)
  /\ flags' = IF main = "reset" THEN flags ELSE flags \cup {"mpu"}
  /\ UNCHANGED <<main, pin, callback, shutdown, mpu, pressed, throttle, pwm, wdt, nests>>

FifoReset == fifo' = 0 /\ skewed' = FALSE

\* The button switches the device on, and then sets its flag.
Press ==
  /\ ~pressed
  /\ pressed' = TRUE
  /\ IF main = "off" THEN Restart
     ELSE /\ flags' = flags \cup {"power"}
          /\ UNCHANGED <<main, pin, callback, shutdown, mpu, throttle, pwm, wdt>>
  /\ UNCHANGED <<sensor, nests>>

Release ==
  /\ pressed
  /\ pressed' = FALSE
  /\ UNCHANGED <<main, pin, callback, shutdown, mpu, sensor, flags, throttle, pwm, wdt,
                 nests>>

Ages ==
  /\ main # "off" /\ wdt = "fresh"
  /\ wdt' = "old"
  /\ UNCHANGED <<main, pin, callback, shutdown, mpu, sensor, flags, pressed, throttle,
                 pwm, nests>>

\* With AUTO_RESET the watchdog is enabled before anything else; whatever
\* the processor is doing, it starts again.
Bites ==
  /\ main # "off" /\ wdt = "old"
  /\ Restart
  /\ UNCHANGED <<sensor, pressed, nests>>

-----------------------------------------------------------------------------
(* main.                                                                   *)

\* mpu_reset; without a sensor the setup ends in a bug check.
mpu_reset ==
  /\ MainRuns /\ main = "reset"
  /\ \/ main' = "start" /\ UNCHANGED <<pin, callback, shutdown, mpu, flags, throttle, pwm, wdt>>
     \/ Restart
  /\ UNCHANGED <<sensor, pressed, nests>>

\* Slip: running is set before the FIFO is reset.
StartBegins_Running ==
  /\ MainRuns /\ main = "start"
  /\ main' = "starting"
  /\ mpu' = [mpu EXCEPT !.running = TRUE]
  /\ UNCHANGED <<pin, callback, shutdown, sensor, flags, pressed, throttle, pwm, wdt, nests>>

\* invensense_mpu_start asks for a reset of the FIFO and waits; meanwhile the
\* sensor's interrupts are ignored ...
StartBegins ==
  /\ MainRuns /\ main = "start"
  /\ main' = "starting"
  /\ UNCHANGED <<pin, callback, shutdown, mpu, sensor, flags, pressed, throttle, pwm, wdt,
                 nests>>

\* ... and acquires from then on, or the setup ends in a bug check.
mpu_start ==
  /\ MainRuns /\ main = "starting"
  /\ \/ /\ FifoReset
        /\ main' = "on"
        /\ mpu' = [mpu EXCEPT !.running = TRUE]
        /\ UNCHANGED <<pin, callback, shutdown, flags, throttle, pwm, wdt>>
     \/ Restart /\ UNCHANGED sensor
  /\ UNCHANGED <<pressed, nests>>

\* local_uav_on: every motor starts at 0.
uav_on ==
  /\ MainRuns /\ main = "on"
  /\ main' = "fly"
  /\ pwm' = 0
  /\ UNCHANGED <<pin, callback, shutdown, mpu, sensor, flags, pressed, throttle, wdt, nests>>

\* local_uav_control, which main calls with one throttle after the other.
uav_control ==
  /\ MainRuns /\ main = "fly"
  /\ throttle' \in 0 .. Full
  /\ UNCHANGED <<main, pin, callback, shutdown, mpu, sensor, flags, pressed, pwm, wdt, nests>>

-----------------------------------------------------------------------------
(* The pin interrupts: interrupt_handler and the callbacks of the pins.    *)

Handler ==
  UNCHANGED <<main, shutdown, pressed, throttle, pwm, wdt, nests>>

\* The flags are read, and mpu_interrupt asks for the number of bytes.
PinEnter ==
  /\ MainRuns
  /\ "mpu" \in flags
  /\ pin' = IF ~mpu.running \/ mpu.downloading THEN "clear" ELSE "check"
  /\ Handler /\ UNCHANGED <<callback, mpu, sensor, flags>>

\* Slip: the number of bytes is not looked at.
PinChecked_Blind ==
  /\ PinRuns /\ pin = "check"
  /\ \/ pin' = "clear" /\ UNCHANGED <<callback, mpu>>
     \/ /\ mpu' = [mpu EXCEPT !.downloading = TRUE, !.fifoEmpty = 0]
        /\ callback' = "busy"
        /\ pin' = "clear"
  /\ Handler /\ UNCHANGED <<sensor, flags>>

\* mpu_check_fifo has answered.
PinChecked ==
  /\ PinRuns /\ pin = "check"
  /\ \/ pin' = "clear" /\ UNCHANGED <<callback, mpu>>           \* an error
     \/ /\ fifo = 0
        /\ mpu' = [mpu EXCEPT !.fifoEmpty = IF @ < EmptyLimit THEN @ + 1 ELSE @]
        /\ pin' = IF mpu'.fifoEmpty = EmptyLimit THEN "resetFifo" ELSE "clear"
        /\ UNCHANGED callback
     \/ /\ fifo > 0
        /\ mpu' = [mpu EXCEPT !.downloading = TRUE, !.fifoEmpty = 0]
        /\ callback' = "busy"
        /\ pin' = "clear"
  /\ Handler /\ UNCHANGED <<sensor, flags>>

PinResetsFifo ==
  /\ PinRuns /\ pin = "resetFifo"
  /\ FifoReset \/ UNCHANGED sensor
  /\ pin' = "clear"
  /\ Handler /\ UNCHANGED <<callback, mpu, flags>>

\* The flags that were read are cleared, and what came in the meantime too.
PinLeave ==
  /\ PinRuns /\ pin = "clear"
  /\ pin' = "none"
  /\ flags' = flags \ {"mpu"}
  /\ Handler /\ UNCHANGED <<callback, mpu, sensor>>

\* pwr_shutdown: no interrupt is served from here on.
pwr_switch_callback ==
  /\ MainRuns
  /\ "power" \in flags
  /\ shutdown' = TRUE
  /\ UNCHANGED <<main, pin, callback, mpu, sensor, flags, pressed, throttle, pwm, wdt, nests>>

\* ... once the button is released the power is cut.
PowerCut ==
  /\ shutdown /\ ~pressed
  /\ main' = "off" /\ pin' = "none" /\ callback' = "none" /\ shutdown' = FALSE
  /\ mpu' = Fresh
  /\ fifo' = 0 /\ skewed' = FALSE
  /\ flags' = {} /\ throttle' = 0 /\ pwm' = 0 /\ wdt' = "fresh"
  /\ UNCHANGED <<pressed, nests>>

-----------------------------------------------------------------------------
(* The interrupt of the I2C master: mpu_download_complete.                 *)

Callback ==
  UNCHANGED <<main, pin, shutdown, flags, pressed, nests>>

\* Slip: a download takes whatever there is.
Downloaded_All == 0

\* A download takes one packet, the oldest.
Downloaded == fifo - 1

\* The download ends, possibly in the middle of a packet; its callback looks
\* at the footer.
DownloadEnds ==
  /\ Running /\ callback = "busy"
  /\ \/ callback' = "error" /\ fifo' = fifo /\ skewed' \in {skewed, TRUE}
     \/ /\ fifo' = Downloaded /\ skewed' = skewed
        /\ callback' = IF skewed THEN "resetFifo"
                       ELSE IF mpu.firstPacket THEN "first" ELSE "handle"
  /\ Callback /\ UNCHANGED <<mpu, throttle, pwm, wdt>>

\* Behind a wrong footer the FIFO is reset: if that completes, and whatever
\* comes of it, the packet is an error.
CallbackResetsFifo ==
  /\ Running /\ callback = "resetFifo" /\ nests
  /\ FifoReset \/ UNCHANGED sensor
  /\ callback' = "error"
  /\ Callback /\ UNCHANGED <<mpu, throttle, pwm, wdt>>

\* The first packet is followed by two writes to the sensor.
FirstPacket ==
  /\ Running /\ callback = "first" /\ nests
  /\ \/ callback' = "handle" /\ mpu' = [mpu EXCEPT !.firstPacket = FALSE]
     \/ callback' = "error" /\ UNCHANGED mpu
  /\ Callback /\ UNCHANGED <<sensor, throttle, pwm, wdt>>

\* What comes of the download is notified, unless a notification is still
\* under way, behind which the packet would be dropped.  The next download may
\* begin, if only the pin interrupt could.
Notify ==
  /\ Running /\ callback \in {"error", "handle"}
  /\ IF mpu.handling
     THEN callback' = "none" /\ mpu' = [mpu EXCEPT !.downloading = FALSE]
     ELSE /\ callback' = IF callback = "error" THEN "notifyError" ELSE "notifyData"
          /\ mpu' = [mpu EXCEPT !.downloading = FALSE, !.handling = TRUE]
  /\ Callback /\ UNCHANGED <<sensor, throttle, pwm, wdt>>

\* Slip: the watchdog is reset as soon as there is a callback.
CallbackFails_Kicks ==
  /\ Running /\ callback = "notifyError"
  /\ callback' = "none"
  /\ mpu' = [mpu EXCEPT !.handling = FALSE]
  /\ wdt' = "fresh"
  /\ Callback /\ UNCHANGED <<sensor, throttle, pwm>>

\* Slip: the flag is cleared behind data only.
CallbackFails_Handling ==
  /\ Running /\ callback = "notifyError"
  /\ callback' = "none"
  /\ Callback /\ UNCHANGED <<mpu, sensor, throttle, pwm, wdt>>

\* An error is notified; main has registered nobody for that.
CallbackFails ==
  /\ Running /\ callback = "notifyError"
  /\ callback' = "none"
  /\ mpu' = [mpu EXCEPT !.handling = FALSE]
  /\ Callback /\ UNCHANGED <<sensor, throttle, pwm, wdt>>

\* The compare value of full duty.
Period == 32768

\* pwm_set takes an integer: of a speed from 0 to 1, what is below 1 becomes 0
\* and 1 the first of the Period steps, though motor.h:29 calls 1 the maximum.
pwm_set(speed) == speed \div Full

\* uav_control_iteration: the watchdog is reset, and each rotor gets the
\* throttle and its share of the controllers' outputs.
uav_control_iteration ==
  /\ Running /\ callback = "notifyData"
  /\ wdt' = "fresh"
  /\ \E speed \in IF throttle = 0 THEN {0} ELSE 0 .. Full : pwm' = pwm_set(speed)
  /\ callback' = "none"
  /\ mpu' = [mpu EXCEPT !.handling = FALSE]
  /\ Callback /\ UNCHANGED <<sensor, throttle>>

-----------------------------------------------------------------------------
Main == mpu_reset \/ StartBegins \/ mpu_start \/ uav_on \/ uav_control
PinInterrupt == PinEnter \/ PinChecked \/ PinResetsFifo \/ PinLeave
TwiInterrupt ==
  \/ DownloadEnds \/ CallbackResetsFifo \/ FirstPacket
  \/ Notify \/ CallbackFails \/ uav_control_iteration

Next ==
  \/ PacketArrives
  \/ Press
  \/ Release
  \/ Ages
  \/ Bites
  \/ Main
  \/ PinInterrupt
  \/ pwr_switch_callback
  \/ PowerCut
  \/ TwiInterrupt

\* The processor serves its interrupts and time passes.
Spec ==
  /\ Init /\ [][Next]_vars
  /\ WF_vars(PinInterrupt) /\ WF_vars(TwiInterrupt) /\ WF_vars(Ages) /\ WF_vars(Bites)

-----------------------------------------------------------------------------
(* Properties.                                                             *)

\* Every variable keeps its type: no download is begun of a packet that is not
\* there (invensense_mpu.c:374), and the compare values are those of the timer.
TypeOK ==
  /\ main \in {"reset", "start", "starting", "on", "fly", "off"}
  /\ pin \in {"none", "check", "resetFifo", "clear"}
  /\ callback \in {"none", "busy", "resetFifo", "first", "error", "handle",
                   "notifyError", "notifyData"}
  /\ shutdown \in BOOLEAN
  /\ mpu \in Mpu
  /\ fifo \in 0 .. FifoSize /\ skewed \in BOOLEAN
  /\ flags \subseteq {"mpu", "power"} /\ pressed \in BOOLEAN
  /\ throttle \in 0 .. Full
  /\ pwm \in 0 .. Period
  /\ wdt \in {"fresh", "old"}
  /\ nests \in BOOLEAN

\* main, the pin interrupt and a download never use the I2C master at the
\* same time: the driver would refuse the later one, whose status then stays
\* STATUS_IN_PROGRESS (i2c_master.c:90-95).  The driver says that it is
\* downloading until the last transfer for the packet is over.
OneUser ==
  /\ pin \in {"check", "resetFifo"} => main \in {"on", "fly"} /\ callback = "none"
  /\ callback # "none" => main \in {"on", "fly"}
  /\ callback \notin {"none", "notifyError", "notifyData"} <=> mpu.downloading

\* "We have a potential race condition here but since the MPU cannot complete
\* 2 downloads at the same time, this shouldn't be an issue"
\* (invensense_mpu.c:312): though the next download may begin before the
\* handlers have been called, no packet and no error is ever dropped because
\* the one before is still being handled.
NoneDropped == callback \in {"error", "handle"} => ~mpu.handling

\* Packets in the FIFO that no interrupt is left to fetch.
Unfetched ==
  fifo - (IF callback = "busy" THEN 1 ELSE 0)
       - (IF "mpu" \in flags /\ pin # "clear" THEN 1 ELSE 0)

\* A lost or ignored interrupt is never made up for (interrupt.c:29, a flag
\* is cleared behind its callback; invensense_mpu.c:344): from then on the
\* packet that is handled is not the newest, until the FIFO is reset.
NeverCatchesUp ==
  [][(/\ {main, main'} \subseteq {"on", "fly"} /\ ~skewed'
      /\ pin # "resetFifo" /\ callback # "resetFifo")
       => Unfetched' >= Unfetched]_vars

\* Once the throttle has been taken back the motors stop, although packets
\* may be late, lost or wrong, the callback may wait for ever and the button
\* may be held: what is left is the watchdog.
ThrottleOffStops == (pwm # 0 /\ throttle = 0) ~> (pwm = 0 \/ throttle # 0)
=============================================================================
