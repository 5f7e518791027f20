# Specifications of the S1 firmware

S1 is a pocket-sized drone. Two processors run its firmware, which shares one
library (`src/shared-c`):

- the **flight controller**, an ATXmega32E5: motors, motion sensor, control
  loop, I2C slave (`src/flightcontroller`, `src/flightcontroller_bootloader`,
  `src/factory_bootloader`);
- the **baseband**, a CSR1010: Bluetooth LE towards the phone or PC, I2C master
  towards the flight controller (`src/baseband`, `src/baseband_bootloader`).

Each has a bootloader and an application that a host may replace over the air
(DFU). The host talks BLE to the baseband, which updates itself or passes
the host's accesses on over I2C.

This directory holds TLA+ models of the parts whose correctness depends on
the order of events, the TLC configurations that check small instances of
them, and TLAPS proofs of the most important results for all instances.
`PROJECT.json` maps every definition to the lines it was translated from.

Contents: [1 Inventory](#1-inventory) · [2 Plan](#2-plan) ·
[3 Modules](#3-modules) · [4 Runs](#4-runs) · [5 Proofs](#5-proofs) ·
[6 Where code and comments disagree](#6-where-code-and-comments-disagree) ·
[7 Not modelled](#7-not-modelled)

To repeat a check: `tlc -config NvmAvr.cfg MCNvm` (configuration and MC module
as in section 4); to repeat a proof: `tlapm NvmProofs.tla`.

## 1 Inventory

How the parts interact:

```
 host ──BLE── gatt, ble ── gatt_service ── endpoints of the services
                 │                              │ dfu_service (own device)
                 │ timers                       │ dfu_service (currentSlave set)
                 ▼                              ▼
   time.c ── tick interrupt            i2c master (csr/i2c.c)
                                                │ bus
   dfu.c ── nvm.c ── raw NVM           i2c slave (avr/i2c_slave.c), interrupt
     ▲                                          │
     └───────────── endpoints of the flight controller: dfu_service, uav_service
                                                │
                     mpu driver ── uav_control_iteration ── motors
```

| component | state | operations | what is hard | what makes it correct |
|---|---|---|---|---|
| **Atomic NVM** `hardware/nvm.c` | a data area, a magic number ("initialised"), one fixup area {offset, length, old bytes}; in RAM `nvmValid` | `nvm_init` (rolls back), `nvm_read`, `nvm_write`, `nvm_data_init`; `bug_check_ex` writes its log through it | the supply may fail between any two bytes, also in the roll back; raw accesses fail on the CSR, and the bug check that follows is itself a write | a write is seen as a whole or not at all; a read never sees a field that the next start would roll back |
| **DFU of one device** `system/dfu.c`, `services/dfu_service.c`, `arch/*/bootloader.c`, the start code | `app_info_t` in the NVM (state, offset, forced flag, who ran last), program memory, page buffer and position, `didInvalidate`, `dfuOnHold` | boot decision, hold and its time-out, `dfu_did_switch`, commands (info), writes (progmem), validation (progmem info), resets | a reset at any point; commands in any order; writes cut at any place; RAM state and NVM state that must agree | only whole images become bootable or run; a started update locks the device in DFU mode until it is complete |
| **Software timers** `system/time.c`, `arch/*/timer.c` | sorted linked list, a lock, `oldTicks`, the hardware alarm | `timer_start`, `timer_stop`, `timer_has_expired`, tick interrupt, wrap handling, callbacks | the tick interrupt between any two steps, callbacks that call back into the module, ticks that wrap | each start fires once, neither early nor late; nothing is forgotten; the bug checks on the lock are unreachable |
| **I2C link** `arch/csr/i2c.c`, `arch/avr/i2c_slave.c`, `hardware/i2c.h` | master: position in a blocking transfer; slave: `twi_slave_t` (endpoint, offset, buffer, open transaction), interrupt enables | transfer; interrupt handlers for start, stop, byte in, byte out, bus error | a transfer longer than the slave's buffer; stale RXACK; stop interrupts that the next start overtakes; bus errors | what is written arrives once, in order, at its offset and is committed once; what is read is what the endpoint holds; transfers end |
| **BLE** `arch/csr/ble.c`, `gatt.c`, `csr1010.c` | advertising mode, connection slots with a state, a timer and a bond each, bonds in the NVM | advertise, cancel, connect, update parameters, encrypt, close | events of the stack that cross the program's requests, or come after the connection they are about; a timer per slot; a bond that is half made | the slot is the connection, the mode is what the radio does, keys that were discarded are never approved again, advertising ends |
| **GATT/GAP/I2C services** | a message buffer each, the open access | read and write of attributes, passed to endpoints | accesses longer than a message | an endpoint sees what the host sent |
| **DFU relay** `dfu_service.c`, `dfu.c` with `DFU_SLAVES` | `currentSlave` | `dfu_master_enter`, `dfu_master_exit`, endpoints that forward | either device is reset alone; transfers are lost, or done and reported lost; the slave starts its application between a read and a write | neither runs a partial application; a slave on hold is waited for; a start comes to a decision |
| **UAV control** `flightcontroller/main.c`, `uav/local_uav.c` | `controlThrottle`, `controlAttitude`, `inactive`, PID and Kalman state, motors | control input, on, iteration at the rate of the sensor | it runs in a callback of the I2C driver; only the watchdog notices that it no longer runs | without throttle the motors stop |
| **Motion sensor** `hardware/mpu/invensense_mpu.c` | `running`, `downloading`, `firstPacket`, `fifoEmpty`; the FIFO in the chip | start, pin interrupt, download in the background, its callback | three contexts share one I2C master; packets come while one is fetched | one transfer at a time; packets reach the control loop |
| **External interrupts** `arch/avr/interrupt.c` | flags of a port, callbacks | the handler of a port | an edge while the handler runs | what is lost is known |
| **Power, motors** `hardware/power.c`, `pwmmotor.c`, `arch/avr/pwm.h` | button, compare registers | shutdown, set a speed | the shutdown waits with interrupts off | the motors do not outlive the program |
| **CSR over-the-air service** | one characteristic | restart into the vendor's bootloader | the other side is not in the repository | - |
| **PC kernel** `kernel/` | heap, memory map, threads, NTFS | another operating system in the same tree | - | not part of any firmware here |
| **Host software** `src/shared-c#` | sessions, GUI | drives updates and flights | - | appears as a host that may do anything |

Hazards, i.e. what could go wrong here and a test would hardly reach, are listed
with their lines and the properties that watch them in `PROJECT.json`.

## 2 Plan

Done, in this order, because everything persistent rests on the NVM and the
worst that can happen to a user is a device that no longer starts:

1. `AtomicNvm` (abstract) ← `Nvm`, proofs in `NvmProofs`
2. `UpdatableDevice` (abstract) ← `Dfu`, which uses `Nvm`'s promise; proofs in `DfuProofs`
3. `Timers`, with the programs of the devices in `MCTimers`; proofs in `TimersProofs`
4. `I2cLink`, both ends of the bus in one module; proofs in `I2cLinkProofs`
5. `DfuLink`, both bootloaders and the bus between them; proofs in `DfuLinkProofs`
6. `Ble`, connections, advertising, pairing and bonds; proofs in `BleProofs` (the
   connection and the radio) and `BleBondProofs` (requests, keys and bonds)
7. `Flight`, the application of the flight controller from the sensor's
   interrupt to the motors, with the button and the watchdog; proofs in `FlightProofs`

8. In `TimersProofs`, the list of `Timers`: its order, its coverage by the alarm, polls
   and expiries, for programs that satisfy an assumption (section 5)

Left to prove; the runs check what it would state: the same where the ticks wrap.

The inductive invariants stand in the proof modules, next to the proofs that
need them; each was checked by TLC on the instance of its component's run
before it was proved.

## 3 Modules

### AtomicNvm, Nvm

`AtomicNvm` is what a caller may believe: a store in which a write takes effect
at one instant, whatever restarts surround it. As long as nobody has declared
the store initialised its content means nothing.

`Nvm` translates `nvm.c` byte by byte. `pc` says what the processor does:
`backup`, `header`, `value`, `clear` are the phases of `nvm_write`; `restore` and
`unfix` those of the roll back in `nvm_init`. Every byte that reaches the memory
is a step, and `PowerLoss` may come before any of them. `op` holds the
arguments of `nvm_write`, `i` the bytes transferred. `RawFails` distinguishes
the platforms: on the AVR raw accesses never report an error; on the CSR any of
them may, which ends in `bug_check_ex`, whose log is written by the same
`nvm_write`. The fixup header's two numbers are one cell each, as both fit into
a byte on all devices here. `nvm_data_init` follows at least one write, as in
`avr_init` and `AppInit`, which call it after `dfu_init_nvm`. The program's own bug
checks (`BugCheck`) fall between two writes: `nvm_write` makes none before its last
line, the CSR calls one handler after the other, and on the AVR the only interrupt
that makes one is the one without a handler (`BADISR_vect`), which nobody enables.

The refinement (`WritesAreAtomic`) maps the store to `Logical`: the data area
with the roll back applied that the next start would carry out. A write thereby
takes effect when its fixup length is cleared, and a power loss before that
point undoes it.

### UpdatableDevice, Dfu

`UpdatableDevice` is what the bootloader promises: one bootable image or none;
only a bootable image runs; one becomes bootable as a whole, after the
one before has been given up.

`Dfu` has two actors. The **main context** (`pc`) starts, decides
(`dfu_check_for_app`, `Unforce`, hold, time-out), reports a switch (`DidSwitch`)
and enters DFU mode, or launches; the application's and the factory
bootloader's starts are actions as well. An **endpoint handler** (`h`) runs in
an interrupt or a BLE callback while the main context stands still: a write
is a loop of `CopyToPage`, `ErasePage`, `BurnPage` and `WriteReturns`; a
validation compares the application area with an image, which stands for the
checksum. `PowerLoss` may come at every step; program memory may be lost
between the erasure and the burning of a page. A write of `app_info_t` is one
step in an initialised NVM (that is `Nvm`'s result) and may be torn (`Torn`)
before.

Program memory is a function from cells to (image, position); an image is whole
if every cell of the application area is its own. A reader of
`dfu_service.c` finds: `didInvalidate`, `currentPage`, `currentPageOffset`,
`pageBuffer` under their names.

A launch (`dfu_launch_app`) passes on an offset that was never read: `dfu.c:176`
reads it over the first field of the structure. The model takes any of 0,
`APP_OFFSET` and erased memory. On the AVR `bootloader_launch_app` insists on 0
(`ChecksOffset`), so a launch with another offset is a bug check and the device starts
again, possibly for ever; the CSR executes whatever lies there (`running` is not the
application then).

The host's writes are not bounded, as `dfu_progmem_handler_w` checks nothing: they may
start up to a page behind the image and end behind it. Nobody reads what lies there; the
application is what lies before it.

Assumption `QuietBoot`: no command *that writes* reaches the device before `dfu_init` is
through. Commands during the hold are answered by `dfu_service.c:46` and `83` without a
change of state (a read yields DFU_STATE_HOLD, DFU_STATE_NONE is refused), so they are
there in the model as nothing. On the CSR, BLE events arrive after `AppInit` has
returned. On the XMEGA the sources never enable interrupts globally (`avr_io.c` notes
that they are still disabled). With `QuietBoot = FALSE` TLC finds an application that is
invalidated during the hold and launched all the same; for a slave on a bus that
does answer then, this is what `torn` in `DfuLink` is about.

A device from the factory has a priority application at offset 0 and otherwise whatever
was in its NVM before: the factory bootloader only destroys the sanity word.

### Timers, MCTimers

The state is the code's: fields and links of the timers, `timerList`,
`timerLock`, `oldTicks`, and the hardware `alarm`. The C stack is explicit
(`stack`, frames that name the next point of a function), because callbacks
start and stop timers while `timer_trigger` walks its chain, and because on the
AVR the tick interrupt runs between any two steps. `due` remembers when a
started timer has to fire. If `timer_check_overflow` reads behind the end of
the list (`time.c:58`) the model stops in `wild`; `OverrunOnlyAtEnd` says when
that may be.

The program is a constant: the set of call sequences its handlers make. A
handler never creates a timer that is in the list (`Legal`). `OwnCallbacks` and
`TidyHandlers` are what the proofs about the list assume of a program besides;
`MCTimers` asserts both of the two programs that the runs check. These are the AVR's
bootloader (hold and error timer) and the baseband's application: the advertising timer
and the timer of a connection, which `ble_negotiate_params` creates and starts without a
stop (`ble.c:231`; that an earlier one may then still run is `Ble`'s finding). The
timer of the LEDs in the baseband's bootloader, whose callback starts it again, is in
neither program: section 6 says what it breaks.

### I2cLink, MCI2cLink

One module for both ends. **Master**: `pc` is the place in the blocking
`builtin_i2c_master_transfer`: register address, data, repeated start, bytes
read, exit. **Slave**: one action per handler of `twi_slave_interrupt`, `twi`
is the `twi_slave_t`; `Flushed` is the call of the endpoint's write function
that `twis_end_transaction` makes. **Controller and bus** (external): `irq` is
the pending interrupt, `nack` is RXACK, which keeps its value across transfers.
The controller holds the clock after an address and after a byte until its
handler has answered; a stop does not hold the bus, so `Start` may overtake its
interrupt. `BusError` may hit at any time while the slave takes part. `RawFails` is
any failure of a raw access of the master other than a missing acknowledgement: a byte,
an answer or a start condition that does not get through. The master then goes to its
stop; if it was reading and has not refused a byte, the slave does not hear of it. A
transfer that has failed may so leave a read, or a transaction without a byte, open in the
slave's driver, which the next start ends (`NoneBusyWhenIdle`).

The endpoints' read functions come in three kinds: `info` gives what there is
from an offset, `progmem` all of a buffer or an error, `once` knows no offset.
`calls` records the calls of endpoint functions; `ended` and `handled` keep the
last transfer and its calls until the next one is under way. `Shifted` is the
master's shift of the register address, of which `Frame` sends the lowest byte of
each of `AddrBytes` steps; an address fits if nothing is left then
(`TransfersAssumption`).

### DfuLink, MCDfuLink

The **master** m is the baseband, the **slave** s the flight controller. `pc`
follows `dfu_init` on both; on the master `try`, `exit` and `again` are the
rounds of `dfu_try_launch_app`, which reads the slave's state and, in a step of
its own, writes to it (`dfu_master_exit`). Between any two steps the slave goes
on, either device or both may be reset, and the host, which is connected to the
master in its bootloader and in its application, may do anything. A `Transfer`
either succeeds, or fails with its effect done or not, as long as the bus is
"bad". What one device does to its own memory is `Dfu`'s subject and appears
here as "whole" or "partial". The master's application passes transfers of the host on
to any endpoint of the slave (`i2c_transfer_handler_w`): commands, pieces of an image,
and a validation. The slave's handler needs 12 bytes of it at once and gets them in pieces
of 8, so it refuses both and then commits what it holds, an empty application, which is
valid whatever lies in the memory. A slave that a host commands to exit DFU mode starts
from within its interrupt (`launch`).

`HoldAnswers` says whether the slave's bootloader answers while it waits for
the button, which needs interrupts that nothing in the sources of the XMEGA
enables; the run takes the case in which it does, which has more behaviours.
Two marks say how a partial image may come to run: `torn`, a slave that was written to
during its hold, and `unchecked`, one that was marked valid over the bus and not written
to since.

### Ble, MCBle

The state of `ble.c` and `gatt.c` for one connection and one bond, as the
devices are built: `adv` (mode, timer), `conn` (the slot), `connTimer`, `bond`
and its copy `nvm`; next to it what the firmware of the chip knows: `link`,
`white` (list), `updating`, `pairing`, and in `adv` its open requests. Each
handler of `AppProcessLmEvent` is an action, with the bug checks it may end in
(`BugCheck`, which resets). The firmware is external and modelled from what the
handlers assume of it; the header of the module lists these assumptions. One is
that the link manager reports the parameters of a connection (`StoreParams`) while its
slot is open: in another order those reports would be bug checks, as the handlers do
nothing to find their slot later. Another is that the confirmation of a parameter
update and the end of a pairing may come after the disconnection, for which the
handlers have code (`ble.c:344`, `ble.c:405`).

The program knows a host by its address. `Hosts` come with several `Addrs`, of which
some are resolvable random ones; keys belong to a host, and the slot, the bond, the white
list and the events to an address. A bonded host with another address is a stranger
(`Recalled`): it is neither refused nor told of changed services.

Timers are running or not, and may expire at any moment: how they count is
`Timers`. `connTimer = "looped"` is a timer that was created and started while
it was in the list; every later walk along the list hangs (`Hang`).

### Flight, MCFlight

Three contexts by priority: `main`; the `pin` interrupts; the `callback` of a
background transfer. A lower one stands still while a higher one runs.
Waiting for a transfer is a step that another context may precede:
`StartBegins` and `mpu_start` are the two sides of such a wait. `nests` is the
open question of whether the I2C master's interrupt, in which the callback
runs, can be interrupted by itself: the driver's handler is third-party code
that is not in the repository (its configuration is). If it does not nest,
the callback's own transfers never complete and only the watchdog (`Bites`)
goes on. Floats do not appear: the controllers may command any speed when
there is throttle and none without it. The end of a callback is two steps, as in the
code: `Notify` clears `downloading` and takes the flag `handling`, and the handlers
(`CallbackFails`, `uav_control_iteration`) run behind it. `pwm` is the compare register,
whose period is `Period`, set as `pwm_set` sets it: 0, or 1 at full speed (section 6).

## 4 Runs

| run | module, bounds | shows | distinct states |
|---|---|---|---|
| `NvmAvr` | `MCNvm`: 3 bytes of 2 values, a field of 2 and one of 1 | `nvm.c` implements `AtomicNvm` | 24 336 |
| `NvmCsrReads` | the same with raw errors | reads are stable, and a bug check always ends in a reset | 26 000 |
| `DfuFlight` | `MCDfu`: 2 images, 2 pages of 2 cells, writes of 0-3 cells at 6 places, 3 origins, launches at any of 3 offsets | `Dfu` implements `UpdatableDevice`; an update is locked; the forced flag forces one start; switches are reported; the page buffer is not overrun | 801 146 |
| `DfuBaseband` | `AppBase` 3 | finding: an update overwrites the bootloader | violation |
| `DfuLink` | `MCDfuLink`: 3 resets, good and bad bus, button | only whole applications run; a slave on hold is waited for; a start decides; the slave follows into DFU mode | 35 744 |
| `DfuSlaves` | no fault, no reset, no button | finding: the master starts and leaves its slave in the bootloader | violation |
| `TimersAvr` | `MCTimers`: 2 timers, interrupts, 6 ticks, 1 tick of delay | polls tell the truth; the lock is never met; every due timer is served; a pause keeps the remainder | 131 589 |
| `TimersBle` | 3 timers, ticks wrap at 5, 6 ticks | across a wrap no timer is lost, early or late, the alarm covers the list, and when the search for missed timers overruns | 1.54 million |
| `I2cLink` | `MCI2cLink`: buffer of 2, addresses of 2 digits to base 3, 4 endpoints, 17 transfers | transfers deliver, commit once, read what is there, and end | 460 839 |
| `Ble` | `MCBle`: 2 hosts with 3 addresses, two of them resolvable, 2 connections per start, 2 keys, 2 boots, 2 requests, white list of 2 | the books about connection, advertising and bond are true; late events at worst reset; requests are bounded; discarded keys stay out; owed news are told; advertising ends | 485 082 |
| `BleTimers` | the same | finding: a timer is created while it is running | violation |
| `Flight` | `MCFlight`: FIFO of 3, 1 empty read, 3 throttles, nesting or not | one user of the I2C master; what becomes of lost interrupts; no packet is dropped for the one before; without throttle the motors stop | 17 642 |

Why the bounds are enough:

- *Nvm.* A field of two bytes can be torn; two fields share the fixup area; a
  byte needs two values to differ. Every content of data and fixup area is
  an initial state, so nothing depends on a particular garbage.
- *Dfu.* Two images can be mixed; two pages allow a half-written application on
  page granularity, two cells per page on a finer one; a write of three cells
  crosses a page wherever it starts, and one that starts behind the image stays there.
  Images are symmetric.
- *Timers.* With three timers there is a first, a middle and a last one in the
  list; intervals of 1 to 4 ticks against 6 ticks of time let timers expire, be
  restarted, expire together and, with a wrap at 5, be due on both sides
  of it. `MaxLate` bounds how long a handler may run, to one tick.
- *I2cLink.* Buffer 2 and transfers of 0 to 5 bytes give no, one and two
  refills, exact fits and reads behind the end; the register map has an address
  before the first endpoint, an endpoint over several registers, one that
  cannot be written, and one whose content is longer than the buffer. Transfers follow each other in any order.
- *DfuLink.* Three resets allow a forced start, a reset in it and one more of
  the other device; a bus that turns good lets every transfer fail, or some, or none.
- *Ble.* Two hosts are needed for one to meet what the other has left: slot,
  timer, bond, white list; three addresses let one host come under two, and both come
  under a resolvable one. Two connections per start let each host come once
  or one come back; two keys let a bond be replaced; two boots let the NVM
  outlive the RAM. The white list of two is full with two of the addresses.
  `MaxRequests` is 2 as in the code.
- *Flight.* A FIFO of 3 holds a backlog and overflows; the limit of 1 empty
  read stands for the code's 200: a packet precedes each interrupt, so that only a
  reset of the FIFO behind it makes a read empty, and never two in a row; the
  larger limit would not be met.
- `DfuFlight`, `DfuLink`, the Nvm runs, the I2C run and `Flight` check for
  deadlocks. The timer runs stop at `MaxTime` and after a wild read, `Ble` at its
  bounds and when it hangs, and a device whose bootloader has
  been overwritten does not start: these say `CHECK_DEADLOCK FALSE`.

Fairness:

- `Timers!FairSpec`: WF on the processor's next step and on the pending tick
  interrupt. SF on `Tick`: time passes anyhow; strong fairness is needed only
  because the bound `MaxLate` makes a tick wait for the program to be idle,
  which happens again and again.
- `I2cLink!FairSpec`: WF on the steps of the master's blocking call (`Progress`, without
  the failures) and on the slave's interrupt,
  which no interrupt of higher level holds off for good. Not on `Start` and not on
  `BusError`: nobody has to begin a transfer or to disturb one.

- `DfuLink`: WF on the steps of the master (`Master`), on the slave's boot, on
  the expiry of the hold timer and on the end of the slave's hold, which its own
  timer bounds. Not on `BusRecovers` and not on the host: a bus may stay bad, and
  `Decides` holds all the same.
- `Ble`: WF on the set-up of the database, on the expiry of the advertising
  timer and on the confirmation of a cancellation, which the firmware owes.
- `Flight`: WF on the pin interrupt, on the interrupt of the I2C master (transfers
  end, with or without an error) and on the watchdog and its clock. Not on
  packets: the sensor may fall silent. Not on `main`.

Every property of a passing run has a mutant in `PROJECT.json`: an operator next
to the definition it changes, marked "Slip" in the module, under which TLC finds
the property violated.

## 5 Proofs

All theorems hold for every value of the constants that satisfies the modules'
named assumptions, which give the constants their types and exclude what the code's
own constants exclude (a buffer of no byte, a register address that does not fit
into its bytes); what else a theorem assumes is said here.

**NvmProofs**
- `Invariance`: `Spec => []IInv`, if raw accesses do not fail (`RawFails = FALSE`)
- `Atomicity`: `Spec => WritesAreAtomic`, likewise
- `Stability`: `Spec => []ReadsAreStable`, also where raw accesses fail
- `BugCheckIsFinal`: `Spec => []BugCheckResets`, also where raw accesses fail

`WritesAreAtomic` is not inductive. `IInv` adds how far a write and a roll back have
come: the backup holds the old bytes as far as `i` (`WriteProgress`); the
header's offset is right before the length makes it count; what a roll back has
restored equals the backup, so starting it again changes nothing
(`RestoreProgress`); while nothing is being written there is no valid
backup (`VoidBackup`). Each step is then shown to be a step of `AtomicNvm` or to
leave `Logical` alone. Where raw accesses may fail, the contents of the backup are
lost, as section 6 says; what is left is `ErrorBooks`: an error ends in a bug check,
so the program is never idle with a backup that still counts, and the bug check's own write
ends in a reset, whichever of its accesses fails.

**DfuProofs** (any number of images, page size, size of the application and length of
writes; all but the last with `AppBase = 0` and `ChecksOffset`, as on the flight
controller, and `QuietBoot`)
- `Invariance`: `Spec => []IInv`
- `ForcedOnlyOnce`: `Spec => []ForcedOnce`
- `UpdateLocked`: `Spec => UpdateIsLocked`
- `Refinement`: `Spec => IsUpdatableDevice`
- `SwitchReported`: `Spec => SwitchIsReported`
- `TypeCorrect`: `Spec => []TypeOK`, without any of these

The invariant says: a bootable state means a whole image at the right place
(`BootableIsWhole`); `didInvalidate` in RAM implies "invalid" in the NVM
(`InvalidateHolds`), so no page is written under a bootable state; and what
`dfu_check_for_app` has decided stays true until it is acted upon
(`DecisionHolds`). The last is where `QuietBoot` is needed. `AppBase = 0` is
needed because pages are written without it (section 6), and `ChecksOffset` because a
launch passes on an offset that was never read: what starts is then the
application, or nothing.
`TypeOK` says among other things that the page buffer is not overrun; `LoopFits` adds
how many cells the loop of a write may still take, which no assumption on the boot is
needed for. `SwitchReported` needs `LastBooks`, which ties the record of who ran last
to who has run, at each point of a start.

**I2cLinkProofs** (no further assumption: any register map, any transfers, any
buffer and address size, with bus errors and overtaken stops)
- `Invariance`: `Spec => []IInv`
- `StopsFollowWrites`: `Spec => []StopAfterWrite`, the comment "this should always
  hold" of the stop handler
- `IdleMeansDone`: `Spec => []NoneBusyWhenIdle`
- `DataInvariance`: `Spec => []DataInv`
- `WritesAreDelivered`: `Spec => []Delivered`
- `CommitsAreOnce`: `Spec => []CommittedOnce`: at most one commit, behind the last byte;
  certainly of a write that succeeds on a good bus, never of a read that succeeds
- `ReadsAreTrue`: `Spec => []ReadsTrue`

`StopAfterWrite` and `NoneBusyWhenIdle` are not inductive. `StopsEnabled` ties the
enable bit of stop interrupts to
the direction of the driver and to the bytes sent, `SameDirection` says that
master and slave agree on the direction while the slave takes part, and
`LeavesTransfer` that a slave that has left a transfer has closed its transaction, is
about to read the NACK that makes it do so, or has been left alone by a failure
of the master (`RawFailsKeeps`). The lemma `FramePositive` is
needed where a write ends: at least one byte was sent, so stops are enabled and
the slave will be told.

The other three speak of a transfer that has ended; `DataInv` says the same of
one that is under way. `AddressBooks` and `DataBooks`: the slave has taken what the
master has sent, but for a byte that still waits for its interrupt; what it has made of the
address bytes is the address without the digits that are still to come.
`WriteBooks`: the calls so far are consecutive pieces of the data, each at the offset
where the one before ended (`Chain`), and the buffer holds what follows them. `EndBooks`:
at a stop, and at a start that overtakes it, the whole frame is in the driver.
`ReadBooks`: the buffer is what the endpoint holds at the offset of its first byte, and the
master stands at the driver's position in it. Each action has a lemma (named after it,
`...Keeps`). `Shifted` is a recursive function; what it does is proved by a least
counterexample (`LeastOf`), not by a theorem of induction.

**FlightProofs** (no further assumption: any FIFO, any number of empty reads, any
throttle, interrupts that nest or do not)
- `Invariance`: `Spec => []IInv`
- `TypeCorrect`: `Spec => []TypeOK`
- `OneUserOfTheMaster`: `Spec => []OneUser`
- `PacketsAreHandled`: `Spec => []NoneDropped`
- `MissedStaysMissed`: `Spec => NeverCatchesUp`

`OneUser` needs `RunningInAir` (the driver acquires exactly while the application is on, so an
interrupt cannot start a download while `mpu_start` or `mpu_stop` uses the master)
and `InterruptHasPacket`; `NoneDropped` follows from `HandlingBooks`: `handling` is set
exactly while handlers are called, whichever of them was.

**TimersProofs** (any timers, intervals, callbacks and handlers: the program is any
set of sequences of calls, with or without interrupts, at any wrap and any bounds)
- `Invariance`: `Spec => []IInv`
- `LockIsFree`: `Spec => []NeverBugChecks`
- `PauseKeeps`: `Spec => PauseKeepsRemainder`, if the ticks do not wrap (`Wrap = 0`)

`LockBooks`: the lock is held exactly while one frame of the stack is between
taking and freeing it, and above that frame there is nothing but an interrupt
that finds it held and returns. `ExpiryBooks` ties the expiry of a running timer to
the time at which it is due; across a wrap that is not so (section 6).

About the list, for ticks that do not wrap (the AVR's 32 bits; on the CSR the first
half hour) and plain programs:
- `PlainInvariance`: `Spec => []PlainInv`
- `ListsAreOrdered`: `Spec => []ListInOrder`
- `AlarmCovers`: `Spec => []AlarmCoversList`
- `PollsAreTruthful`: `Spec => []PollTruthful`
- `TimersFireWhenDue`: `Spec => FiresWhenDue`, of plain programs only: the timer of the LEDs
  is none, and it fails there

A program is plain if a callback stops or polls no other timer than its own
(`OwnCallbacks`) and a handler that has started a timer stops it before it creates it
anew (`TidyHandlers`). The hold and error timers of `dfu.c`, which have no callback, and
the advertising timer (`gatt.c:233`) are used so. It is an assumption that is needed: a
callback that stops a timer of the chain that `timer_trigger` is walking, or starts its
own again (section 6), breaks the walk.

`ListInOrder` and `AlarmCoversList` speak of an idle program; `PlainInv` says what holds
with a stack. `Chains`: each call of `timer_trigger` has a chain of timers to go
through, linked from the one it is at (`HeadAt`), the chains and the list have no timer in
common, and every running timer is in one of them, unless `timer_stop` has just taken
it out (`Unlinked`). So a callback finds the links of the chains below it as they were.
`Places` says at which depth of the stack a function can be: in a plain program only a
handler starts or creates timers, and what is called from a callback is about a timer
that has `Fired`, which is in no list. `AlarmBooks`: the alarm covers the list, or
`timer_update` is still to be called by a frame of the stack, if an interrupt has met it with
the lock held. `PollBooks`: behind the `timer_update` of a poll nothing is in the list that was
due when it was asked. `Expiries` and `CreateBooks` (a `CREATE_TIMER` still to come of a
timer in the list is preceded by a stop) complete it. Each action has a lemma (`Plain...`), and a step moves frames only at the
top of the stack, which `Grown` states and `PendingStep` uses for the chains. That `List`,
which follows the links, returns the chain it is given is `ListIs`.

**DfuLinkProofs** (no further assumption: any number of resets, either bus,
button or not, a slave that answers during its hold or does not)
- `TypeCorrect`: `Spec => []TypeOK`
- `Invariance`: `Spec => []IInv`
- `EveryRunWhole`: `Spec => []RunsWhole`
- `HoldIsRespected`: `Spec => HoldRespected`

`RunsWhole` is inductive with the types. Its part about the master is what the boot
decision has seen and no command takes back while the master is in `dfu_try_launch_app`;
its part about the slave (`SlaveWhole`) is kept by every step of the slave's own and by
every transfer, one lemma each, with the marks of `Remembers`. `HoldRespected` needs `ExitsFromDfu`: when
`dfu_master_exit` is about to write to a slave that it has read in DFU mode, the
slave is still there, for nothing but a reset takes it out; so a launch that follows the
write is not over a slave on hold.

**BleProofs** (no further assumption: any hosts, resolvable or not, any size of the
white list, any number of connections, keys and boots; of the firmware what the header
of `Ble` says)
- `TypeCorrect`: `Spec => []TypeOK`
- `Invariance`: `Spec => []IInv`
- `SlotIsTheLink`: `Spec => []SlotIsLink`
- `ModeOfAdvertising`: `Spec => []AdvModeIsTrue`
- `OpenConnectionsLive`: `Spec => []BugChecksAreLate`

`AdvModeIsTrue` speaks of the radio when no cancellation is under way, and is not
inductive. `AdvBooks` adds that the device is silent while it is connected, also when a
cancellation is to be confirmed; so a connection finds the slot free and never a
second one, and the next `ble_advertise` finds no request open. `QuietUntilUp` carries
the state after a reset, in which `advMode` says "fast" and nothing is asked of the
radio, to the first cancellation. `TimerHasHost` is needed for bug checks: a timer that
expires without a connection names a host, so its event is a late one.

**BleBondProofs** (no further assumption; it rests on `BleProofs`)
- `BooksInvariance`: `Spec => []Books`
- `RequestsStayBounded`: `Spec => []RequestsBounded`
- `SavedBondsHaveHosts`: `Spec => []SavedBondHasHost`
- `DiscardedStaysOut`: `Spec => DiscardedKeysStayOut`
- `NewsAreTold`: `Spec => OwedIsTold`

`RequestBooks`: the requests of a connection are among those `connUpdateReqNum` has
counted, and the timer runs only if one more may follow. `KeyBooks`: a valid bond, in the
RAM or in the NVM, has keys that were distributed and not discarded, and only a
valid bond makes a connection bonded. `DiscardedStaysOut` is of failures that the
program has processed; one that is reported after the disconnection is ignored
(`ble.c:406`), and its keys may be approved. `OwedBooks`: while news are owed the bond says
so, or its address is one that its key does not resolve. Such a connection is refused, which
is why `OwedIsTold` excepts it; and it is about connections from the address in the bond, as
a host under another one is not recalled.

Only model-checked:

- Of `Timers`, what happens where the ticks wrap: there `ListInOrder`,
  `AlarmCoversList`, `FiresWhenDue` and `OverrunOnlyAtEnd` are checked by `TimersBle` only.
- Liveness: `DueIsServed`, `TransferEnds`, `ThrottleOffStops`, `AdvertisingEnds`,
  `Decides`, `SlaveFollows`. The prover has neither fairness nor ENABLED.

## 6 Where code and comments disagree

The findings in `PROJECT.json`, each with the run whose trace shows it:

- `DfuBaseband`: pages are read and validated with `APP_OFFSET` and written
  without it: on the baseband the bootloader is overwritten.
- `DfuSlaves`: `dfu.c:117` says that the slaves are commanded to exit DFU mode;
  `dfu.c:132` writes DFU_STATE_TEMP. A slave in its bootloader ignores that and
  stays; a slave that has started its application since it was read is put
  into its bootloader. In both cases the master launches its own application.
- `BleTimers`: `time.c:105` wants a timer to stay valid until it expires or is
  stopped; a connection is closed with its timer running, and the next host of the slot
  makes `ble_negotiate_params` create it again, which links it to itself.

Answered by these models, with other values of the constants or another formula
than the runs have:

- `nvm.c:48` promises atomic writes. On the CSR (`RawFails = TRUE`) a raw error
  leads to a bug check whose log overwrites the backup it would have needed:
  `WritesAreAtomic` does not hold there.
- `dfu.c:67` promises a truthful report of a switch. Invalidating or validating
  (`dfu.c:91`, `dfu.c:245`) replaces the record it is made from: without the
  exception for `rewritten`, `SwitchIsReported` does not hold.
- `dfu_service.c:267` allows a write to be split anywhere. `currentPageOffset` is
  not reset after a full page (line 295), so a write that begins right after a
  complete page repeats `ErasePage` and `BurnPage` for ever.
- `time.c:73`: the LED timer of the baseband's bootloader starts itself again in
  its callback, and `timer_trigger` (`time.c:42`) then follows the link it has got
  in the list of running timers and fires those behind it early. With a program whose
  callback is create and start of its own timer, `FiresWhenDue` does not hold.
- `hardware/i2c.h:70` lets a master read from anywhere in a random access
  endpoint; `i2c_slave.c:108` gives it the beginning.
- `hardware/mpu/mpu.h:50` says that `mpu_start` lets the handlers be called
  periodically. Where the I2C master's interrupt does not nest (`Nests = {FALSE}`), no
  packet is ever handled: the model never reaches `callback = "handle"`, and the watchdog
  restarts the device again and again.

Seen while modelling, without a run:

- `time.c:58`: the wrap with an empty list reads through NULL; `time.c:163`: the
  remainder of a stopped timer is wrong across a wrap (`PauseKeepsRemainder` is
  checked without one); `time.c:93`: the longest alarm leaves one tick before a
  wrap is missed.
- `i2c_slave.c:121`: a read calls the endpoint's write function with 0 bytes at
  the repeated start, which invalidates the application if the endpoint is the
  program memory; the status of the write function is dropped.
- `i2c_slave.c:176`: a stop after a bus error still commits; `i2c_slave.c:272`: a
  stop that is overtaken by a start does not.
- `dfu_service.c:231` needs 12 bytes at once where the slave's buffer has 8
  (`i2c_slave.c:57`): the size and the checksum never arrive, and the validation behind
  them finds an empty application, of length and checksum 0, which it accepts whatever
  lies in the memory (`SlaveValidated`).
- `dfu_service.c:316` says that the endpoints that follow map to the current domain; the
  write of program memory is relayed, the validation is not (`dfu_service.c:240`): a
  slave that was updated through the master stays locked until it is validated over the
  raw I2C service, as above.
- `dfu.c:176-180`: the offset of the application is read into the first field of the
  structure, and the field that is passed on was never read.
- `csr/i2c.c`: a read that fails between its address and its second start is taken by the
  slave for a write of no bytes, which is committed (`CommittedOnce` excepts it).
- `dfu.c:209`: the error timeout (comment in line 191) is only looked at when the
  round has succeeded; failing rounds go on until the hold timer expires. The slave's hold of
  five seconds starts with its own reset and races the master's.
- `dfu.c:266`: `dfu_master_enter` finds nothing to do in a slave on hold, which
  then starts its application under a master in DFU mode.
- `dfu.c:263`: a slave that is written to during its hold launches what is left
  (`torn`).
- `dfu_service.c:167` and `178`: the version and the application's name use the register
  of the platform string's length.
- `gatt.c:407`: the status of an endpoint that succeeded becomes 0x80, which
  `gatt.c:432` takes for an error: the access is answered with it and
  `writeComplete` is skipped.
- `ble.c:178`, `ble.c:190`: the index of a bond is not set, and bonds are saved
  and read at different offsets, which one bond hides.
- `ble.c:389`: a pairing whose completion comes after the disconnection leaves a valid
  bond with the keys of one host and the address of another in RAM.
- `gatt.c`: after a disconnection the device advertises slowly, since
  `ble_state_fast_advertising` has the value of `ble_adv_slow`; `ble.c:221`: the interval
  is still 0 when it is compared with the preferred one; a subscription is lost
  with the next reset unless the bond is saved for another reason.
- `invensense_mpu.c:302`: the first packet's quaternion is overwritten by the
  bytes of the command that follows it; `invensense_mpu.c:460`: `mpu_stop` sets
  `running`; `invensense_mpu_reset` reports success after a failure.
- `interrupt.c:29`: an edge between reading the flags and clearing them is lost, and
  each packet lost that way stays in the FIFO in front of the next (`NeverCatchesUp`).
- `motor.h:29`: a speed from 0 to 1 is handed to `pwm_set` as an integer: the
  motors run at 0 or at 1 of 32768, though 1 is documented as the maximum.
- `power.c:46`: a press of more than the watchdog's time restarts the device
  instead of switching it off.
- `overview.txt`: motors that stop when no command has come for a while, and bug
  checks that lead into DFU mode, are not in the code; SAFETY_LIMIT is defined
  in `main.c` only, so `local_uav.c` never sets `inactive`.
- `soft_i2c_master.c:128`: the address loop does not end.

## 7 Not modelled

- *Data*: formats and checksums (a checksum stands for the image it was
  computed from), firmware contents, log texts, floats of the controllers.
- *In the modelled files*: what a torn image or a wrong offset would execute, and what
  writes behind the image destroy;
  the branch for spurious interrupts in `twi_slave_interrupt` and reads of 0
  bytes (the master never makes one); the programming of the baseband's EEPROM
  by the factory bootloader, of which only the effects on the NVM appear; the
  strings of `dfu_service.c` and its relayed reads, which change no state; in `gatt.c` and
  `ble.c` the contents of advertisements, more than one connection or bond, the
  central role (it does not compile) and parameters that are stored and read
  by nobody; in `invensense_mpu.c` the register sequences of the setup; the
  controllers' arithmetic and `uav_service.c`, which only changes their constants.
- *Between the models*: the flight controller's endpoints for flying are not
  connected to `I2cLink`; of the baseband's `i2c_service.c`, through which a host
  reaches every endpoint of the slave directly, `DfuLink` has the accesses to the DFU
  endpoints; what a relayed write to the last registers (0xFFF8 and up) reaches, is left out.
- *Components* without a module are listed in `PROJECT.json` with the reason.
- *Most of the repository's lines* are none of this program's logic: the Atmel
  software framework (`asf/`), a firmware image as a C array
  (`factory_bootloader/bootloader_img.h`), schematics, the C# programs and their user
  interface, and the PC kernel with its drivers, memory manager and file systems, which
  is part of no firmware here. The models cover the greater part of what runs
  on the two processors and is stateful.
