----------------------------- MODULE DfuProofs -----------------------------
(***************************************************************************)
(* What holds of the update of one device for any set of images, any page  *)
(* size and any length of the host's writes, when APP_OFFSET is 0, as the  *)
(* AVR's launch insists, and no command that writes arrives before         *)
(* dfu_init is through.                                                    *)
(***************************************************************************)
EXTENDS Dfu, TLAPS

-----------------------------------------------------------------------------
(* The inductive invariant of a device with APP_OFFSET 0.                  *)

BootableState == info.state \in {"valid", "priority"}

\* The part of the types that the proofs need.
InfoOK == info \in InfoType /\ local \in InfoType

\* A bootable application is whole and where the NVM says.
BootableIsWhole == BootableState => Whole /\ info.offset = AppBase

\* A device whose app info was never written has no application.
ErasedIsEmpty == info.offset = Erased => ~Whole

\* While the RAM remembers an invalidation, the NVM holds it.
InvalidateHolds == didInvalidate => info.state = "invalid" /\ info.offset = 0

\* Where the handlers run, and what has been decided when they do.
HandlerOK ==
  /\ h \in {"none", "launch", "temp", "copy", "erase", "burn"}
  /\ h \in {"copy", "erase", "burn"} => pc = "dfu" /\ didInvalidate
  /\ h = "launch" => pc = "dfu" /\ BootableState
  /\ h = "temp" => pc = "app"

\* What dfu_check_for_app has decided stays true until it is acted upon.
DecisionHolds ==
  /\ pc = "hold" => BootableState
  /\ pc = "unforce" => local = info

\* Only a whole image at the right place is executed.
ExecutesWhole ==
  /\ Executing => Whole /\ local.offset = AppBase
  /\ pc = "app" => magic

IInv ==
  /\ InfoOK
  /\ BootableIsWhole
  /\ ErasedIsEmpty
  /\ InvalidateHolds
  /\ HandlerOK
  /\ DecisionHolds
  /\ ExecutesWhole
  /\ ForcedOnce

\* The definitions the invariant is made of.
USE DEF BootableState, Executing

LEMMA InitiallyErased == ASSUME AppBase = 0 PROVE BlankDevice => ~Whole
<1> SUFFICES ASSUME BlankDevice, NEW x \in Firmware, Holds(x) PROVE FALSE
  BY DEF Whole
<1>1. 0 \in 0 .. AppSize - 1 /\ 0 \in Cell
  BY SizeAssumption DEF Cell, FlashSize
<1>2. flash[0] = Blank
  BY <1>1 DEF BlankDevice, Programmed
<1>3. flash[0] = <<x, 0>>
  BY <1>1 DEF Holds
<1> QED
  BY <1>2, <1>3, ImageAssumption DEF Firmware

LEMMA Initially == ASSUME AppBase = 0 PROVE Init => IInv
<1> SUFFICES ASSUME Init PROVE IInv
  OBVIOUS
<1>1. ASSUME NEW x \in Firmware, flash = Programmed(Image(x)) PROVE Whole
  <2>1. \A c \in 0 .. AppSize - 1 : c \in Cell /\ AppBase + c = c
    BY SizeAssumption DEF Cell, FlashSize
  <2>2. \A c \in 0 .. AppSize - 1 : flash[c] = <<x, c>>
    BY <1>1, <2>1 DEF Programmed, Image
  <2> QED
    BY <2>1, <2>2 DEF Whole, Holds
<1>2. /\ info \in InfoType
      /\ info.state \in {"valid", "priority"} => Whole /\ info.offset = AppBase
      /\ info.offset = Erased => ~Whole
  <2>1. CASE Commissioned
    <3>1. Whole
      BY <1>1, <2>1 DEF Commissioned, Firmware
    <3> QED
      BY <2>1, <3>1 DEF Commissioned, Valid, InfoType, Erased
  <2>2. CASE BlankDevice
    BY <2>2, InitiallyErased DEF BlankDevice, InfoType, Erased
  <2>3. CASE FactoryDevice
    <3>1. Whole
      BY <1>1, <2>3 DEF FactoryDevice, Firmware
    <3> QED
      BY <2>3, <3>1 DEF FactoryDevice, InfoType, Erased
  <2> QED
    BY <2>1, <2>2, <2>3 DEF Init
<1>3. local \in InfoType
  BY DEF Init, Invalid, InfoType
<1> QED
  BY <1>2, <1>3 DEF Init, IInv, InfoOK, BootableIsWhole, ErasedIsEmpty, InvalidateHolds,
     HandlerOK, DecisionHolds, ExecutesWhole, ForcedOnce

\* What the application area holds depends on the program memory only.
LEMMA SameFlash == flash' = flash => (Whole' <=> Whole) /\ (\A x : Holds(x)' <=> Holds(x))
BY DEF Whole, Holds

\* A reset, whatever has become of the NVM before it.
LEMMA ResetPreserves ==
  ASSUME AppBase = 0, IInv, Reset, flash' = flash, info' \in InfoType,
         BootableState' => Whole /\ info'.offset = AppBase,
         info'.offset = Erased => info.offset = Erased
  PROVE  IInv'
<1>1. Whole' <=> Whole
  BY SameFlash
<1>2. local' \in InfoType
  BY DEF Reset, Invalid, InfoType
<1> QED
  BY <1>1, <1>2 DEF IInv, InfoOK, BootableIsWhole, ErasedIsEmpty, InvalidateHolds,
     HandlerOK, DecisionHolds, ExecutesWhole, ForcedOnce, Reset

\* A write of the app info that is cut short.
LEMMA TornPreserves ==
  ASSUME AppBase = 0, IInv, NEW new \in {Valid, Invalid}, Torn(new),
         new = Valid => Whole
  PROVE  IInv'
<1>1. /\ info' \in InfoType
      /\ info'.state = new.state
      /\ info'.offset \in {info.offset, 0}
  <2>1. /\ new.state \in {"valid", "invalid"}
        /\ new.offset = 0
        /\ info \in InfoType
    BY DEF IInv, InfoOK, Valid, Invalid
  <2>2. CASE info' = [info EXCEPT !.state = new.state]
    BY <2>1, <2>2 DEF InfoType
  <2>3. CASE info' = [info EXCEPT !.state = new.state, !.offset = new.offset]
    BY <2>1, <2>3 DEF InfoType
  <2> QED
    BY <2>2, <2>3 DEF Torn
<1>2. info'.offset = Erased => info.offset = Erased
  BY <1>1 DEF Erased
<1>3. BootableState' => Whole /\ info'.offset = AppBase
  <2> SUFFICES ASSUME BootableState' PROVE Whole /\ info'.offset = AppBase
    OBVIOUS
  <2>1. Whole
    BY <1>1 DEF Valid, Invalid
  <2>2. info.offset # Erased
    BY <2>1 DEF IInv, ErasedIsEmpty
  <2>3. info'.offset \in {0, AppBase, Erased}
    BY <1>1 DEF InfoType
  <2> QED
    BY <1>2, <2>1, <2>2, <2>3
<1> QED
  BY <1>1, <1>2, <1>3, ResetPreserves DEF Torn

\* A launch that does not fail, and one that fails the AVR's assertion,
\* whatever offset reaches bootloader_launch_app.
Launched ==
  /\ pc' = "launched"
  /\ h' = "none"
  /\ local' = [info EXCEPT !.offset = 0]
  /\ UNCHANGED <<info, magic, flash, dfuOnHold, dfuDidSwitch, req, page, history>>

Failed == Reset /\ UNCHANGED <<info, magic, flash, history>>

LEMMA LaunchOutcome ==
  ASSUME ChecksOffset = TRUE, NEW offset, bootloader_launch_app(offset)
  PROVE  Launched \/ Failed
BY DEF bootloader_launch_app, Launched, Failed

LEMMA AppLaunchOutcome ==
  ASSUME ChecksOffset = TRUE, dfu_launch_app
  PROVE  Launched \/ Failed
BY LaunchOutcome DEF dfu_launch_app

\* Either way the invariant holds, if what is launched is bootable.
LEMMA LaunchPreserves ==
  ASSUME AppBase = 0, IInv, Launched \/ Failed, BootableState
  PROVE  IInv'
<1>1. CASE Failed
  BY <1>1, ResetPreserves DEF Failed, IInv, InfoOK, BootableIsWhole
<1>2. CASE Launched
  <2>1. info \in InfoType /\ local' \in InfoType /\ local'.offset = 0
    BY <1>2 DEF Launched, IInv, InfoOK, InfoType
  <2>2. Whole' <=> Whole
    BY <1>2, SameFlash DEF Launched
  <2> QED
    BY <1>2, <2>1, <2>2
    DEF Launched, IInv, InfoOK, BootableIsWhole, ErasedIsEmpty, InvalidateHolds,
        HandlerOK, DecisionHolds, ExecutesWhole, ForcedOnce, page, history
<1> QED
  BY <1>1, <1>2

LEMMA Preserved ==
  ASSUME AppBase = 0, QuietBoot = TRUE, ChecksOffset = TRUE, IInv, [Next]_vars
  PROVE  IInv'
<1> USE DEF IInv, BootableIsWhole, ErasedIsEmpty, InvalidateHolds, HandlerOK,
            DecisionHolds, ExecutesWhole, ForcedOnce
<1>type. info \in InfoType /\ local \in InfoType
  BY DEF InfoOK
<1>same. flash' = flash => (Whole' <=> Whole)
  BY SameFlash
<1>consts. /\ Valid \in InfoType /\ Invalid \in InfoType
           /\ Valid.state = "valid" /\ Valid.offset = AppBase /\ ~Valid.forced
           /\ Invalid.state = "invalid" /\ Invalid.offset = 0 /\ ~Invalid.forced
           /\ Erased # 0
  BY DEF Valid, Invalid, InfoType, Erased
<1>1. CASE PowerLoss
  BY <1>1, <1>type, ResetPreserves DEF PowerLoss
<1>2. CASE Boot
  <2>1. /\ info' \in InfoType
        /\ info'.state = info.state
        /\ info'.offset = info.offset
    <3>1. CASE magic
      BY <1>2, <1>type, <3>1 DEF Boot
    <3>2. CASE ~magic
      BY <1>2, <1>type, <3>2 DEF Boot, InfoType
    <3> QED
      BY <3>1, <3>2
  <2> QED
    BY <1>2, <1>type, <1>same, <2>1 DEF Boot, page, history, InfoOK
<1>3. CASE dfu_check_for_app
  <2>1. CASE info.state = "priority" /\ bootloader_launch_app(info.offset)
    BY <2>1, LaunchOutcome, LaunchPreserves
  <2>2. CASE /\ info.state # "priority"
             /\ local' = info
             /\ pc' = IF info.forced THEN "unforce"
                      ELSE IF info.state = "valid" THEN "hold" ELSE "enter"
             /\ UNCHANGED <<info, magic, flash, dfuOnHold, dfuDidSwitch, h, req,
                            page, history>>
    BY <1>3, <1>type, <1>same, <2>2 DEF dfu_check_for_app, page, history, InfoOK
  <2> QED
    BY <1>3, <2>1, <2>2 DEF dfu_check_for_app
<1>4. CASE Unforce
  <2>1. /\ info' \in InfoType
        /\ info'.state = info.state
        /\ info'.offset = info.offset
        /\ ~info'.forced
    BY <1>4, <1>type DEF Unforce, InfoType
  <2> QED
    BY <1>4, <1>type, <1>same, <2>1 DEF Unforce, page, history, InfoOK
<1>5. CASE HoldReleased
  BY <1>5, AppLaunchOutcome, LaunchPreserves DEF HoldReleased
<1>6. CASE HoldTimeout
  BY <1>6, <1>type, <1>same DEF HoldTimeout, page, history, InfoOK
<1>7. CASE EnterDfu
  <2>1. /\ info' \in InfoType
        /\ info'.state = info.state
        /\ info'.offset = info.offset
        /\ info'.forced = info.forced
    BY <1>7, <1>type DEF EnterDfu, DidSwitch, InfoType
  <2> QED
    BY <1>7, <1>type, <1>same, <2>1 DEF EnterDfu, page, InfoOK
<1>8. CASE AppStart
  <2>1. /\ info' \in InfoType
        /\ info'.state = info.state
        /\ info'.offset = info.offset
    <3>1. info' = [info EXCEPT !.last = "app", !.forced = magic /\ @]
      BY <1>8 DEF AppStart
    <3>2. (magic /\ info.forced) \in BOOLEAN
      OBVIOUS
    <3> QED
      BY <1>type, <3>1, <3>2 DEF InfoType
  <2> QED
    BY <1>8, <1>type, <1>same, <2>1 DEF AppStart, page, InfoOK
<1>9. CASE AppReady
  BY <1>9, <1>type, <1>same DEF AppReady, page, history, InfoOK
<1>10. CASE FactoryStart
  BY <1>10, <1>type, <1>same DEF FactoryStart, page, history, InfoOK
<1>11. CASE FactoryDone
  BY <1>11, <1>type, ResetPreserves DEF FactoryDone
<1>12. CASE InfoNone
  BY <1>12, <1>type, <1>same DEF InfoNone, Listening, page, history, InfoOK
<1>13. CASE LaunchFromHandler
  BY <1>13, AppLaunchOutcome, LaunchPreserves DEF LaunchFromHandler
<1>14. CASE LaunchTimeout
  BY <1>14, <1>type, <1>same DEF LaunchTimeout, page, history, InfoOK
<1>15. CASE InfoPerma
  <2>1. CASE /\ info' = Invalid
             /\ rewritten' = TRUE
             /\ h' = IF pc = "app" THEN "temp" ELSE "none"
             /\ UNCHANGED <<magic, flash, pc, local, dfuOnHold, dfuDidSwitch, req,
                            page, ranLast>>
    BY <1>15, <1>type, <1>same, <1>consts, <2>1
    DEF InfoPerma, Listening, page, InfoOK
  <2>2. CASE Torn(Invalid)
    BY <2>2, <1>consts, TornPreserves
  <2> QED
    BY <1>15, <2>1, <2>2 DEF InfoPerma
<1>16. CASE InfoTemp
  <2>1. /\ info' \in InfoType
        /\ info'.state = info.state
        /\ info'.offset = info.offset
    BY <1>16, <1>type DEF InfoTemp, InfoType
  <2> QED
    BY <1>16, <1>type, <2>1, ResetPreserves DEF InfoTemp
<1>17. ASSUME NEW x \in Images, NEW off \in 0 .. HostReach - 1, NEW n \in 0 .. MaxWrite,
              dfu_progmem_handler_w(x, off, n)
       PROVE  IInv'
  <2>1. CASE ~didInvalidate /\ Torn(Invalid)
    BY <2>1, <1>consts, TornPreserves
  <2>2. CASE ~(~didInvalidate /\ Torn(Invalid))
    <3>1. /\ Listening
          /\ info' = IF didInvalidate THEN info ELSE Invalid
          /\ didInvalidate' = TRUE
          /\ h' = "copy"
          /\ UNCHANGED <<magic, flash, pc, local>>
      BY <1>17, <2>2 DEF dfu_progmem_handler_w
    <3>2. /\ info' \in InfoType
          /\ info'.state = "invalid"
          /\ info'.offset = 0
          /\ ~info'.forced
      BY <1>type, <1>consts, <3>1 DEF Listening
    <3> QED
      BY <1>type, <1>same, <1>consts, <3>1, <3>2 DEF Listening, InfoOK
  <2> QED
    BY <2>1, <2>2
<1>18. CASE CopyToPage
  <2>1. h' \in {"erase", "copy"}
    BY <1>18 DEF CopyToPage
  <2> QED
    BY <1>18, <1>type, <1>same, <2>1 DEF CopyToPage, history, InfoOK
<1>19. CASE WriteReturns
  BY <1>19, <1>type, <1>same DEF WriteReturns, page, history, InfoOK
<1>20. CASE ErasePage
  BY <1>20, <1>type, <1>consts DEF ErasePage, page, history, InfoOK
<1>21. CASE BurnPage
  BY <1>21, <1>type, <1>consts DEF BurnPage, page, history, InfoOK
<1>22. ASSUME NEW x \in Images, dfu_progmem_info_handler_c(x) PROVE IInv'
  <2>1. Holds(x) => Whole
    BY DEF Whole, Firmware
  <2>2. CASE Holds(x) /\ Torn(Valid)
    BY <2>1, <2>2, TornPreserves
  <2>3. CASE ~(Holds(x) /\ Torn(Valid))
    <3>1. /\ Listening
          /\ info' = IF Holds(x) THEN Valid ELSE info
          /\ didInvalidate' = (didInvalidate /\ ~Holds(x))
          /\ UNCHANGED <<magic, flash, pc, local, h>>
      BY <1>22, <2>3 DEF dfu_progmem_info_handler_c
    <3>2. CASE Holds(x)
      BY <1>type, <1>same, <1>consts, <2>1, <3>1, <3>2 DEF Listening, InfoOK
    <3>3. CASE ~Holds(x)
      BY <1>type, <1>same, <1>consts, <3>1, <3>3 DEF Listening, InfoOK
    <3> QED
      BY <3>2, <3>3
  <2> QED
    BY <2>2, <2>3
<1>23. CASE UNCHANGED vars
  BY <1>23, <1>type, <1>same DEF vars, InfoOK
<1> QED
  BY <1>1, <1>2, <1>3, <1>4, <1>5, <1>6, <1>7, <1>8, <1>9, <1>10, <1>11, <1>12,
     <1>13, <1>14, <1>15, <1>16, <1>17, <1>18, <1>19, <1>20, <1>21, <1>22, <1>23
  DEF Next, HostWrites, WriteLoop

\* On a device with APP_OFFSET 0 that hears no command before dfu_init is
\* through, the inductive invariant holds: dfu_check_for_app's decision
\* stays true until it is acted upon, and whatever is executed is whole.
THEOREM Invariance == ASSUME AppBase = 0, QuietBoot = TRUE, ChecksOffset = TRUE PROVE Spec => []IInv
<1>1. Init => IInv
  BY Initially
<1>2. IInv /\ [Next]_vars => IInv'
  BY Preserved
<1> QED
  BY <1>1, <1>2, PTL DEF Spec

\* There, the forced flag of dfu_launch_bootloader forces one start only.
THEOREM ForcedOnlyOnce == ASSUME AppBase = 0, QuietBoot = TRUE, ChecksOffset = TRUE PROVE Spec => []ForcedOnce
<1>1. IInv => ForcedOnce
  BY DEF IInv
<1> QED
  BY <1>1, Invariance, PTL

\* There, program memory changes only while the NVM holds "not bootable",
\* so that an update cut short at any point leads back into DFU mode.
THEOREM UpdateLocked == ASSUME AppBase = 0, QuietBoot = TRUE, ChecksOffset = TRUE PROVE Spec => UpdateIsLocked
<1>1. IInv /\ [Next]_vars => [flash' # flash => info.state = "invalid"]_vars
  <2> SUFFICES ASSUME IInv, Next, flash' # flash PROVE info.state = "invalid"
    BY DEF vars
  <2>1. ErasePage \/ BurnPage
    BY DEF Next, HostWrites, WriteLoop, PowerLoss, Boot, dfu_check_for_app,
       dfu_launch_app, bootloader_launch_app, Unforce, HoldReleased, HoldTimeout, EnterDfu, AppStart,
       AppReady, FactoryStart, FactoryDone, InfoNone, LaunchFromHandler, LaunchTimeout,
       InfoPerma, InfoTemp, dfu_progmem_handler_w, CopyToPage, WriteReturns,
       dfu_progmem_info_handler_c, Torn
  <2> QED
    BY <2>1 DEF ErasePage, BurnPage, IInv, HandlerOK, InvalidateHolds
<1> QED
  BY <1>1, Invariance, PTL DEF Spec, UpdateIsLocked

-----------------------------------------------------------------------------
(* The device implements UpdatableDevice.                                  *)

\* The refinement mapping: the image the next start runs ...
App == IF info.state \in {"valid", "priority"} THEN Present ELSE Blank

\* ... and the image that is running.
Running ==
  IF ~Executing THEN Blank ELSE IF local.offset = AppBase THEN Present ELSE Bootloader

LEMMA PresentIsFirmware == Whole => Present \in Firmware /\ Present # Blank
<1>1. Whole => Present \in Firmware
  BY DEF Whole, Present
<1> QED
  BY <1>1, ImageAssumption DEF Firmware

LEMMA SamePresent == flash' = flash => Present' = Present
BY DEF Present, Whole, Holds

AbstractStep == Device!Next \/ (App' = App /\ Running' = Running)

\* A reset stops what is running and leaves the choice of the next start
\* as it is.
LEMMA ResetStops ==
  ASSUME Reset, flash' = flash, info'.state = info.state PROVE AbstractStep
BY SamePresent DEF Reset, AbstractStep, App, Running, Device!Next, Device!Stop, Executing

\* A step of the bootloader that runs nothing and decides nothing.
LEMMA QuietStep ==
  ASSUME flash' = flash, info'.state = info.state, Executing' <=> Executing,
         Executing => local' = local
  PROVE  AbstractStep
BY SamePresent DEF AbstractStep, App, Running

LEMMA StepRefines ==
  ASSUME AppBase = 0, QuietBoot = TRUE, ChecksOffset = TRUE, IInv, [Next]_vars
  PROVE  AbstractStep
<1>type. info \in InfoType
  BY DEF IInv, InfoOK
<1>launch. ASSUME Launched \/ Failed, BootableState, ~Executing PROVE AbstractStep
  <2>0. CASE Failed
    BY <2>0, ResetStops DEF Failed
  <2>1. App = Present /\ App # Blank /\ Running = Blank
    BY <1>launch, PresentIsFirmware
    DEF IInv, BootableIsWhole, App, Running, BootableState
  <2>2. CASE Launched
    <3>1. local'.offset = AppBase
      BY <2>2, <1>type DEF Launched, InfoType
    <3>2. App' = Present /\ Running' = Present
      BY <1>launch, <2>2, <3>1, SamePresent
      DEF Launched, App, Running, BootableState, Executing
    <3> QED
      BY <2>1, <3>2 DEF AbstractStep, Device!Next, Device!Start, App, Running
  <2> QED
    BY <1>launch, <2>0, <2>2 DEF AbstractStep, Device!Next, Device!Start, App, Running
<1>invalid. ASSUME flash' = flash, info'.state = "invalid", Executing' <=> Executing,
                   Executing => local' = local
            PROVE  AbstractStep
  <2>1. App' = Blank /\ Running' = Running
    BY <1>invalid, SamePresent DEF App, Running
  <2> QED
    BY <2>1 DEF AbstractStep, Device!Next, Device!Invalidate, App, Running
<1>torn. ASSUME Torn(Invalid), ~Executing PROVE AbstractStep
  <2>1. info'.state = "invalid"
    BY <1>type, <1>torn DEF Torn, Invalid, InfoType
  <2> QED
    BY <1>torn, <1>invalid, <2>1 DEF Torn, Reset, Executing
<1>install. ASSUME NEW x \in Images, Holds(x), flash' = flash, info'.state = "valid",
                   ~Executing, ~Executing'
            PROVE  AbstractStep
  <2>1. Present \in Firmware /\ Present # Blank
    BY <1>install, PresentIsFirmware DEF Whole, Firmware
  <2>2. App' = Present /\ Running' = Blank /\ Running = Blank
    BY <1>install, SamePresent DEF App, Running
  <2> QED
    BY <2>1, <2>2 DEF AbstractStep, Device!Next, Device!Install, App, Running
<1>1. CASE PowerLoss
  BY <1>1, ResetStops DEF PowerLoss
<1>2. CASE Boot
  <2>1. info'.state = info.state
    BY <1>2, <1>type DEF Boot, InfoType
  <2> QED
    BY <1>2, <2>1, QuietStep DEF Boot, Executing
<1>3. CASE dfu_check_for_app
  <2>1. CASE info.state = "priority" /\ bootloader_launch_app(info.offset)
    BY <1>3, <1>launch, <2>1, LaunchOutcome DEF dfu_check_for_app, BootableState, Executing
  <2>2. CASE UNCHANGED <<info, flash>> /\ pc' \in {"unforce", "hold", "enter"}
    BY <1>3, <2>2, QuietStep DEF dfu_check_for_app, Executing
  <2> QED
    BY <1>3, <2>1, <2>2 DEF dfu_check_for_app
<1>4. CASE Unforce
  <2>1. info'.state = info.state
    BY <1>4, <1>type DEF Unforce, IInv, DecisionHolds, InfoType
  <2> QED
    BY <1>4, <2>1, QuietStep DEF Unforce, Executing
<1>5. CASE HoldReleased
  BY <1>5, <1>launch, AppLaunchOutcome DEF HoldReleased, IInv, DecisionHolds, Executing
<1>6. CASE HoldTimeout
  BY <1>6, QuietStep DEF HoldTimeout, Executing
<1>7. CASE EnterDfu
  <2>1. info'.state = info.state
    BY <1>7, <1>type DEF EnterDfu, DidSwitch, InfoType
  <2> QED
    BY <1>7, <2>1, QuietStep DEF EnterDfu, Executing
<1>8. CASE AppStart
  <2>1. info' = [info EXCEPT !.last = "app", !.forced = magic /\ @]
    BY <1>8 DEF AppStart
  <2>2. info'.state = info.state
    BY <1>type, <2>1 DEF InfoType
  <2> QED
    BY <1>8, <2>2, QuietStep DEF AppStart, Executing
<1>9. CASE AppReady
  BY <1>9, QuietStep DEF AppReady, Executing
<1>10. CASE FactoryStart
  BY <1>10, QuietStep DEF FactoryStart, Executing
<1>11. CASE FactoryDone
  BY <1>11, ResetStops DEF FactoryDone
<1>12. CASE InfoNone
  BY <1>12, QuietStep DEF InfoNone
<1>13. CASE LaunchFromHandler
  BY <1>13, <1>launch, AppLaunchOutcome DEF LaunchFromHandler, IInv, HandlerOK, Executing
<1>14. CASE LaunchTimeout
  BY <1>14, QuietStep DEF LaunchTimeout
<1>15. CASE InfoPerma
  <2>1. CASE info' = Invalid /\ UNCHANGED <<flash, pc, local>>
    BY <1>invalid, <2>1 DEF Invalid, Executing
  <2>2. CASE Torn(Invalid)
    <3>1. ~Executing
      BY <1>15, <2>2 DEF InfoPerma, Listening, Torn, IInv, ExecutesWhole, Executing
    <3> QED
      BY <1>torn, <2>2, <3>1
  <2> QED
    BY <1>15, <2>1, <2>2 DEF InfoPerma
<1>16. CASE InfoTemp
  <2>1. info'.state = info.state
    BY <1>16, <1>type DEF InfoTemp, InfoType
  <2> QED
    BY <1>16, <2>1, ResetStops DEF InfoTemp
<1>17. ASSUME NEW x \in Images, NEW off \in 0 .. HostReach - 1, NEW n \in 0 .. MaxWrite,
              dfu_progmem_handler_w(x, off, n)
       PROVE  AbstractStep
  <2>1. ~Executing
    BY <1>17 DEF dfu_progmem_handler_w, Listening, Executing
  <2>2. CASE Torn(Invalid)
    BY <1>torn, <2>1, <2>2
  <2>3. CASE /\ info' = IF didInvalidate THEN info ELSE Invalid
             /\ UNCHANGED <<flash, pc, local>>
    <3>1. info'.state = "invalid"
      BY <2>3 DEF Invalid, IInv, InvalidateHolds
    <3> QED
      BY <1>invalid, <2>3, <3>1 DEF Executing
  <2> QED
    BY <1>17, <2>2, <2>3 DEF dfu_progmem_handler_w
<1>18. CASE CopyToPage
  BY <1>18, QuietStep DEF CopyToPage, Executing
<1>19. CASE WriteReturns
  BY <1>19, QuietStep DEF WriteReturns, Executing
<1>20. CASE ErasePage \/ BurnPage
  <2>1. info'.state = "invalid" /\ info.state = "invalid" /\ ~Executing /\ ~Executing'
    BY <1>20 DEF ErasePage, BurnPage, IInv, HandlerOK, InvalidateHolds, Executing
  <2> QED
    BY <2>1 DEF AbstractStep, App, Running
<1>21. ASSUME NEW x \in Images, dfu_progmem_info_handler_c(x) PROVE AbstractStep
  <2>1. ~Executing
    BY <1>21 DEF dfu_progmem_info_handler_c, Listening, Executing
  <2>2. CASE Holds(x) /\ Torn(Valid)
    <3>1. info'.state = "valid"
      BY <1>type, <2>2 DEF Torn, Valid, InfoType
    <3> QED
      BY <1>install, <2>1, <2>2, <3>1 DEF Torn, Reset, Executing
  <2>3. CASE /\ info' = IF Holds(x) THEN Valid ELSE info
             /\ UNCHANGED <<flash, pc, local>>
    <3>1. CASE Holds(x)
      BY <1>install, <2>1, <2>3, <3>1 DEF Valid, Executing
    <3>2. CASE ~Holds(x)
      BY <2>3, <3>2, QuietStep DEF Executing
    <3> QED
      BY <3>1, <3>2
  <2> QED
    BY <1>21, <2>2, <2>3 DEF dfu_progmem_info_handler_c
<1>22. CASE UNCHANGED vars
  BY <1>22, QuietStep DEF vars, Executing
<1> QED
  BY <1>1, <1>2, <1>3, <1>4, <1>5, <1>6, <1>7, <1>8, <1>9, <1>10, <1>11, <1>12,
     <1>13, <1>14, <1>15, <1>16, <1>17, <1>18, <1>19, <1>20, <1>21, <1>22
  DEF Next, HostWrites, WriteLoop

\* There, the device implements UpdatableDevice: a mixture of images is
\* never bootable and never runs, and an image is given up before its first
\* byte changes, whatever the host writes and wherever a reset comes.
THEOREM Refinement ==
  ASSUME AppBase = 0, QuietBoot = TRUE, ChecksOffset = TRUE PROVE Spec => IsUpdatableDevice
<1>1. Init => Device!Init
  <2> SUFFICES ASSUME Init PROVE App \in Firmware \cup {Blank} /\ Running = Blank
    BY DEF Device!Init, App, Running
  <2>1. IInv
    BY Initially
  <2> QED
    BY <2>1, PresentIsFirmware
    DEF Init, App, Running, Executing, IInv, BootableIsWhole, BootableState
<1>2. IInv /\ [Next]_vars => [Device!Next]_<<App, Running>>
  BY StepRefines DEF AbstractStep
<1>3. [Device!Next]_<<App, Running>> =>
        [Device!Next]_<<IF info.state \in {"valid", "priority"} THEN Present ELSE Blank,
                        IF ~Executing THEN Blank
                        ELSE IF local.offset = AppBase THEN Present ELSE Bootloader>>
  BY DEF App, Running
<1> QED
  BY <1>1, <1>2, <1>3, Invariance, PTL DEF Spec, IsUpdatableDevice, Device!Spec

-----------------------------------------------------------------------------
(* The loop of dfu_progmem_handler_w: for every device, also one that      *)
(* hears commands before dfu_init is through.                              *)

\* What is left of a write belongs to an image and is no more than the host
\* has sent.
LoopFits ==
  /\ TypeOK
  /\ req.off + req.left <= WriteEnd
  /\ h \in {"copy", "erase", "burn"} => req.img \in Images

LEMMA Reaches == HostReach \in Nat /\ WriteEnd \in Nat /\ AppSize <= HostReach
                 /\ HostReach <= WriteEnd /\ AppSize <= WriteEnd
                 /\ WriteEnd = HostReach + MaxWrite
BY SizeAssumption DEF HostReach, WriteEnd

LEMMA MinOfTwo ==
  ASSUME NEW a \in Nat, NEW b \in Nat
  PROVE  Min({a, b}) \in Nat /\ Min({a, b}) <= a /\ Min({a, b}) <= b
BY DEF Min

LEMMA PageOf ==
  ASSUME NEW n \in Nat, NEW p \in Nat \ {0}
  PROVE  n \div p \in 0 .. n
OBVIOUS

LEMMA CellOfPage ==
  ASSUME NEW c \in Nat, NEW p \in Nat, NEW size \in Nat,
         c >= p * size, c < (p + 1) * size
  PROVE  c - p * size \in 0 .. size - 1
<1>1. (p + 1) * size = p * size + size /\ p * size \in Nat
  OBVIOUS
<1> QED
  BY <1>1

\* A well-typed start, with whatever the device is delivered with.
LEMMA LoopInitially == Init => LoopFits
<1> SUFFICES ASSUME Init PROVE LoopFits
  OBVIOUS
<1>1. ASSUME NEW x \in Firmware PROVE Programmed(Image(x)) \in [Cell -> Content]
  BY SizeAssumption, Reaches DEF Programmed, Image, Cell, FlashSize, Content, Firmware
<1>2. Programmed([c \in 0 .. AppSize - 1 |-> Blank]) \in [Cell -> Content]
  BY SizeAssumption, Reaches DEF Programmed, Cell, FlashSize, Content
<1>3. /\ info \in InfoType /\ magic \in BOOLEAN /\ flash \in [Cell -> Content]
      /\ ranLast \in {"app", "boot", "unknown"}
  <2>1. CASE Commissioned
    BY <1>1, <2>1 DEF Commissioned, Valid, InfoType, Firmware
  <2>2. CASE BlankDevice
    BY <1>2, <2>2 DEF BlankDevice, InfoType
  <2>3. CASE FactoryDevice
    BY <1>1, <2>3 DEF FactoryDevice, InfoType, Firmware
  <2> QED
    BY <2>1, <2>2, <2>3 DEF Init
<1>4. NoReq \in ReqType /\ 0 \in 0 .. WriteEnd /\ 0 \in 0 .. PageSize
  BY SizeAssumption, Reaches DEF NoReq, ReqType
<1>5. [c \in 0 .. PageSize - 1 |-> Blank] \in [0 .. PageSize - 1 -> Content]
  BY DEF Content
<1>6. local \in InfoType
  BY DEF Init, Invalid, InfoType
<1>7. TypeOK
  BY <1>3, <1>4, <1>5, <1>6 DEF Init, TypeOK
<1> QED
  BY <1>7, SizeAssumption, Reaches DEF Init, LoopFits, NoReq

\* A reset leaves the RAM well typed.
LEMMA LoopReset ==
  ASSUME LoopFits, Reset, info' \in InfoType, magic' \in BOOLEAN, flash' = flash,
         UNCHANGED history
  PROVE  LoopFits'
<1>1. NoReq \in ReqType /\ 0 \in 0 .. WriteEnd /\ 0 \in 0 .. PageSize
  BY SizeAssumption, Reaches DEF NoReq, ReqType
<1>2. [c \in 0 .. PageSize - 1 |-> Blank] \in [0 .. PageSize - 1 -> Content]
  BY DEF Content
<1>3. local' \in InfoType
  BY DEF Reset, Invalid, InfoType
<1>4. TypeOK'
  BY <1>1, <1>2, <1>3 DEF LoopFits, TypeOK, Reset, history
<1> QED
  BY <1>4, SizeAssumption, Reaches DEF Reset, LoopFits, NoReq

\* One round of the loop, at any position of the page buffer.
LEMMA LoopRound == ASSUME LoopFits, CopyToPage PROVE LoopFits'
<1> DEFINE n == Min({PageSize - currentPageOffset, req.left})
<1>1. /\ req.img \in Images /\ req \in ReqType /\ req.off \in Nat /\ req.left \in Nat
      /\ req.off + req.left <= WriteEnd /\ req.left <= MaxWrite /\ req.off <= WriteEnd
      /\ currentPageOffset \in Nat /\ currentPageOffset <= PageSize
      /\ pageBuffer \in [0 .. PageSize - 1 -> Content]
      /\ currentPage \in 0 .. WriteEnd
  BY SizeAssumption, Reaches DEF LoopFits, TypeOK, ReqType, CopyToPage
<1>2. n \in Nat /\ n <= PageSize - currentPageOffset /\ n <= req.left
  <2>1. PageSize - currentPageOffset \in Nat
    BY <1>1, SizeAssumption, Reaches
  <2> QED
    BY <1>1, <2>1, MinOfTwo
<1>3. /\ currentPageOffset' = currentPageOffset + n
      /\ req' = [req EXCEPT !.off = @ + n, !.left = @ - n]
      /\ pageBuffer' = [c \in 0 .. PageSize - 1 |->
                          IF c \in currentPageOffset .. currentPageOffset + n - 1
                          THEN <<req.img, req.off + c - currentPageOffset>>
                          ELSE pageBuffer[c]]
      /\ h' \in {"erase", "copy"}
      /\ currentPage' = IF req.off % PageSize = 0 THEN req.off \div PageSize
                        ELSE currentPage
      /\ UNCHANGED <<info, magic, flash, pc, local, dfuOnHold, dfuDidSwitch,
                     didInvalidate, ranLast, rewritten>>
  BY DEF CopyToPage, history
<1> HIDE DEF n
<1>4. currentPageOffset' \in 0 .. PageSize
  BY <1>1, <1>2, <1>3, SizeAssumption, Reaches
<1>5. /\ req' \in ReqType /\ req'.img = req.img
      /\ req'.off = req.off + n /\ req'.left = req.left - n
  <2>1. /\ req'.img = req.img /\ req'.off = req.off + n /\ req'.left = req.left - n
        /\ req' = [img |-> req'.img, off |-> req'.off, left |-> req'.left]
    BY <1>1, <1>3 DEF ReqType
  <2>2. req'.off \in 0 .. WriteEnd /\ req'.left \in 0 .. MaxWrite
    <3>1. WriteEnd \in Nat /\ MaxWrite \in Nat
      BY SizeAssumption, Reaches
    <3>2. req.off + n \in 0 .. WriteEnd /\ req.left - n \in 0 .. MaxWrite
      BY <1>1, <1>2, <3>1
    <3> QED
      BY <2>1, <3>2
  <2> QED
    BY <1>1, <2>1, <2>2 DEF ReqType
<1>6. pageBuffer' \in [0 .. PageSize - 1 -> Content]
  <2> SUFFICES ASSUME NEW c \in currentPageOffset .. currentPageOffset + n - 1
               PROVE  <<req.img, req.off + c - currentPageOffset>> \in Content
    BY <1>1, <1>3
  <2>1. req.off + c - currentPageOffset \in 0 .. WriteEnd - 1
    BY <1>1, <1>2, SizeAssumption, Reaches
  <2> QED
    BY <1>1, <2>1 DEF Content
<1>7. currentPage' \in 0 .. WriteEnd
  <2>1. req.off \div PageSize \in 0 .. req.off
    BY <1>1, PageOf, SizeAssumption, Reaches
  <2> QED
    BY <1>1, <1>3, <2>1, SizeAssumption, Reaches
<1>8. TypeOK'
  BY <1>3, <1>4, <1>5, <1>6, <1>7 DEF LoopFits, TypeOK
<1> QED
  BY <1>1, <1>2, <1>5, <1>8, SizeAssumption, Reaches DEF LoopFits

LEMMA LoopPreserved == LoopFits /\ [Next]_vars => LoopFits'
<1> SUFFICES ASSUME LoopFits, [Next]_vars PROVE LoopFits'
  OBVIOUS
<1> USE DEF LoopFits, TypeOK
<1>type. info \in InfoType /\ local \in InfoType /\ req \in ReqType
  OBVIOUS
<1>consts. /\ Valid \in InfoType /\ Invalid \in InfoType
           /\ NoReq \in ReqType /\ NoReq.off + NoReq.left <= WriteEnd
  BY SizeAssumption, Reaches DEF Valid, Invalid, InfoType, NoReq, ReqType
<1>torn. ASSUME NEW new \in {Valid, Invalid}, Torn(new) PROVE LoopFits'
  <2>1. new.state \in {"valid", "invalid"} /\ new.offset \in {0, AppBase}
    BY DEF Valid, Invalid
  <2>2. info' \in InfoType
    BY <1>type, <1>torn, <2>1 DEF Torn, InfoType
  <2> QED
    BY <1>torn, <2>2, LoopReset DEF Torn
<1>launch. ASSUME NEW offset \in {0, AppBase, Erased}, bootloader_launch_app(offset)
           PROVE  LoopFits'
  <2>1. CASE Failed
    BY <2>1, LoopReset DEF Failed
  <2>2. [info EXCEPT !.offset = offset] \in InfoType
    BY <1>type DEF InfoType
  <2> QED
    BY <1>launch, <2>1, <2>2 DEF bootloader_launch_app, Failed, page, history
<1>1. CASE PowerLoss
  BY <1>1, LoopReset DEF PowerLoss
<1>2. CASE Boot
  <2>1. info' \in InfoType
    BY <1>2, <1>type DEF Boot, InfoType
  <2> QED
    BY <1>2, <2>1 DEF Boot, page, history
<1>3. CASE dfu_check_for_app
  <2>1. CASE info.state = "priority" /\ bootloader_launch_app(info.offset)
    BY <1>launch, <1>type, <2>1 DEF InfoType
  <2> QED
    BY <1>3, <2>1 DEF dfu_check_for_app, page, history
<1>4. CASE Unforce
  <2>1. info' \in InfoType
    BY <1>4, <1>type DEF Unforce, InfoType
  <2> QED
    BY <1>4, <2>1 DEF Unforce, page, history
<1>5. CASE HoldReleased \/ HoldTimeout \/ InfoNone \/ LaunchFromHandler \/ LaunchTimeout
  <2>1. dfu_launch_app => LoopFits'
    BY <1>launch DEF dfu_launch_app
  <2> QED
    BY <1>5, <2>1 DEF HoldReleased, HoldTimeout, InfoNone, LaunchFromHandler,
       LaunchTimeout, page, history
<1>6. CASE EnterDfu
  <2>1. info' \in InfoType
    BY <1>6, <1>type DEF EnterDfu, DidSwitch, InfoType
  <2> QED
    BY <1>6, <2>1 DEF EnterDfu, DidSwitch, page
<1>7. CASE AppStart
  <2>1. info' = [info EXCEPT !.last = "app", !.forced = magic /\ @]
    BY <1>7 DEF AppStart
  <2>2. (magic /\ info.forced) \in BOOLEAN
    OBVIOUS
  <2>3. info' \in InfoType
    BY <1>type, <2>1, <2>2 DEF InfoType
  <2> QED
    BY <1>7, <2>3 DEF AppStart, page
<1>8. CASE AppReady \/ FactoryStart
  BY <1>8 DEF AppReady, FactoryStart, page, history
<1>9. CASE FactoryDone
  BY <1>9, LoopReset DEF FactoryDone, history
<1>10. CASE InfoPerma
  <2>1. CASE /\ info' = Invalid
             /\ rewritten' = TRUE
             /\ h' = IF pc = "app" THEN "temp" ELSE "none"
             /\ UNCHANGED <<magic, flash, pc, local, dfuOnHold, dfuDidSwitch, req,
                            page, ranLast>>
    BY <1>consts, <2>1 DEF page
  <2> QED
    BY <1>10, <1>torn, <2>1 DEF InfoPerma
<1>11. CASE InfoTemp
  <2>1. info' \in InfoType
    BY <1>11, <1>type DEF InfoTemp, InfoType
  <2> QED
    BY <1>11, <2>1, LoopReset DEF InfoTemp
<1>12. ASSUME NEW x \in Images, NEW off \in 0 .. HostReach - 1, NEW n \in 0 .. MaxWrite,
              dfu_progmem_handler_w(x, off, n)
       PROVE  LoopFits'
  <2>1. CASE ~didInvalidate /\ Torn(Invalid)
    BY <1>torn, <2>1
  <2>2. CASE ~(~didInvalidate /\ Torn(Invalid))
    <3>1. /\ info' = IF didInvalidate THEN info ELSE Invalid
          /\ rewritten' = (rewritten \/ ~didInvalidate)
          /\ didInvalidate' = TRUE
          /\ req' = [img |-> x, off |-> off, left |-> n]
          /\ h' = "copy"
          /\ UNCHANGED <<magic, flash, pc, local, dfuOnHold, dfuDidSwitch,
                         currentPage, currentPageOffset, pageBuffer, ranLast>>
      BY <1>12, <2>2 DEF dfu_progmem_handler_w
    <3>2. req' \in ReqType /\ req'.off + req'.left <= WriteEnd /\ req'.img \in Images
      BY <1>12, <3>1, SizeAssumption, Reaches DEF ReqType
    <3>3. info' \in InfoType /\ rewritten' \in BOOLEAN
      BY <1>consts, <3>1
    <3> QED
      BY <3>1, <3>2, <3>3
  <2> QED
    BY <2>1, <2>2
<1>13. CASE CopyToPage
  BY <1>13, LoopRound
<1>14. CASE WriteReturns
  BY <1>14, <1>consts DEF WriteReturns, page, history
<1>15. CASE ErasePage
  <2>1. flash' \in [Cell -> Content]
    BY <1>15 DEF ErasePage, Content
  <2> QED
    BY <1>15, <2>1 DEF ErasePage, page, history
<1>16. CASE BurnPage
  <2>1. ASSUME NEW c \in PageCells PROVE pageBuffer[c - currentPage * PageSize] \in Content
    <3>1. c \in Nat /\ currentPage \in Nat /\ PageSize \in Nat
      BY <2>1, SizeAssumption, Reaches DEF PageCells, Cell, FlashSize
    <3>2. c - currentPage * PageSize \in 0 .. PageSize - 1
      BY <2>1, <3>1, CellOfPage DEF PageCells
    <3> QED
      BY <3>2
  <2>2. flash' \in [Cell -> Content]
    BY <1>16, <2>1 DEF BurnPage
  <2> QED
    BY <1>16, <2>2 DEF BurnPage, page, history
<1>17. ASSUME NEW x \in Images, dfu_progmem_info_handler_c(x) PROVE LoopFits'
  <2>1. CASE Holds(x) /\ Torn(Valid)
    BY <1>torn, <2>1
  <2>2. CASE ~(Holds(x) /\ Torn(Valid))
    <3>1. /\ currentPageOffset' = 0
          /\ info' = IF Holds(x) THEN Valid ELSE info
          /\ rewritten' = (rewritten \/ Holds(x))
          /\ didInvalidate' = (didInvalidate /\ ~Holds(x))
          /\ UNCHANGED <<magic, flash, pc, local, dfuOnHold, dfuDidSwitch, h, req,
                         currentPage, pageBuffer, ranLast>>
      BY <1>17, <2>2 DEF dfu_progmem_info_handler_c
    <3>2. info' \in InfoType
      BY <1>consts, <3>1
    <3>3. currentPageOffset' \in 0 .. PageSize
      BY <3>1, SizeAssumption, Reaches
    <3>4. rewritten' \in BOOLEAN /\ didInvalidate' \in BOOLEAN
      BY <3>1
    <3> QED
      BY <3>1, <3>2, <3>3, <3>4
  <2> QED
    BY <2>1, <2>2
<1>18. CASE UNCHANGED vars
  BY <1>18 DEF vars
<1> QED
  BY <1>1, <1>2, <1>3, <1>4, <1>5, <1>6, <1>7, <1>8, <1>9, <1>10, <1>11, <1>12,
     <1>13, <1>14, <1>15, <1>16, <1>17, <1>18
  DEF Next, HostWrites, WriteLoop

\* Whatever the host writes and in whatever portions, the page buffer is
\* never overrun, what is copied to it lies inside the image and what is
\* burnt comes from the buffer.
THEOREM TypeCorrect == Spec => []TypeOK
<1>1. LoopFits => TypeOK
  BY DEF LoopFits
<1> QED
  BY <1>1, LoopInitially, LoopPreserved, PTL DEF Spec

-----------------------------------------------------------------------------
(* dfu_did_switch.                                                         *)

\* The record in the app info against what has happened: it names who asked
\* last as soon as a start has begun it, a priority application is the factory
\* bootloader, and whatever is launched was bootable.
LastBooks ==
  /\ (magic \/ pc # "off") /\ ~rewritten => info.last = ranLast
  /\ info.state = "priority" =>
       /\ Holds(Factory)
       /\ pc \in {"off", "check", "launched", "factory"}
  /\ info.state = "valid" => \E x \in Images : Holds(x)
  /\ pc \in {"launched", "appInit"} => BootableState

\* The application area holds one image at most.
LEMMA OneImage ==
  ASSUME NEW x \in Firmware, NEW y \in Firmware, Holds(x), Holds(y)
  PROVE  x = y
<1>1. 0 \in 0 .. AppSize - 1
  BY SizeAssumption
<1>2. flash[AppBase + 0] = <<x, 0>> /\ flash[AppBase + 0] = <<y, 0>>
  BY <1>1 DEF Holds
<1> QED
  BY <1>2

LEMMA LastInitially == ASSUME AppBase = 0, Init PROVE LastBooks
<1>1. ASSUME NEW x \in Firmware, flash = Programmed(Image(x)) PROVE Holds(x)
  <2>1. \A c \in 0 .. AppSize - 1 : c \in Cell /\ AppBase + c = c
    BY SizeAssumption DEF Cell, FlashSize
  <2>2. \A c \in 0 .. AppSize - 1 : flash[c] = <<x, c>>
    BY <1>1, <2>1 DEF Programmed, Image
  <2> QED
    BY <2>1, <2>2 DEF Holds
<1>2. CASE Commissioned
  BY <1>1, <1>2 DEF Commissioned, Valid, Firmware, Init, LastBooks
<1>3. CASE BlankDevice
  BY <1>3 DEF BlankDevice, Init, LastBooks
<1>4. CASE FactoryDevice
  BY <1>1, <1>4 DEF FactoryDevice, Firmware, Init, LastBooks
<1> QED
  BY <1>2, <1>3, <1>4 DEF Init

LEMMA LastPreserved ==
  ASSUME AppBase = 0, QuietBoot = TRUE, ChecksOffset = TRUE, IInv, LastBooks, [Next]_vars
  PROVE  LastBooks'
<1> USE DEF LastBooks
<1>type. info \in InfoType /\ local \in InfoType
  BY DEF IInv, InfoOK
<1>same. flash' = flash => (\A x : Holds(x)' <=> Holds(x))
  BY SameFlash
<1>off. ASSUME pc' = "off", flash' = flash, info' = info, ranLast' = ranLast,
               rewritten' = rewritten, magic' = magic
        PROVE  LastBooks'
  BY <1>off, <1>same
<1>launch. ASSUME Launched \/ Failed, BootableState, pc \in {"check", "hold", "dfu"}
           PROVE  LastBooks'
  <2>1. CASE Failed
    BY <1>off, <2>1 DEF Failed, Reset, history
  <2> QED
    BY <1>launch, <1>same, <2>1 DEF Launched, history
<1>torn. ASSUME NEW new \in {Valid, Invalid}, Torn(new),
                new = Valid => \E x \in Images : Holds(x)
         PROVE  LastBooks'
  <2>1. info'.state = new.state
    <3>1. CASE info' = [info EXCEPT !.state = new.state]
      BY <1>type, <3>1 DEF InfoType
    <3>2. CASE info' = [info EXCEPT !.state = new.state, !.offset = new.offset]
      BY <1>type, <3>2 DEF InfoType
    <3> QED
      BY <1>torn, <3>1, <3>2 DEF Torn
  <2>2. pc' = "off" /\ ~magic' /\ flash' = flash
    BY <1>torn DEF Torn, Reset
  <2>3. Valid.state = "valid" /\ Invalid.state = "invalid"
    BY DEF Valid, Invalid
  <2>4. info'.state # "priority" /\ (info'.state = "valid" => new = Valid)
    BY <2>1, <2>3
  <2>5. info'.state = "valid" => \E x \in Images : Holds(x)
    BY <1>torn, <2>4
  <2> QED
    BY <1>same, <2>2, <2>4, <2>5
<1>1. CASE PowerLoss
  BY <1>1, <1>off DEF PowerLoss, Reset, history
<1>2. CASE Boot
  <2>1. info'.state = info.state /\ (magic => info' = info)
        /\ (~magic => info'.last = "unknown")
    BY <1>2, <1>type DEF Boot, InfoType
  <2>2. /\ pc = "off" /\ pc' = "check" /\ UNCHANGED <<magic, flash, rewritten>>
        /\ ranLast' = IF magic THEN ranLast ELSE "unknown"
    BY <1>2 DEF Boot
  <2> QED
    BY <1>same, <2>1, <2>2
<1>3. CASE dfu_check_for_app
  <2>1. CASE info.state = "priority" /\ bootloader_launch_app(info.offset)
    BY <1>3, <1>launch, <2>1, LaunchOutcome DEF dfu_check_for_app
  <2>2. CASE info.state # "priority" /\ pc' \in {"unforce", "hold", "enter"}
             /\ UNCHANGED <<info, magic, flash, history>>
    BY <1>3, <1>same, <2>2 DEF dfu_check_for_app, history
  <2> QED
    BY <1>3, <2>1, <2>2 DEF dfu_check_for_app
<1>4. CASE Unforce
  <2>1. local = info /\ info.state # "priority"
    BY <1>4 DEF Unforce, IInv, DecisionHolds
  <2>2. info'.state = info.state /\ info'.last = info.last
    BY <1>4, <1>type, <2>1 DEF Unforce, InfoType
  <2> QED
    BY <1>4, <1>same, <2>1, <2>2 DEF Unforce, history
<1>5. CASE HoldReleased
  BY <1>5, <1>launch, AppLaunchOutcome DEF HoldReleased, IInv, DecisionHolds
<1>6. CASE HoldTimeout
  BY <1>6, <1>same DEF HoldTimeout, history
<1>7. CASE EnterDfu
  <2>1. info'.state = info.state /\ info'.last = "boot" /\ ranLast' = "boot"
    BY <1>7, <1>type DEF EnterDfu, DidSwitch, InfoType
  <2> QED
    BY <1>7, <1>same, <2>1 DEF EnterDfu
<1>8. CASE AppStart
  <2>1. info' = [info EXCEPT !.last = "app", !.forced = magic /\ @]
    BY <1>8 DEF AppStart
  <2>2. info'.state = info.state /\ info'.last = "app" /\ ranLast' = "app"
    BY <1>8, <1>type, <2>1 DEF AppStart, InfoType
  <2>3. PICK x \in Images : Holds(x)
    BY <1>8 DEF AppStart
  <2>4. ~Holds(Factory)
    BY <2>3, OneImage, ImageAssumption DEF Firmware
  <2> QED
    BY <1>8, <1>same, <2>2, <2>4 DEF AppStart
<1>9. CASE AppReady
  <2>1. info.state # "priority" /\ (~rewritten => info.last = ranLast)
    BY <1>9 DEF AppReady
  <2> QED
    BY <1>9, <1>same, <2>1 DEF AppReady, history
<1>10. CASE FactoryStart
  <2>1. Holds(Factory) /\ BootableState
    BY <1>10 DEF FactoryStart
  <2>2. info.state # "valid"
    BY <2>1, OneImage, ImageAssumption DEF Firmware
  <2> QED
    BY <1>10, <1>same, <2>1, <2>2 DEF FactoryStart, history
<1>11. CASE FactoryDone
  BY <1>11, <1>same DEF FactoryDone, Reset
<1>12. CASE InfoNone
  BY <1>12, <1>same DEF InfoNone, Listening, history
<1>13. CASE LaunchFromHandler
  BY <1>13, <1>launch, AppLaunchOutcome DEF LaunchFromHandler, IInv, HandlerOK
<1>14. CASE LaunchTimeout
  BY <1>14, <1>same DEF LaunchTimeout, history
<1>15. CASE InfoPerma
  <2>1. CASE info' = Invalid /\ rewritten' = TRUE /\ UNCHANGED <<magic, flash, pc>>
    <3>1. pc \notin {"launched", "appInit"} /\ info'.state = "invalid"
      BY <1>15, <2>1 DEF InfoPerma, Listening, Invalid
    <3> QED
      BY <2>1, <3>1
  <2>2. CASE Torn(Invalid)
    BY <1>torn, <2>2 DEF Valid, Invalid
  <2> QED
    BY <1>15, <2>1, <2>2 DEF InfoPerma
<1>16. CASE InfoTemp
  <2>1. info'.state = info.state /\ info'.last = info.last
    BY <1>16, <1>type DEF InfoTemp, InfoType
  <2> QED
    BY <1>16, <1>same, <2>1 DEF InfoTemp, Reset, history
<1>17. ASSUME NEW x \in Images, NEW off \in 0 .. HostReach - 1, NEW n \in 0 .. MaxWrite,
              dfu_progmem_handler_w(x, off, n)
       PROVE  LastBooks'
  <2>1. CASE ~didInvalidate /\ Torn(Invalid)
    BY <1>torn, <2>1 DEF Valid, Invalid
  <2>2. CASE /\ info' = IF didInvalidate THEN info ELSE Invalid
             /\ rewritten' = (rewritten \/ ~didInvalidate)
             /\ UNCHANGED <<magic, flash, pc, ranLast>>
    <3>1. pc = "dfu" /\ info'.state = "invalid"
      BY <1>17, <2>2
      DEF dfu_progmem_handler_w, Listening, Invalid, IInv, InvalidateHolds
    <3>2. ~rewritten' => info' = info /\ ~rewritten
      BY <2>2
    <3> QED
      BY <2>2, <3>1, <3>2
  <2> QED
    BY <1>17, <2>1, <2>2 DEF dfu_progmem_handler_w
<1>18. CASE CopyToPage \/ WriteReturns
  BY <1>18, <1>same DEF CopyToPage, WriteReturns, history
<1>19. CASE ErasePage \/ BurnPage
  <2>1. info.state = "invalid" /\ pc = "dfu"
    BY <1>19 DEF ErasePage, BurnPage, IInv, HandlerOK, InvalidateHolds
  <2> QED
    BY <1>19, <2>1 DEF ErasePage, BurnPage, history
<1>20. ASSUME NEW x \in Images, dfu_progmem_info_handler_c(x) PROVE LastBooks'
  <2>1. CASE Holds(x) /\ Torn(Valid)
    BY <1>torn, <2>1
  <2>2. CASE /\ info' = IF Holds(x) THEN Valid ELSE info
             /\ rewritten' = (rewritten \/ Holds(x))
             /\ UNCHANGED <<magic, flash, pc, ranLast>>
    <3>1. pc = "dfu"
      BY <1>20 DEF dfu_progmem_info_handler_c, Listening
    <3>2. CASE Holds(x)
      BY <1>same, <2>2, <3>1, <3>2 DEF Valid
    <3>3. CASE ~Holds(x)
      BY <1>same, <2>2, <3>1, <3>3
    <3> QED
      BY <3>2, <3>3
  <2> QED
    BY <1>20, <2>1, <2>2 DEF dfu_progmem_info_handler_c
<1>21. CASE UNCHANGED vars
  BY <1>21, <1>same DEF vars
<1> QED
  BY <1>1, <1>2, <1>3, <1>4, <1>5, <1>6, <1>7, <1>8, <1>9, <1>10, <1>11, <1>12,
     <1>13, <1>14, <1>15, <1>16, <1>17, <1>18, <1>19, <1>20, <1>21
  DEF Next, HostWrites, WriteLoop

\* On a device with APP_OFFSET 0 that hears no command before dfu_init is
\* through: unless the app info has been replaced since, the bootloader and
\* the application report a switch exactly if the other one asked last.
THEOREM SwitchReported ==
  ASSUME AppBase = 0, QuietBoot = TRUE, ChecksOffset = TRUE PROVE Spec => SwitchIsReported
<1>1. Spec => []LastBooks
  BY LastInitially, LastPreserved, Invariance, PTL DEF Spec
<1>2. LastBooks /\ [Next]_vars =>
        [(pc = "enter" /\ pc' = "dfu" /\ magic /\ ~rewritten
            => dfuDidSwitch' = (ranLast # "boot"))
         /\ (pc = "launched" /\ pc' = "appInit" /\ magic /\ ~rewritten
            => dfuDidSwitch' = (ranLast # "app"))]_vars
  <2> SUFFICES ASSUME LastBooks, Next, magic, ~rewritten
               PROVE  /\ pc = "enter" /\ pc' = "dfu" => dfuDidSwitch' = (ranLast # "boot")
                      /\ pc = "launched" /\ pc' = "appInit"
                           => dfuDidSwitch' = (ranLast # "app")
    OBVIOUS
  <2>1. info.last = ranLast
    BY DEF LastBooks
  <2>2. ASSUME pc = "enter", pc' = "dfu" PROVE EnterDfu
    BY <2>2 DEF Next, HostWrites, WriteLoop, PowerLoss, Boot, dfu_check_for_app,
       dfu_launch_app, bootloader_launch_app, Unforce, HoldReleased, HoldTimeout, AppStart,
       AppReady, FactoryStart, FactoryDone, InfoNone, LaunchFromHandler, LaunchTimeout,
       InfoPerma, InfoTemp, dfu_progmem_handler_w, CopyToPage, WriteReturns, ErasePage,
       BurnPage, dfu_progmem_info_handler_c, Torn, Reset
  <2>3. ASSUME pc = "launched", pc' = "appInit" PROVE AppStart
    BY <2>3 DEF Next, HostWrites, WriteLoop, PowerLoss, Boot, dfu_check_for_app,
       dfu_launch_app, bootloader_launch_app, Unforce, HoldReleased, HoldTimeout, EnterDfu,
       AppReady, FactoryStart, FactoryDone, InfoNone, LaunchFromHandler, LaunchTimeout,
       InfoPerma, InfoTemp, dfu_progmem_handler_w, CopyToPage, WriteReturns, ErasePage,
       BurnPage, dfu_progmem_info_handler_c, Torn, Reset
  <2>4. EnterDfu => dfuDidSwitch' = (ranLast # "boot")
    BY <2>1 DEF EnterDfu, DidSwitch
  <2>5. AppStart => dfuDidSwitch' = (ranLast # "app")
    BY <2>1 DEF AppStart
  <2> QED
    BY <2>2, <2>3, <2>4, <2>5
<1> QED
  BY <1>1, <1>2, PTL DEF Spec, SwitchIsReported
=============================================================================
