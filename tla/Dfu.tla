-------------------------------- MODULE Dfu --------------------------------
(***************************************************************************)
(* system/dfu.c and services/dfu_service.c on one device: the bootloader's *)
(* decision to launch the application or to stay in DFU mode, and the      *)
(* update of the application over the endpoints of the DFU service.        *)
(*                                                                         *)
(* The main context runs dfu_init.  An endpoint handler runs in the        *)
(* interrupt of the I2C slave (flight controller) or in the BLE callback   *)
(* (baseband); while it runs the main context stands still.  The device    *)
(* may be reset at every step: the supply fails or the watchdog bites.     *)
(***************************************************************************)
EXTENDS Integers, FiniteSetsExt

CONSTANTS
  Images,      \* the firmware images the host may send
  Factory,     \* the factory bootloader of the flight controller
  Blank,       \* what a cell of program memory holds after an erase
  Bootloader,  \* a cell of the bootloader's own image
  AppBase,     \* APP_OFFSET, in cells
  PageSize,    \* PMEM_PAGESIZE, in cells
  AppSize,     \* cells of an application image, padded to pages
  MaxWrite,    \* the longest write of the host, in cells
  QuietBoot,   \* no command that writes comes before dfu_init is through
  ChecksOffset,\* bootloader_launch_app insists on an offset of 0 (AVR)
  Origins      \* how the device comes into the user's hands

FlashSize == AppBase + AppSize

\* The host's writes start before this cell, one page behind the image; all
\* of them end before the next one.
HostReach == AppSize + PageSize
WriteEnd == HostReach + MaxWrite

ASSUME SizeAssumption ==
  /\ AppBase \in Nat
  /\ PageSize \in Nat \ {0}
  /\ AppSize \in Nat \ {0}
  /\ AppSize % PageSize = 0
  /\ MaxWrite \in Nat
ASSUME ImageAssumption ==
  /\ Images # {} /\ Factory \notin Images
  /\ Blank \notin Images \cup {Factory}
  /\ \A x \in Images \cup {Factory} : <<x, 0>> # Blank
ASSUME PlatformAssumption == QuietBoot \in BOOLEAN /\ ChecksOffset \in BOOLEAN
ASSUME OriginAssumption == Origins \subseteq {"commissioned", "blank", "factory"}

VARIABLES
  info,        \* app_info_t in the NVM: [state, offset, forced, last]
  magic,       \* the NVM has been declared initialised
  flash,       \* the program memory that pmem_* addresses, one cell each
  pc,          \* what the main context is doing
  local,       \* the copy of app_info_t on the stack of dfu_check_for_app
  dfuOnHold,   \* the flag of dfu.c: dfu_init has not finished
  dfuDidSwitch,\* the result of dfu_did_switch at this start
  h,           \* what the endpoint handler is doing
  req,         \* the arguments of the running dfu_progmem_handler_w
  didInvalidate, currentPage, currentPageOffset, pageBuffer,
  ranLast,     \* history: the mode in which dfu_did_switch ran last since
               \* dfu_init_nvm began the record
  rewritten    \* history: app_info_t was replaced as a whole since then

nvm == <<info, magic>>
page == <<didInvalidate, currentPage, currentPageOffset, pageBuffer>>
history == <<ranLast, rewritten>>
vars == <<info, magic, flash, pc, local, dfuOnHold, dfuDidSwitch, h, req,
          didInvalidate, currentPage, currentPageOffset, pageBuffer,
          ranLast, rewritten>>

Cell == 0 .. FlashSize - 1
Content == ((Images \cup {Factory}) \X (0 .. WriteEnd - 1))
             \cup {Blank, Bootloader}
Erased == -1                 \* appOffset of an EEPROM never written

InfoType ==
  [state : {"priority", "valid", "invalid", "erased"},
   offset : {0, AppBase, Erased},
   forced : BOOLEAN,
   last : {"app", "boot", "unknown"}]

ReqType == [img : Images \cup {Blank}, off : 0 .. WriteEnd, left : 0 .. MaxWrite]

NoReq == [img |-> Blank, off |-> 0, left |-> 0]

\* The application area holds image x as a whole.
Holds(x) == \A c \in 0 .. AppSize - 1 : flash[AppBase + c] = <<x, c>>

-----------------------------------------------------------------------------
(* Writing app_info_t.  nvm_write is atomic in an initialised NVM (module  *)
(* Nvm); otherwise a reset may leave the words before the break written.   *)

\* What dfu_invalidate_app and dfu_validate_app write.
Invalid == [state |-> "invalid", offset |-> 0, forced |-> FALSE, last |-> "app"]

Valid == [state |-> "valid", offset |-> AppBase, forced |-> FALSE, last |-> "app"]

\* RAM after a reset.
Reset ==
  /\ pc' = "off"
  /\ h' = "none"
  /\ local' = Invalid
  /\ req' = NoReq
  /\ dfuOnHold' = TRUE
  /\ dfuDidSwitch' = FALSE
  /\ didInvalidate' = FALSE
  /\ currentPage' = 0
  /\ currentPageOffset' = 0
  /\ pageBuffer' = [c \in 0 .. PageSize - 1 |-> Blank]

Torn(new) ==
  /\ ~magic
  /\ \/ info' = [info EXCEPT !.state = new.state]
     \/ info' = [info EXCEPT !.state = new.state, !.offset = new.offset]
  /\ Reset
  /\ UNCHANGED <<magic, flash, history>>

-----------------------------------------------------------------------------
(* The bootloader's start: avr_init / AppInit and dfu_init.                *)

PowerLoss ==
  /\ pc # "off"
  /\ Reset
  /\ UNCHANGED <<info, magic, flash, history>>

\* nvm_init has run, and dfu_init_nvm if the NVM is not initialised; a
\* bootloader that is not itself intact does not start.
Boot ==
  /\ pc = "off"
  /\ \A c \in 0 .. AppBase - 1 : flash[c] = Bootloader
  /\ pc' = "check"
  /\ info' = IF magic THEN info ELSE [info EXCEPT !.forced = FALSE, !.last = "unknown"]
  /\ ranLast' = IF magic THEN ranLast ELSE "unknown"
  /\ UNCHANGED <<magic, flash, local, dfuOnHold, dfuDidSwitch, h, req, page, rewritten>>

\* The program memory at the offset takes over; the AVR's assertion fails for
\* any offset but 0, which is a bug check: the device is reset.
bootloader_launch_app(offset) ==
  \/ /\ ChecksOffset => offset = 0
     /\ pc' = "launched"
     /\ h' = "none"
     /\ local' = [info EXCEPT !.offset = offset]
     /\ UNCHANGED <<info, magic, flash, dfuOnHold, dfuDidSwitch, req, page, history>>
  \/ /\ ChecksOffset /\ offset # 0
     /\ Reset
     /\ UNCHANGED <<info, magic, flash, history>>

\* The offset is read over the first field of the structure on the stack;
\* the field that is passed on was never written.
dfu_launch_app == \E offset \in {0, AppBase, Erased} : bootloader_launch_app(offset)

\* dfu_check_for_app, called by dfu_init, up to the decision.
dfu_check_for_app ==
  /\ pc = "check"
  /\ h = "none"
  /\ \/ info.state = "priority" /\ bootloader_launch_app(info.offset)
     \/ /\ info.state # "priority"
        /\ local' = info
        /\ pc' = IF info.forced THEN "unforce"
                 ELSE IF info.state = "valid" THEN "hold" ELSE "enter"
        /\ UNCHANGED <<info, magic, flash, dfuOnHold, dfuDidSwitch, h, req,
                       page, history>>

\* Slip: the flag is never cleared.
Unforce_KeepsFlag ==
  /\ pc = "unforce"
  /\ h = "none"
  /\ pc' = "enter"
  /\ UNCHANGED <<info, magic, flash, local, dfuOnHold, dfuDidSwitch, h, req, page,
                 history>>

\* ... the forced flag is cleared: the copy on the stack is written back.
Unforce ==
  /\ pc = "unforce"
  /\ h = "none"
  /\ info' = [local EXCEPT !.forced = FALSE]
  /\ pc' = "enter"
  /\ UNCHANGED <<magic, flash, local, dfuOnHold, dfuDidSwitch, h, req, page, history>>

\* dfu_try_launch_app in dfu_init: the hold condition has gone.
HoldReleased == pc = "hold" /\ h = "none" /\ dfu_launch_app

\* ... or it has lasted for five seconds.
HoldTimeout ==
  /\ pc = "hold"
  /\ h = "none"
  /\ pc' = "enter"
  /\ UNCHANGED <<info, magic, flash, local, dfuOnHold, dfuDidSwitch, h, req,
                 page, history>>

\* Slip: the mode is compared and not stored.
DidSwitch_NotStored(mode) ==
  /\ dfuDidSwitch' = (info.last # mode)
  /\ info' = info
  /\ ranLast' = mode
  /\ rewritten' = FALSE

\* dfu_did_switch in the given mode.
DidSwitch(mode) ==
  /\ dfuDidSwitch' = (info.last # mode)
  /\ info' = [info EXCEPT !.last = mode]
  /\ ranLast' = mode
  /\ rewritten' = FALSE

\* The rest of dfu_init: the device is in DFU mode.
EnterDfu ==
  /\ pc = "enter"
  /\ h = "none"
  /\ DidSwitch("boot")
  /\ dfuOnHold' = FALSE
  /\ pc' = "dfu"
  /\ UNCHANGED <<magic, flash, local, h, req, page>>

-----------------------------------------------------------------------------
(* The application's start.                                                *)

\* An image of the firmware starts: dfu_init_nvm if need be, dfu_did_switch.
\* What a torn image or a wrong offset would execute is not modelled.
AppStart ==
  /\ pc = "launched"
  /\ local.offset = AppBase
  /\ \E x \in Images : Holds(x)
  /\ LET last == IF magic THEN info.last ELSE "unknown" IN
     /\ dfuDidSwitch' = (last # "app")
     /\ info' = [info EXCEPT !.last = "app", !.forced = magic /\ @]
     /\ ranLast' = "app"
     /\ rewritten' = FALSE
  /\ pc' = "appInit"
  /\ dfuOnHold' = FALSE
  /\ UNCHANGED <<magic, flash, local, h, req, page>>

\* nvm_data_init, after which the application runs.
AppReady ==
  /\ pc = "appInit"
  /\ magic' = TRUE
  /\ pc' = "app"
  /\ UNCHANGED <<info, flash, local, dfuOnHold, dfuDidSwitch, h, req, page, history>>

\* The factory bootloader has no DFU support: its avr_init only declares
\* the NVM initialised.
FactoryStart ==
  /\ pc = "launched"
  /\ local.offset = AppBase
  /\ Holds(Factory)
  /\ magic' = TRUE
  /\ pc' = "factory"
  /\ UNCHANGED <<info, flash, local, dfuOnHold, dfuDidSwitch, h, req, page, history>>

\* The baseband has been programmed: the magic number is trashed, a reset.
FactoryDone ==
  /\ pc = "factory"
  /\ magic' = FALSE
  /\ info' = info
  /\ Reset
  /\ UNCHANGED <<flash, ranLast, rewritten>>

-----------------------------------------------------------------------------
(* dfu_info.  Reading it in DFU mode changes nothing: there is neither a   *)
(* priority application nor a forced flag at that point.  While dfuOnHold  *)
(* is set it is answered with DFU_STATE_HOLD, and DFU_STATE_NONE is        *)
(* refused: neither changes anything, so they are no steps here.           *)

\* A command that writes can reach the bootloader.
Listening ==
  /\ h = "none"
  /\ pc = "dfu" \/ (~QuietBoot /\ pc \in {"check", "unforce", "hold", "enter"})

\* dfu_info_handler_c, DFU_STATE_NONE: the host asks for the application.
InfoNone ==
  /\ Listening
  /\ ~dfuOnHold
  /\ info.state = "valid"
  /\ h' = "launch"
  /\ UNCHANGED <<info, magic, flash, pc, local, dfuOnHold, dfuDidSwitch, req,
                 page, history>>

LaunchFromHandler == h = "launch" /\ dfu_launch_app

LaunchTimeout ==
  /\ h = "launch"
  /\ h' = "none"
  /\ UNCHANGED <<info, magic, flash, pc, local, dfuOnHold, dfuDidSwitch, req,
                 page, history>>

\* DFU_STATE_PERMA: the application is invalidated ...
InfoPerma ==
  /\ Listening \/ (pc = "app" /\ h = "none")
  /\ \/ /\ info' = Invalid
        /\ rewritten' = TRUE
        /\ h' = IF pc = "app" THEN "temp" ELSE "none"
        /\ UNCHANGED <<magic, flash, pc, local, dfuOnHold, dfuDidSwitch, req,
                       page, ranLast>>
     \/ Torn(Invalid)

\* ... and, as with DFU_STATE_TEMP, the application launches the bootloader.
InfoTemp ==
  /\ pc = "app"
  /\ h \in {"none", "temp"}
  /\ info' = [info EXCEPT !.forced = TRUE]
  /\ Reset
  /\ UNCHANGED <<magic, flash, history>>

-----------------------------------------------------------------------------
(* dfu_progmem and dfu_progmem_info.                                       *)

\* Slip: the application is not invalidated.
dfu_progmem_handler_w_NoInvalidate(x, off, n) ==
  /\ Listening
  /\ didInvalidate' = TRUE
  /\ req' = [img |-> x, off |-> off, left |-> n]
  /\ h' = "copy"
  /\ UNCHANGED <<info, magic, flash, pc, local, dfuOnHold, dfuDidSwitch,
                 currentPage, currentPageOffset, pageBuffer, history>>

\* The host writes n cells of image x from cell `off` on.
dfu_progmem_handler_w(x, off, n) ==
  /\ Listening
  /\ \/ /\ info' = IF didInvalidate THEN info ELSE Invalid
        /\ rewritten' = (rewritten \/ ~didInvalidate)
        /\ didInvalidate' = TRUE
        /\ req' = [img |-> x, off |-> off, left |-> n]
        /\ h' = "copy"
        /\ UNCHANGED <<magic, flash, pc, local, dfuOnHold, dfuDidSwitch,
                       currentPage, currentPageOffset, pageBuffer, ranLast>>
     \/ ~didInvalidate /\ Torn(Invalid)

\* The parameter checks at the head of the loop.
InSequence ==
  /\ currentPageOffset % PageSize = req.off % PageSize
  /\ req.off % PageSize # 0 => req.off \div PageSize = currentPage

\* Slip: the round takes everything that is left.
CopyToPage_NoLimit ==
  /\ h = "copy"
  /\ req.left > 0
  /\ InSequence
  /\ currentPageOffset' = currentPageOffset + req.left
  /\ req' = [req EXCEPT !.off = @ + req.left, !.left = 0]
  /\ h' = IF (currentPageOffset + req.left) % PageSize = 0 THEN "erase" ELSE "copy"
  /\ currentPage' = req.off \div PageSize
  /\ UNCHANGED <<info, magic, flash, pc, local, dfuOnHold, dfuDidSwitch,
                 didInvalidate, pageBuffer, history>>

\* One round of the loop: as much as fits goes to the page buffer.
CopyToPage ==
  /\ h = "copy"
  /\ req.left > 0
  /\ InSequence
  /\ LET n == Min({PageSize - currentPageOffset, req.left})
         here == currentPageOffset .. currentPageOffset + n - 1
     IN /\ pageBuffer' = [c \in 0 .. PageSize - 1 |->
                            IF c \in here
                            THEN <<req.img, req.off + c - currentPageOffset>>
                            ELSE pageBuffer[c]]
        /\ currentPageOffset' = currentPageOffset + n
        /\ req' = [req EXCEPT !.off = @ + n, !.left = @ - n]
        /\ h' = IF (currentPageOffset + n) % PageSize = 0 THEN "erase" ELSE "copy"
  /\ currentPage' = IF req.off % PageSize = 0 THEN req.off \div PageSize
                    ELSE currentPage
  /\ UNCHANGED <<info, magic, flash, pc, local, dfuOnHold, dfuDidSwitch,
                 didInvalidate, history>>

\* The loop ends: nothing is left or the write is out of sequence.
WriteReturns ==
  /\ h = "copy"
  /\ req.left = 0 \/ ~InSequence
  /\ h' = "none"
  /\ req' = NoReq
  /\ UNCHANGED <<info, magic, flash, pc, local, dfuOnHold, dfuDidSwitch, page,
                 history>>

\* The cells of page currentPage as pmem_write_page counts them.
PageCells ==
  {c \in Cell : c >= currentPage * PageSize /\ c < (currentPage + 1) * PageSize}

\* pmem_write_page erases the page ...
ErasePage ==
  /\ h = "erase"
  /\ flash' = [c \in Cell |-> IF c \in PageCells THEN Blank ELSE flash[c]]
  /\ h' = "burn"
  /\ UNCHANGED <<info, magic, pc, local, dfuOnHold, dfuDidSwitch, req, page,
                 history>>

\* ... and writes the buffer.
BurnPage ==
  /\ h = "burn"
  /\ flash' = [c \in Cell |-> IF c \in PageCells
                              THEN pageBuffer[c - currentPage * PageSize]
                              ELSE flash[c]]
  /\ h' = "copy"
  /\ UNCHANGED <<info, magic, pc, local, dfuOnHold, dfuDidSwitch, req, page,
                 history>>

\* Slip: the result of the validation is ignored.
dfu_progmem_info_handler_c_Unchecked(x) ==
  /\ Listening
  /\ currentPageOffset' = 0
  /\ info' = Valid
  /\ rewritten' = TRUE
  /\ didInvalidate' = FALSE
  /\ UNCHANGED <<magic, flash, pc, local, dfuOnHold, dfuDidSwitch, h, req,
                 currentPage, pageBuffer, ranLast>>

\* dfu_progmem_info_handler_w and _c: the host names the checksum of x.
dfu_progmem_info_handler_c(x) ==
  /\ Listening
  /\ \/ /\ currentPageOffset' = 0
        /\ info' = IF Holds(x) THEN Valid ELSE info
        /\ rewritten' = (rewritten \/ Holds(x))
        /\ didInvalidate' = (didInvalidate /\ ~Holds(x))
        /\ UNCHANGED <<magic, flash, pc, local, dfuOnHold, dfuDidSwitch, h, req,
                       currentPage, pageBuffer, ranLast>>
     \/ Holds(x) /\ Torn(Valid)

-----------------------------------------------------------------------------
\* Program memory with the bootloader in front and `content` as application.
Programmed(content) ==
  [c \in Cell |-> IF c < AppBase THEN Bootloader ELSE content[c - AppBase]]

Image(x) == [c \in 0 .. AppSize - 1 |-> <<x, c>>]

\* The device has run its application and has been switched off, ...
Commissioned ==
  /\ info = Valid
  /\ magic = TRUE
  /\ \E x \in Images : flash = Programmed(Image(x))
  /\ ranLast = "app"

\* ... only its bootloader has been programmed, ...
BlankDevice ==
  /\ info = [state |-> "erased", offset |-> Erased, forced |-> FALSE, last |-> "unknown"]
  /\ magic = FALSE
  /\ flash = Programmed([c \in 0 .. AppSize - 1 |-> Blank])
  /\ ranLast = "unknown"

\* ... or the factory bootloader has been programmed as its application and
\* the NVM, whatever else it holds, says that it must run.
FactoryDevice ==
  /\ info \in {i \in InfoType : i.state = "priority" /\ i.offset = 0}
  /\ magic \in BOOLEAN
  /\ flash = Programmed(Image(Factory))
  /\ ranLast = IF magic THEN info.last ELSE "unknown"

Init ==
  /\ \/ "commissioned" \in Origins /\ Commissioned
     \/ "blank" \in Origins /\ BlankDevice
     \/ "factory" \in Origins /\ FactoryDevice
  /\ pc = "off"
  /\ local = Invalid
  /\ dfuOnHold = TRUE
  /\ dfuDidSwitch = FALSE
  /\ h = "none"
  /\ req = NoReq
  /\ didInvalidate = FALSE
  /\ currentPage = 0
  /\ currentPageOffset = 0
  /\ pageBuffer = [c \in 0 .. PageSize - 1 |-> Blank]
  /\ rewritten = FALSE

\* No bound is checked.  Nobody reads what a write leaves behind the image.
HostWrites ==
  \E x \in Images, off \in 0 .. HostReach - 1, n \in 0 .. MaxWrite :
    dfu_progmem_handler_w(x, off, n)

\* The rounds of the loop in dfu_progmem_handler_w.
WriteLoop == CopyToPage \/ ErasePage \/ BurnPage \/ WriteReturns

Next ==
  \/ PowerLoss
  \/ Boot
  \/ dfu_check_for_app
  \/ Unforce
  \/ HoldReleased
  \/ HoldTimeout
  \/ EnterDfu
  \/ AppStart
  \/ AppReady
  \/ FactoryStart
  \/ FactoryDone
  \/ InfoNone
  \/ LaunchFromHandler
  \/ LaunchTimeout
  \/ InfoPerma
  \/ InfoTemp
  \/ HostWrites
  \/ WriteLoop
  \/ \E x \in Images : dfu_progmem_info_handler_c(x)

Spec == Init /\ [][Next]_vars

-----------------------------------------------------------------------------
(* Properties.                                                             *)

\* Every variable keeps its type.
TypeOK ==
  /\ info \in InfoType
  /\ magic \in BOOLEAN
  /\ flash \in [Cell -> Content]
  /\ pc \in {"off", "check", "unforce", "hold", "enter", "dfu", "launched",
             "appInit", "app", "factory"}
  /\ local \in InfoType
  /\ dfuOnHold \in BOOLEAN
  /\ dfuDidSwitch \in BOOLEAN
  /\ h \in {"none", "launch", "temp", "copy", "erase", "burn"}
  /\ req \in ReqType
  /\ didInvalidate \in BOOLEAN
  /\ currentPage \in 0 .. WriteEnd
  /\ currentPageOffset \in 0 .. PageSize
  /\ pageBuffer \in [0 .. PageSize - 1 -> Content]
  /\ ranLast \in {"app", "boot", "unknown"}
  /\ rewritten \in BOOLEAN

Executing == pc \in {"launched", "appInit", "app", "factory"}

Firmware == Images \cup {Factory}

\* The application area holds one image as a whole.
Whole == \E x \in Firmware : Holds(x)

\* The image in the application area; anything else than one whole image is
\* an impossible value of the abstract device.
Present ==
  IF Whole THEN CHOOSE x \in Firmware : Holds(x) ELSE Bootloader

\* Whatever the host writes, in whatever order, and wherever the device is
\* reset, a mixture of two images never becomes bootable and never runs, and
\* a bootable image is given up before its first byte changes (dfu.c:87-89).
Device ==
  INSTANCE UpdatableDevice WITH
    Images <- Firmware, None <- Blank,
    app <- IF info.state \in {"valid", "priority"} THEN Present ELSE Blank,
    running <- IF ~Executing THEN Blank
               ELSE IF local.offset = AppBase THEN Present ELSE Bootloader

IsUpdatableDevice == Device!Spec

\* Program memory changes only while the NVM says that it is not bootable,
\* so a reset at any point of an update leads back into DFU mode.
UpdateIsLocked == [][flash' # flash => info.state = "invalid"]_vars

\* The forced flag has been cleared by the time the device is in DFU mode,
\* so that it forces one start only (dfu.c:281).
ForcedOnce == pc \in {"hold", "enter", "dfu"} => ~info.forced

\* As long as nobody replaces the app info, dfu_did_switch reports a switch
\* exactly if the program that asked last was the other one.
SwitchIsReported ==
  [][(pc = "enter" /\ pc' = "dfu" /\ magic /\ ~rewritten
        => dfuDidSwitch' = (ranLast # "boot"))
     /\ (pc = "launched" /\ pc' = "appInit" /\ magic /\ ~rewritten
        => dfuDidSwitch' = (ranLast # "app"))]_vars

-----------------------------------------------------------------------------
(* What a comment says and the code does not do.                           *)

\* arch/csr/bootloader.h:17: APP_OFFSET keeps the application clear of the
\* bootloader's image.
BootloaderIntact == \A c \in 0 .. AppBase - 1 : flash[c] = Bootloader
=============================================================================
