---------------------------- MODULE FirmwareUpdate ----------------------------
(***************************************************************************)
(* The firmware life cycle of the STM32H743 board: the application and its *)
(* panic handler (aviate-boards/micoair-h743-v2), the boot decision        *)
(* (aviate-chips/stm32h743 chip_main and aviate-boot-core boot_sequence),  *)
(* the DFU flash driver (update_backend.rs) and the host tool              *)
(* (xtask run_hardware, with dfu-util as an external program).             *)
(*                                                                         *)
(* The parts meet in two places that outlive a reset: the four RTC backup  *)
(* registers, through which the application asks for update mode, and the  *)
(* flash, which the DFU driver rewrites one sector at a time.  Power may   *)
(* be lost at any step; the backup registers survive it only on VBAT.      *)
(***************************************************************************)
EXTENDS Integers

CONSTANTS
  SectorsPerBank,  \* 8 on the chip
  Images,          \* firmware images the host may flash
  ImageSectors,    \* sectors each of them occupies, from sector 1 upwards
  Builds,          \* bootloader builds: is the software-dfu feature on?
  MaxRequests,     \* bound: software DFU requests
  MaxFailures      \* bound: power losses and panics

ASSUME LayoutAssumption ==
  /\ SectorsPerBank \in Nat \ {0, 1}
  /\ ImageSectors \in [Images -> 1..(2 * SectorsPerBank - 1)]
ASSUME BuildsAssumption == Builds \subseteq BOOLEAN
ASSUME BoundsAssumption == MaxRequests \in Nat /\ MaxFailures \in Nat

VARIABLES
  mode,           \* what the processor executes
  software_dfu,   \* the feature the installed bootloader was built with
  bk,             \* RTC backup registers BK0R..BK2R
  flash,          \* contents of each half of each sector
  busy,           \* the sector bank 1 is erasing, or -1
  locked,         \* FLASH.CR LOCK of bank 1
  erase_pending,  \* FlashMemory.erase_pending
  buffer,         \* FlashMemory.buffer: a chunk of an image, or NoChunk
  host,           \* the flashing session of the host tool
  requests,       \* history: update-mode requests made so far
  entries,        \* history: times a flag sent the boot into update mode
  crashed,        \* history: a panic no update mode has answered yet
  failures        \* bound counter: power losses and panics so far

flashVars == <<flash, busy, locked, erase_pending, buffer>>
vars == <<mode, software_dfu, bk, flash, busy, locked, erase_pending, buffer,
          host, requests, entries, crashed, failures>>

-----------------------------------------------------------------------------
(* Values. *)

LastSector == 2 * SectorsPerBank - 1
Sectors == 0..LastSector
Halves  == {"head", "tail"}
Cells   == Sectors \X Halves

Bootloader == "Bootloader"
Erased     == "Erased"
Garbled    == "Garbled"
Contents   == Images \cup {Bootloader, Erased, Garbled}

ASSUME ImagesAssumption == Images \cap {Bootloader, Erased, Garbled} = {}

Chunks  == [cell : Cells, image : Images]
NoChunk == [cell |-> <<0, "head">>, image |-> Erased]

\* Register contents: a cleared register, magic::BOOT_TO_BOOTLOADER,
\* magic::CRASH_DETECTED, and BOOT_FLAGS_MAGIC, the header of RtcBootFlags.
Magics == {"zero", "boot", "crash", "ramb"}

Modes == {"Reset", "Update", "App", "Panicked"}

\* The cells of an image, in the order dfu-util downloads them.
ImageCell(k) == <<1 + (k \div 2), IF k % 2 = 0 THEN "head" ELSE "tail">>
Blocks(i)        == 2 * ImageSectors[i]
ImageCells(i)     == {ImageCell(k) : k \in 0..(Blocks(i) - 1)}
ImageSectorSet(i) == 1..ImageSectors[i]

Stages    == {"Idle", "Waiting", "Flashing", "Complete", "Lost", "Failed"}
Sessions  == [stage : Stages, image : Images \cup {Erased}, next : 0..(2 * LastSector),
              erased : SUBSET (1..LastSector)]
NoSession == [stage |-> "Idle", image |-> Erased, next |-> 0, erased |-> {}]

-----------------------------------------------------------------------------
(* RtcCrashBackend: the flags behind the registers. *)

\* A structure without its header reads as no flag at all.  firmware_ok
\* (BK3R) is written back as it was read and decides nothing.
load_flags ==
  [want_bootloader |-> bk[0] = "ramb" /\ bk[1] = "boot",
   crash_detected  |-> bk[0] = "ramb" /\ bk[2] = "crash"]

\* A power loss among the writes of store_flags leaves the registers as they
\* were or as they will be: both callers change one flag of a structure whose
\* header is already valid.
store_flags(f) ==
  bk' = [r \in 0..2 |-> CASE r = 0 -> "ramb"
                           [] r = 1 -> IF f.want_bootloader THEN "boot" ELSE "zero"
                           [] r = 2 -> IF f.crash_detected THEN "crash" ELSE "zero"]

clear_crash_detected     == store_flags([load_flags EXCEPT !.crash_detected = FALSE])
clear_bootloader_request == store_flags([load_flags EXCEPT !.want_bootloader = FALSE])

\* The update-mode requests a register content holds, whoever wrote it.
Pending(r) ==
  CASE r[0] = "boot" -> 1
    [] r[0] = "ramb" -> (IF r[1] = "boot" THEN 1 ELSE 0)
                          + (IF r[2] = "crash" THEN 1 ELSE 0)
    [] OTHER         -> 0

-----------------------------------------------------------------------------
(* The flash controller of bank 1 and the driver on top of it. *)

\* A reset forgets the driver's memory and relocks the controller; the sector
\* it was erasing keeps whatever the erase had reached.
ControllerReset ==
  /\ busy' = -1
  /\ locked' = TRUE
  /\ erase_pending' = FALSE
  /\ buffer' = NoChunk

\* Fault seed for EraseTarget: the sector is counted from APP_START.
EraseTarget_from_app(sector) == (sector - 1) % SectorsPerBank

\* The sector number field of a bank's control register addresses
\* the sectors of that bank; the driver only ever writes the one of bank 1.
EraseTarget(sector) == sector % SectorsPerBank

\* LOCK after complete_pending_erase, and after unlock.
complete_pending_erase(l) == erase_pending \/ l
unlock(l) == FALSE

\* Fault seed for ProgramLock: unlocked before the pending erase is completed.
ProgramLock_early == complete_pending_erase(unlock(locked))

\* The lock the words of a block are written under.
ProgramLock == unlock(complete_pending_erase(locked))

\* External: a word reaches the flash when its bank is unlocked and has PG
\* set, which the driver does for bank 1 only.  Programming a cell that was
\* not erased garbles it.
Programmed(cell, image, l) ==
  IF l \/ cell[1] >= SectorsPerBank THEN flash[cell]
  ELSE IF flash[cell] = Erased THEN image ELSE Garbled

\* start_erase_sector: waits for the bank, unlocks it and starts the erase.
start_erase_sector(sector) ==
  /\ busy = -1
  /\ busy' = EraseTarget(sector)
  /\ flash' = [c \in Cells |-> IF c[1] = EraseTarget(sector) THEN Garbled ELSE flash[c]]
  /\ locked' = unlock(complete_pending_erase(locked))
  /\ erase_pending' = TRUE
  /\ UNCHANGED buffer

\* DFUMemIO::erase, for an address in the given sector.
erase(sector) ==
  /\ sector \in Sectors \ {0}
  /\ start_erase_sector(sector)

\* Fault seed for erase_all: the last sector of the bank is left out.
erase_all_short ==
  /\ busy = -1
  /\ flash' = [c \in Cells |-> IF c[1] \in 1..(SectorsPerBank - 2) THEN Erased ELSE flash[c]]
  /\ locked' = TRUE
  /\ erase_pending' = FALSE
  /\ UNCHANGED <<busy, buffer>>

\* DFUMemIO::erase_all: sectors 1 to 7, each completed before the next.
erase_all ==
  /\ busy = -1
  /\ flash' = [c \in Cells |-> IF c[1] \in 1..(SectorsPerBank - 1) THEN Erased ELSE flash[c]]
  /\ locked' = TRUE
  /\ erase_pending' = FALSE
  /\ UNCHANGED <<busy, buffer>>

\* DFUMemIO::store_write_buffer.
store_write_buffer(chunk) ==
  /\ buffer' = chunk
  /\ UNCHANGED <<flash, busy, locked, erase_pending>>

\* DFUMemIO::program of the stored chunk.
program ==
  /\ busy = -1
  /\ flash' = [flash EXCEPT ![buffer.cell] = Programmed(buffer.cell, buffer.image, ProgramLock)]
  /\ locked' = TRUE
  /\ erase_pending' = FALSE
  /\ buffer' = NoChunk
  /\ UNCHANGED busy

\* DFUMemIO::read, of a block the host verifies.
read ==
  /\ erase_pending /\ busy = -1
  /\ locked' = complete_pending_erase(locked)
  /\ erase_pending' = FALSE
  /\ UNCHANGED <<flash, busy, buffer>>

\* External: the bank finishes the erase it was given.
EraseDone ==
  /\ busy # -1
  /\ busy' = -1
  /\ flash' = [c \in Cells |-> IF c[1] = busy THEN Erased ELSE flash[c]]
  /\ UNCHANGED <<mode, software_dfu, bk, locked, erase_pending, buffer, host,
                 requests, entries, crashed, failures>>

-----------------------------------------------------------------------------
(* Boot. *)

\* The first two words of the application look like a stack pointer and a
\* reset vector.  An erased head reads as ones; of a garbled one either may
\* be true.
validate_app(valid) ==
  LET head == flash[<<1, "head">>]
  IN  /\ head \in Images => valid
      /\ head = Erased => ~valid

EnterUpdate == mode' = "Update" /\ crashed' = FALSE

\* Update mode because a flag asks for it.
EnterUpdateByFlag == EnterUpdate /\ entries' = entries + 1

\* Fault seed for SoftwareDfuRequest: the magic is left in place.
SoftwareDfuRequest_keeps == bk[0] = "boot" /\ bk' = bk /\ EnterUpdateByFlag

\* chip_main reads the single-word request before anything else and clears it.
SoftwareDfuRequest ==
  /\ bk[0] = "boot"
  /\ bk' = [bk EXCEPT ![0] = "zero"]
  /\ EnterUpdateByFlag

\* boot_sequence: crash, then explicit request, then the application.
CrashDetected ==
  /\ bk[0] # "boot"
  /\ load_flags.crash_detected
  /\ clear_crash_detected
  /\ EnterUpdateByFlag

WantBootloader ==
  /\ bk[0] # "boot"
  /\ ~load_flags.crash_detected /\ load_flags.want_bootloader
  /\ clear_bootloader_request
  /\ EnterUpdateByFlag

\* Without the software-dfu feature no flag is looked at.
NoFlag == software_dfu => Pending(bk) = 0

JumpToApp ==
  /\ NoFlag
  /\ validate_app(TRUE)
  /\ mode' = "App"
  /\ UNCHANGED <<bk, entries, crashed>>

NoValidApp ==
  /\ NoFlag
  /\ validate_app(FALSE)
  /\ EnterUpdate
  /\ UNCHANGED <<bk, entries>>

\* The sector the board boots from.  memory.rs says that it "can never be
\* accidentally erased during app updates", which would make this an invariant;
\* the code (update_backend.rs start_erase_sector) does not keep it.
BootloaderIntact == \A h \in Halves : flash[<<0, h>>] = Bootloader

\* chip_main and boot_sequence, from the reset vector of sector 0: a processor
\* whose sector 0 is gone executes nothing.
chip_main ==
  /\ mode = "Reset"
  /\ BootloaderIntact
  /\ \/ software_dfu /\ (SoftwareDfuRequest \/ CrashDetected \/ WantBootloader)
     \/ JumpToApp
     \/ NoValidApp
  /\ UNCHANGED <<software_dfu, flashVars, host, requests, failures>>

-----------------------------------------------------------------------------
(* The application, and what may befall the board. *)

\* The panic handler: CRASH_DETECTED into BK1R, then a loop without a kick.
panic ==
  /\ mode = "App" /\ failures < MaxFailures
  /\ mode' = "Panicked"
  /\ bk' = [bk EXCEPT ![1] = "crash"]
  /\ crashed' = TRUE
  /\ failures' = failures + 1
  /\ UNCHANGED <<software_dfu, flashVars, host, requests, entries>>

WatchdogReset ==
  /\ mode = "Panicked"
  /\ mode' = "Reset"
  /\ ControllerReset
  /\ UNCHANGED <<software_dfu, bk, flash, host, requests, entries, crashed, failures>>

\* flash_dfu_util does not look at the exit code of dfu-util: a session whose
\* device vanished goes on to the next one like a completed one.
Interrupted(h) == IF h.stage = "Flashing" THEN [h EXCEPT !.stage = "Lost"] ELSE h

PowerLoss ==
  /\ failures < MaxFailures
  /\ failures' = failures + 1
  /\ mode' = "Reset"
  /\ ControllerReset
  /\ host' = Interrupted(host)
  /\ \/ UNCHANGED <<bk, crashed>>                  \* VBAT connected
     \/ bk' = [r \in 0..2 |-> "zero"] /\ crashed' = FALSE
  /\ UNCHANGED <<software_dfu, flash, requests, entries>>

-----------------------------------------------------------------------------
(* The host tool: run_hardware, and dfu-util under it. *)

\* DeviceState::CustomBootloaderDfu: flash at once.
FlashFromDfu ==
  /\ host.stage = "Idle" /\ mode = "Update"
  /\ \E i \in Images : host' = [NoSession EXCEPT !.stage = "Flashing", !.image = i]
  /\ UNCHANGED <<mode, software_dfu, bk, flashVars, requests, entries, crashed, failures>>

\* DeviceState::Running: the challenge of enter_dfu_mode is answered, and the
\* application writes the magic to BK0R and resets (reboot_to_bootloader).
enter_dfu_mode ==
  /\ host.stage = "Idle" /\ mode = "App"
  /\ requests < MaxRequests
  /\ \E i \in Images : host' = [NoSession EXCEPT !.stage = "Waiting", !.image = i]
  /\ bk' = [bk EXCEPT ![0] = "boot"]
  /\ requests' = requests + 1
  /\ mode' = "Reset"
  /\ ControllerReset
  /\ UNCHANGED <<software_dfu, flash, entries, crashed, failures>>

\* wait_for_dfu_device: found, or ten seconds pass without one.
wait_for_dfu_device ==
  /\ host.stage = "Waiting" /\ mode # "Reset"
  /\ host' = IF mode = "Update" THEN [host EXCEPT !.stage = "Flashing"]
                                ELSE [host EXCEPT !.stage = "Failed"]
  /\ UNCHANGED <<mode, software_dfu, bk, flashVars, requests, entries, crashed, failures>>

\* A session is over; the operator may start another.
NextSession ==
  /\ host.stage \in {"Complete", "Lost", "Failed"}
  /\ host' = NoSession
  /\ UNCHANGED <<mode, software_dfu, bk, flashVars, requests, entries, crashed, failures>>

Flashing == mode = "Update" /\ host.stage = "Flashing"

\* External (dfu-util): erases the sectors of the image, or the whole device,
\* and downloads each block once its sector has been erased.
EraseRequest ==
  /\ Flashing /\ buffer = NoChunk
  /\ \/ \E s \in ImageSectorSet(host.image) \ host.erased :
          erase(s) /\ host' = [host EXCEPT !.erased = @ \cup {s}]
     \/ /\ host.erased = {} /\ erase_all
        /\ host' = [host EXCEPT !.erased = ImageSectorSet(host.image)]
  /\ UNCHANGED <<mode, software_dfu, bk, requests, entries, crashed, failures>>

Download ==
  /\ Flashing /\ buffer = NoChunk
  /\ host.next < Blocks(host.image) /\ ImageCell(host.next)[1] \in host.erased
  /\ store_write_buffer([cell |-> ImageCell(host.next), image |-> host.image])
  /\ UNCHANGED <<mode, software_dfu, bk, host, requests, entries, crashed, failures>>

ProgramBlock ==
  /\ Flashing /\ buffer # NoChunk
  /\ program
  /\ host' = [host EXCEPT !.next = @ + 1]
  /\ UNCHANGED <<mode, software_dfu, bk, requests, entries, crashed, failures>>

Upload ==
  /\ Flashing /\ buffer = NoChunk
  /\ read
  /\ UNCHANGED <<mode, software_dfu, bk, host, requests, entries, crashed, failures>>

\* The last block is in: the host leaves, and the device resets itself.
manifestation ==
  /\ Flashing /\ buffer = NoChunk /\ host.next = Blocks(host.image)
  /\ mode' = "Reset"
  /\ ControllerReset
  /\ host' = [host EXCEPT !.stage = "Complete"]
  /\ UNCHANGED <<software_dfu, bk, flash, requests, entries, crashed, failures>>

-----------------------------------------------------------------------------

\* The board leaves the bench with a bootloader, with or without an
\* application, and with registers as an earlier firmware may have left them.
Init ==
  /\ mode = "Reset"
  /\ software_dfu \in Builds
  /\ bk \in [0..2 -> Magics]
  /\ \E app \in Images \cup {Erased} :
       flash = [c \in Cells |-> IF c[1] = 0 THEN Bootloader
                                ELSE IF app \in Images /\ c \in ImageCells(app) THEN app ELSE Erased]
  /\ busy = -1 /\ locked = TRUE /\ erase_pending = FALSE /\ buffer = NoChunk
  /\ host = NoSession
  /\ requests = Pending(bk) /\ entries = 0 /\ crashed = FALSE /\ failures = 0

DeviceStep == chip_main \/ WatchdogReset \/ EraseDone
HostStep   == wait_for_dfu_device \/ NextSession \/ EraseRequest \/ Download
                \/ ProgramBlock \/ Upload \/ manifestation

Next == DeviceStep \/ HostStep \/ FlashFromDfu \/ enter_dfu_mode \/ panic \/ PowerLoss

\* The processor and the flash run while there is power, and a flashing
\* session that has begun is carried on by dfu-util.
Fairness == WF_vars(DeviceStep) /\ WF_vars(HostStep)

Spec == Init /\ [][Next]_vars /\ Fairness

-----------------------------------------------------------------------------
(* Properties. *)

TypeOK ==
  /\ mode \in Modes
  /\ software_dfu \in BOOLEAN
  /\ bk \in [0..2 -> Magics]
  /\ flash \in [Cells -> Contents]
  /\ busy \in {-1} \cup Sectors
  /\ locked \in BOOLEAN /\ erase_pending \in BOOLEAN /\ crashed \in BOOLEAN
  /\ buffer \in Chunks \cup {NoChunk}
  /\ host \in Sessions
  /\ requests \in Nat /\ entries \in Nat /\ failures \in 0..MaxFailures

\* The sector the board boots from is lost in one way only, to the erase of
\* the first sector of bank two, whose number in its bank is the bootloader's:
\* no other erase, no block write and no power loss touches it, whatever the
\* size of the images (update_backend.rs start_erase_sector, erase, program).
BootloaderLostToBank2 ==
  [][BootloaderIntact /\ ~BootloaderIntact' => SectorsPerBank \in host'.erased \ host.erased]_vars

\* A request sends the board into update mode at most once, whatever the
\* registers held and wherever the power went: there is no way into an update
\* loop (chip_main's clearing of BK0R and clear_* of boot_sequence).
EachRequestOnce == Pending(bk) + entries <= requests

\* The registers between application and bootloader, in every state.
RequestInv == TypeOK /\ EachRequestOnce

Installed(i) == \A c \in ImageCells(i) : flash[c] = i

\* The sectors of an image in bank one that share their number with none of
\* its sectors in bank two: all of them, if the image ends in bank one.
OwnSectors(i) == {s \in ImageSectorSet(i) : s < SectorsPerBank /\ s + SectorsPerBank > ImageSectors[i]}

\* A device that leaves update mode by manifestation holds every block of the
\* session's image in these sectors, although erases run behind their requests
\* and the bank is locked between them (update_backend.rs start_erase_sector,
\* complete_pending_erase, program).
ManifestedHoldsOwn ==
  [][manifestation => \A c \in ImageCells(host.image) :
                         c[1] \in OwnSectors(host.image) => flash[c] = host.image]_vars

\* A session that reached the device with an image that ends in bank one ends
\* with this image running, unless the power went away under it or the
\* registers hold a further request, whatever was flashed before
\* (run_hardware, update_backend.rs, boot_sequence).
UpdateRuns ==
  \A i \in Images : ImageSectors[i] < SectorsPerBank =>
    (host.stage = "Flashing" /\ host.image = i)
      ~> ((mode = "App" /\ Installed(i)) \/ host.stage = "Lost" \/ Pending(bk) > 0)

-----------------------------------------------------------------------------
(* Statements of the repository the code does not keep: BootloaderIntact,
   above, and: *)

\* A panic the registers remember is answered by update mode before the
\* application runs again (panic.rs, docs/BOOTLOADER.md "Crash Recovery").
CrashEntersUpdate == software_dfu /\ mode = "App" => ~crashed

=============================================================================
