------------------------- MODULE FirmwareUpdateProofs -------------------------
(***************************************************************************)
(* What the firmware life cycle promises for every bank size, every set of *)
(* images, each of any size, and any sequence of power losses and panics.  *)
(* The proofs about the flash follow the session: SessionInv says how far  *)
(* the image has come in its own sectors of bank one, while erases run     *)
(* behind their requests and those of bank two's sectors hit bank one.     *)
(***************************************************************************)
EXTENDS FirmwareUpdate, TLAPS

-----------------------------------------------------------------------------
(* The backup registers                                                    *)

(* store_flags writes the header and the two flags, and nothing else.      *)
LEMMA StoredFlags ==
    ASSUME NEW f, store_flags(f)
    PROVE  /\ bk' \in [0..2 -> Magics]
           /\ bk'[0] = "ramb"
           /\ bk'[1] = IF f.want_bootloader THEN "boot" ELSE "zero"
           /\ bk'[2] = IF f.crash_detected THEN "crash" ELSE "zero"
<1>1. bk' = [r \in 0..2 |-> CASE r = 0 -> "ramb"
                             [] r = 1 -> IF f.want_bootloader THEN "boot" ELSE "zero"
                             [] r = 2 -> IF f.crash_detected THEN "crash" ELSE "zero"]
  BY DEF store_flags
<1> QED
  BY <1>1 DEF Magics

(* An address below the size of a bank is its own sector number.           *)
LEMMA ModSmall ==
    ASSUME NEW a \in Nat, NEW b \in Nat \ {0}, a < b
    PROVE  a % b = a
  OBVIOUS

(* The sizes of an image, in sectors and in blocks.                        *)
LEMMA ImageSize ==
    ASSUME NEW i \in Images
    PROVE  /\ ImageSectors[i] \in 1..LastSector /\ LastSector \in Nat
           /\ SectorsPerBank \in Nat \ {0, 1} /\ LastSector = 2 * SectorsPerBank - 1
           /\ Blocks(i) = 2 * ImageSectors[i]
  BY LayoutAssumption DEF LastSector, Blocks

(* The cells of an image are all different, in the sectors from 1 upwards. *)
LEMMA CellFacts ==
    ASSUME NEW i \in Images
    PROVE  /\ \A k \in 0..(Blocks(i) - 1) :
                 ImageCell(k) \in Cells /\ ImageCell(k)[1] \in ImageSectorSet(i)
           /\ \A j, k \in 0..(Blocks(i) - 1) : ImageCell(j) = ImageCell(k) => j = k
<1>1. /\ ImageSectors[i] \in 1..LastSector /\ LastSector \in Nat
      /\ Blocks(i) = 2 * ImageSectors[i]
  BY ImageSize
<1>2. ASSUME NEW k \in 0..(Blocks(i) - 1)
      PROVE  ImageCell(k) \in Cells /\ ImageCell(k)[1] \in ImageSectorSet(i)
  BY <1>1 DEF ImageCell, Cells, Sectors, Halves, ImageSectorSet
<1>3. ASSUME NEW j \in 0..(Blocks(i) - 1), NEW k \in 0..(Blocks(i) - 1),
             ImageCell(j) = ImageCell(k)
      PROVE  j = k
  <2>1. j \div 2 = k \div 2 /\ (j % 2 = 0 <=> k % 2 = 0)
    BY <1>1, <1>3 DEF ImageCell
  <2> QED
    BY <1>1, <2>1
<1> QED
  BY <1>2, <1>3

(* The driver keeps a sector of bank one as it is, and takes bank two's    *)
(* first sector for the bootloader's.                                      *)
LEMMA TargetFacts ==
    ASSUME NEW sector \in 1..LastSector
    PROVE  /\ EraseTarget(sector) \in 0..(SectorsPerBank - 1)
           /\ sector < SectorsPerBank => EraseTarget(sector) = sector
           /\ sector >= SectorsPerBank => EraseTarget(sector) = sector - SectorsPerBank
<1>1. SectorsPerBank \in Nat \ {0} /\ LastSector = 2 * SectorsPerBank - 1 /\ sector \in Nat
  BY LayoutAssumption DEF LastSector
<1>2. CASE sector < SectorsPerBank
  BY <1>1, <1>2, ModSmall DEF EraseTarget
<1>3. CASE sector >= SectorsPerBank
  <2>1. sector - SectorsPerBank \in Nat /\ sector - SectorsPerBank < SectorsPerBank
    BY <1>1, <1>3
  <2>2. EraseTarget(sector) = sector - SectorsPerBank
    BY <1>1, <2>1 DEF EraseTarget
  <2> QED
    BY <1>1, <1>3, <2>1, <2>2
<1> QED
  BY <1>1, <1>2, <1>3

(* No other sector of an image is taken for one of its own sectors.        *)
LEMMA OwnTarget ==
    ASSUME NEW i \in Images, NEW sector \in ImageSectorSet(i), NEW s \in OwnSectors(i)
    PROVE  EraseTarget(sector) = s <=> sector = s
<1>1. /\ ImageSectors[i] \in 1..LastSector /\ SectorsPerBank \in Nat /\ LastSector \in Nat
  BY ImageSize
<1>2. sector \in 1..LastSector /\ sector <= ImageSectors[i]
  BY <1>1 DEF ImageSectorSet
<1>3. s \in Nat /\ s > 0 /\ s < SectorsPerBank /\ s + SectorsPerBank > ImageSectors[i]
  BY <1>1 DEF OwnSectors, ImageSectorSet
<1> QED
  BY <1>1, <1>2, <1>3, TargetFacts

-----------------------------------------------------------------------------
(* The inductive invariant of a flashing session                           *)

(* What the host and the driver hold belongs to one session: an image is   *)
(* known from the request on, and a stored chunk is the session's next one *)
(* in a sector whose erase was requested.                                  *)
ChunkInv ==
    /\ host.stage = "Waiting" => host.image \in Images /\ host.next = 0 /\ host.erased = {}
    /\ host.stage = "Flashing" =>
          /\ host.image \in Images /\ mode = "Update"
          /\ host.next <= Blocks(host.image) /\ host.erased \subseteq ImageSectorSet(host.image)
    /\ buffer # NoChunk =>
          /\ host.stage = "Flashing" /\ host.next < Blocks(host.image)
          /\ buffer = [cell |-> ImageCell(host.next), image |-> host.image]
          /\ ImageCell(host.next)[1] \in host.erased

(* An erase of sector 0 that runs has begun by losing the bootloader.      *)
BootInv == busy \in {-1} \cup 0..(SectorsPerBank - 1) /\ (busy = 0 => ~BootloaderIntact)

(* In the image's own sectors, blocks before host.next hold the image, and *)
(* the erase of their sector is over; blocks from there on are erased as   *)
(* soon as the erase of their sector is both requested and over.           *)
OwnBlocks(i) == {k \in 0..(Blocks(i) - 1) : ImageCell(k)[1] \in OwnSectors(i)}

Progress ==
    host.stage = "Flashing" =>
      \A k \in OwnBlocks(host.image) :
        /\ k < host.next =>
              /\ flash[ImageCell(k)] = host.image
              /\ ImageCell(k)[1] \in host.erased /\ ImageCell(k)[1] # busy
        /\ (k >= host.next /\ ImageCell(k)[1] \in host.erased /\ ImageCell(k)[1] # busy)
              => flash[ImageCell(k)] = Erased

SessionInv == ChunkInv /\ BootInv /\ Progress

-----------------------------------------------------------------------------
(* Types                                                                   *)

(* A boot reads the registers, and leaves them and the mode well-formed.   *)
LEMMA BootType ==
    ASSUME TypeOK, chip_main
    PROVE  /\ mode' \in Modes /\ bk' \in [0..2 -> Magics] /\ entries' \in Nat
           /\ crashed' \in BOOLEAN
<1>0. entries \in Nat /\ bk \in [0..2 -> Magics] /\ crashed \in BOOLEAN
  BY DEF TypeOK
<1>1. PICK m \in {"Update", "App"} : mode' = m
  BY DEF chip_main, SoftwareDfuRequest, CrashDetected, WantBootloader, JumpToApp, NoValidApp,
         EnterUpdateByFlag, EnterUpdate
<1>2. entries' \in {entries, entries + 1}
  BY DEF chip_main, SoftwareDfuRequest, CrashDetected, WantBootloader, JumpToApp, NoValidApp,
         EnterUpdateByFlag
<1>3. crashed' = FALSE \/ crashed' = crashed
  BY DEF chip_main, SoftwareDfuRequest, CrashDetected, WantBootloader, JumpToApp, NoValidApp,
         EnterUpdateByFlag, EnterUpdate
<1>4. crashed' \in BOOLEAN
  BY <1>0, <1>3, Zenon
<1>5. bk' \in [0..2 -> Magics]
  <2>1. CASE SoftwareDfuRequest
    BY <1>0, <2>1 DEF SoftwareDfuRequest, Magics
  <2>2. CASE CrashDetected \/ WantBootloader
    BY <2>2, StoredFlags
       DEF CrashDetected, WantBootloader, clear_crash_detected, clear_bootloader_request
  <2>3. CASE JumpToApp \/ NoValidApp
    BY <1>0, <2>3 DEF JumpToApp, NoValidApp
  <2> QED
    BY <2>1, <2>2, <2>3 DEF chip_main
<1> QED
  BY <1>0, <1>1, <1>2, <1>4, <1>5 DEF Modes

(* What the driver's calls leave in the flash and the controller.          *)
LEMMA DriverType ==
    ASSUME TypeOK,
           \/ erase_all \/ program \/ read
           \/ \E sector \in 1..LastSector : erase(sector)
           \/ \E chunk \in Chunks : store_write_buffer(chunk)
    PROVE  /\ flash' \in [Cells -> Contents] /\ busy' \in {-1} \cup Sectors
           /\ locked' \in BOOLEAN /\ erase_pending' \in BOOLEAN
           /\ buffer' \in Chunks \cup {NoChunk}
<1> USE DEF Contents
<1>1. CASE erase_all
  BY <1>1 DEF erase_all, TypeOK
<1>2. CASE program
  <2>1. flash' = [flash EXCEPT ![buffer.cell] = Programmed(buffer.cell, buffer.image, ProgramLock)]
        /\ locked' = TRUE /\ erase_pending' = FALSE /\ buffer' = NoChunk /\ busy' = busy
    BY <1>2 DEF program
  <2>2. buffer.cell \in Cells /\ buffer.image \in Images \cup {Erased}
    <3>1. 0 \in Sectors
      BY LayoutAssumption DEF Sectors, LastSector
    <3>2. NoChunk.cell \in Cells /\ NoChunk.image = Erased
      BY <3>1 DEF NoChunk, Cells, Halves
    <3> QED
      BY <3>2 DEF TypeOK, Chunks
  <2>3. Programmed(buffer.cell, buffer.image, ProgramLock) \in Contents
    BY <2>2 DEF Programmed, TypeOK
  <2> QED
    BY <2>1, <2>3 DEF TypeOK
<1>3. CASE read
  <2>1. locked' \in BOOLEAN
    BY <1>3, Zenon DEF read, complete_pending_erase
  <2> QED
    BY <1>3, <2>1 DEF read, TypeOK
<1>4. ASSUME NEW sector \in 1..LastSector, erase(sector)
      PROVE  /\ flash' \in [Cells -> Contents] /\ busy' \in {-1} \cup Sectors
             /\ locked' \in BOOLEAN /\ erase_pending' \in BOOLEAN
             /\ buffer' \in Chunks \cup {NoChunk}
  <2>1. EraseTarget(sector) \in Sectors
    BY TargetFacts, LayoutAssumption DEF Sectors, LastSector
  <2> QED
    BY <1>4, <2>1 DEF erase, start_erase_sector, unlock, TypeOK
<1>5. ASSUME NEW chunk \in Chunks, store_write_buffer(chunk)
      PROVE  /\ flash' \in [Cells -> Contents] /\ busy' \in {-1} \cup Sectors
             /\ locked' \in BOOLEAN /\ erase_pending' \in BOOLEAN
             /\ buffer' \in Chunks \cup {NoChunk}
  BY <1>5 DEF store_write_buffer, TypeOK
<1> QED
  BY <1>1, <1>2, <1>3, <1>4, <1>5

LEMMA ResetType ==
    ASSUME ControllerReset
    PROVE  /\ busy' \in {-1} \cup Sectors /\ locked' \in BOOLEAN /\ erase_pending' \in BOOLEAN
           /\ buffer' \in Chunks \cup {NoChunk}
  BY DEF ControllerReset

(* The host's edits of a session, and what the session knows of its image. *)
LEMMA SessionEdits ==
    /\ NoSession \in Sessions
    /\ \A h \in Sessions, g \in Stages : [h EXCEPT !.stage = g] \in Sessions
    /\ \A g \in Stages, i \in Images : [NoSession EXCEPT !.stage = g, !.image = i] \in Sessions
    /\ \A h \in Sessions, e \in SUBSET (1..LastSector) : [h EXCEPT !.erased = e] \in Sessions
    /\ \A h \in Sessions, i \in Images : h.next < Blocks(i) => [h EXCEPT !.next = @ + 1] \in Sessions
<1>1. NoSession \in Sessions
  <2>1. LastSector \in Nat
    BY LayoutAssumption DEF LastSector
  <2> QED
    BY <2>1 DEF NoSession, Sessions, Stages
<1>2. ASSUME NEW h \in Sessions, NEW g \in Stages
      PROVE  [h EXCEPT !.stage = g] \in Sessions
  BY DEF Sessions
<1>3. ASSUME NEW g \in Stages, NEW i \in Images
      PROVE  [NoSession EXCEPT !.stage = g, !.image = i] \in Sessions
  <2>1. \A h \in Sessions : [h EXCEPT !.image = i] \in Sessions
    BY DEF Sessions
  <2> QED
    BY <1>1, <1>2, <2>1
<1>4. ASSUME NEW h \in Sessions, NEW e \in SUBSET (1..LastSector)
      PROVE  [h EXCEPT !.erased = e] \in Sessions
  BY DEF Sessions
<1>5. ASSUME NEW h \in Sessions, NEW i \in Images, h.next < Blocks(i)
      PROVE  [h EXCEPT !.next = @ + 1] \in Sessions
  <2>1. h.next \in Nat /\ h.next + 1 <= 2 * LastSector
    BY <1>5, ImageSize DEF Sessions
  <2> QED
    BY <2>1 DEF Sessions
<1> QED
  BY <1>1, <1>2, <1>3, <1>4, <1>5, Zenon

(* The chunk in the buffer stays the next one of the session that flashes, *)
(* and a reset empties the buffer before another session begins.           *)
LEMMA ChunkStep == TypeOK /\ ChunkInv /\ [Next]_vars => ChunkInv'
<1> SUFFICES ASSUME TypeOK, ChunkInv, [Next]_vars PROVE ChunkInv'
  OBVIOUS
<1> USE DEF ChunkInv
<1>0. host \in Sessions
  BY DEF TypeOK
<1>1. CASE PowerLoss
  BY <1>0, <1>1 DEF PowerLoss, ControllerReset, Interrupted, Sessions
<1>2. CASE WatchdogReset
  BY <1>2 DEF WatchdogReset, ControllerReset
<1>3. ASSUME NEW i \in Images, NEW g \in Stages,
             host' = [NoSession EXCEPT !.stage = g, !.image = i]
      PROVE  host'.stage = g /\ host'.image = i /\ host'.next = 0 /\ host'.erased = {}
  BY <1>3 DEF NoSession
<1>4. CASE FlashFromDfu
  <2>1. PICK i \in Images : host' = [NoSession EXCEPT !.stage = "Flashing", !.image = i]
    BY <1>4 DEF FlashFromDfu
  <2>2. host'.stage = "Flashing" /\ host'.image = i /\ host'.next = 0 /\ host'.erased = {}
    BY <1>3, <2>1 DEF Stages
  <2>3. mode' = "Update" /\ buffer' = NoChunk
    BY <1>4 DEF FlashFromDfu, flashVars
  <2>4. 0 <= Blocks(i)
    BY ImageSize
  <2> QED
    BY <2>2, <2>3, <2>4
<1>5. CASE enter_dfu_mode
  BY <1>3, <1>5 DEF enter_dfu_mode, ControllerReset, Stages
<1>6. CASE wait_for_dfu_device
  <2>1. host.image \in Images => 0 <= Blocks(host.image)
    BY ImageSize
  <2> QED
    BY <1>0, <1>6, <2>1 DEF wait_for_dfu_device, flashVars, Sessions
<1>7. CASE NextSession
  BY <1>7 DEF NextSession, NoSession, flashVars
<1>8. CASE EraseRequest
  <2>1. buffer = NoChunk /\ buffer' = buffer /\ mode' = mode /\ Flashing
    BY <1>8 DEF EraseRequest, erase, start_erase_sector, erase_all
  <2>2. /\ host'.stage = host.stage /\ host'.image = host.image /\ host'.next = host.next
        /\ host'.erased \subseteq ImageSectorSet(host.image)
    BY <1>0, <1>8, <2>1 DEF EraseRequest, Sessions, Flashing
  <2> QED
    BY <2>1, <2>2 DEF Flashing
<1>9. CASE Download
  BY <1>0, <1>9 DEF Download, store_write_buffer, Flashing, Sessions
<1>10. CASE ProgramBlock
  <2>1. host.next < Blocks(host.image) /\ host.image \in Images
    BY <1>10 DEF ProgramBlock, Flashing
  <2>2. host.next + 1 <= Blocks(host.image)
    BY <1>0, <2>1, ImageSize DEF Sessions
  <2> QED
    BY <1>0, <1>10, <2>2 DEF ProgramBlock, program, Sessions
<1>11. CASE Upload
  BY <1>11 DEF Upload, read
<1>12. CASE manifestation
  BY <1>0, <1>12 DEF manifestation, ControllerReset, Sessions
<1>13. CASE chip_main \/ panic
  BY <1>13 DEF chip_main, panic, flashVars
<1>14. CASE UNCHANGED <<mode, buffer, host>>
  BY <1>14
<1> QED
  BY <1>1, <1>2, <1>4, <1>5, <1>6, <1>7, <1>8, <1>9, <1>10, <1>11, <1>12, <1>13, <1>14
     DEF Next, DeviceStep, HostStep, EraseDone, vars, flashVars

(* Every step keeps the registers, the flash and the session well-formed.  *)
LEMMA TypeStep == TypeOK /\ ChunkInv /\ [Next]_vars => TypeOK'
<1> SUFFICES ASSUME TypeOK, ChunkInv, [Next]_vars PROVE TypeOK'
  OBVIOUS
<1> USE LayoutAssumption, BoundsAssumption
<1>0. host \in Sessions
  BY DEF TypeOK
<1>1. CASE chip_main
  BY <1>1, BootType DEF chip_main, flashVars, TypeOK
<1>2. CASE WatchdogReset
  BY <1>2 DEF WatchdogReset, ControllerReset, TypeOK, Modes
<1>3. CASE EraseDone
  BY <1>3 DEF EraseDone, TypeOK, Contents
<1>4. CASE panic
  BY <1>4 DEF panic, flashVars, TypeOK, Modes, Magics
<1>5. CASE PowerLoss
  <2>1. host' \in Sessions
    BY <1>0, <1>5, SessionEdits DEF PowerLoss, Interrupted, Stages
  <2>2. bk' \in [0..2 -> Magics]
    BY <1>5 DEF PowerLoss, TypeOK, Magics
  <2>3. crashed' \in BOOLEAN
    BY <1>5, Zenon DEF PowerLoss, TypeOK
  <2>4. /\ mode' = "Reset" /\ failures < MaxFailures /\ failures' = failures + 1
        /\ ControllerReset /\ UNCHANGED <<software_dfu, flash, requests, entries>>
    BY <1>5 DEF PowerLoss
  <2>5. failures' \in 0..MaxFailures /\ "Reset" \in Modes
    BY <2>4 DEF TypeOK, Modes
  <2> QED
    BY <2>1, <2>2, <2>3, <2>4, <2>5, ResetType, Zenon DEF TypeOK
<1>6. CASE FlashFromDfu \/ wait_for_dfu_device \/ NextSession
  <2>1. host' \in Sessions
    BY <1>0, <1>6, SessionEdits DEF FlashFromDfu, wait_for_dfu_device, NextSession, Stages
  <2> QED
    BY <1>6, <2>1 DEF FlashFromDfu, wait_for_dfu_device, NextSession, flashVars, TypeOK
<1>7. CASE enter_dfu_mode
  <2>1. host' \in Sessions
    BY <1>7, SessionEdits DEF enter_dfu_mode, Stages
  <2>2. /\ mode' = "Reset" /\ requests' = requests + 1 /\ bk' = [bk EXCEPT ![0] = "boot"]
        /\ ControllerReset /\ UNCHANGED <<software_dfu, flash, entries, crashed, failures>>
    BY <1>7 DEF enter_dfu_mode
  <2>3. bk' \in [0..2 -> Magics]
    BY <2>2 DEF TypeOK, Magics
  <2>4. requests' \in Nat /\ "Reset" \in Modes
    BY <2>2 DEF TypeOK, Modes
  <2> QED
    BY <2>1, <2>2, <2>3, <2>4, ResetType, Zenon DEF TypeOK
<1>8. CASE EraseRequest
  <2>1. ImageSectorSet(host.image) \subseteq 1..LastSector /\ host.erased \subseteq 1..LastSector
    <3>1. host.image \in Images
      BY <1>8 DEF EraseRequest, Flashing, ChunkInv
    <3> QED
      BY <1>0, <3>1, ImageSize DEF ImageSectorSet, Sessions
  <2>2. PICK e \in SUBSET (1..LastSector) : host' = [host EXCEPT !.erased = e]
    BY <1>8, <2>1 DEF EraseRequest
  <2>3. host' \in Sessions
    BY <1>0, <2>2, SessionEdits
  <2>4. erase_all \/ \E sector \in 1..LastSector : erase(sector)
    BY <1>8, <2>1 DEF EraseRequest
  <2> QED
    BY <1>8, <2>3, <2>4, DriverType DEF EraseRequest, TypeOK
<1>9. CASE Download
  <2> DEFINE chunk == [cell |-> ImageCell(host.next), image |-> host.image]
  <2>1. host.image \in Images /\ host.next < Blocks(host.image)
    BY <1>9 DEF Download, Flashing, ChunkInv
  <2>2. chunk \in Chunks
    <3>1. host.next \in 0..(Blocks(host.image) - 1)
      BY <1>0, <2>1, ImageSize DEF Sessions
    <3>2. ImageCell(host.next) \in Cells
      BY <2>1, <3>1, CellFacts
    <3> QED
      BY <2>1, <3>2 DEF Chunks
  <2>3. store_write_buffer(chunk) /\ host' = host
    BY <1>9 DEF Download
  <2> HIDE DEF chunk
  <2> QED
    BY <1>9, <2>2, <2>3, DriverType DEF Download, TypeOK
<1>10. CASE ProgramBlock
  <2>1. host' \in Sessions
    <3>1. host.image \in Images /\ host.next < Blocks(host.image)
      BY <1>10 DEF ProgramBlock, Flashing, ChunkInv
    <3> QED
      BY <1>0, <1>10, <3>1, SessionEdits DEF ProgramBlock
  <2> QED
    BY <1>10, <2>1, DriverType DEF ProgramBlock, TypeOK
<1>11. CASE Upload
  BY <1>11, DriverType DEF Upload, TypeOK
<1>12. CASE manifestation
  <2>1. host' \in Sessions
    BY <1>0, <1>12, SessionEdits DEF manifestation, Stages
  <2> QED
    BY <1>12, <2>1 DEF manifestation, ControllerReset, TypeOK, Modes
<1>13. CASE UNCHANGED vars
  BY <1>13 DEF vars, flashVars, TypeOK
<1> QED
  BY <1>1, <1>2, <1>3, <1>4, <1>5, <1>6, <1>7, <1>8, <1>9, <1>10, <1>11, <1>12, <1>13
     DEF Next, DeviceStep, HostStep

-----------------------------------------------------------------------------
(* Requests                                                                *)

(* Clearing one flag keeps the other as it was read.                       *)
LEMMA ClearedFlags ==
    /\ clear_crash_detected =>
          bk'[0] = "ramb" /\ bk'[2] = "zero" /\ (bk'[1] = "boot" => bk[1] = "boot")
    /\ clear_bootloader_request =>
          bk'[0] = "ramb" /\ bk'[1] = "zero" /\ (bk'[2] = "crash" => bk[2] = "crash")
<1>1. PICK want, crash \in BOOLEAN :
         /\ load_flags = [want_bootloader |-> want, crash_detected |-> crash]
         /\ want => bk[1] = "boot"
         /\ crash => bk[2] = "crash"
  BY DEF load_flags
<1>2. ASSUME clear_crash_detected
      PROVE  bk'[0] = "ramb" /\ bk'[2] = "zero" /\ (bk'[1] = "boot" => bk[1] = "boot")
  <2> DEFINE f == [load_flags EXCEPT !.crash_detected = FALSE]
  <2>1. f.want_bootloader = want /\ f.crash_detected = FALSE
    BY <1>1
  <2>2. store_flags(f)
    BY <1>2 DEF clear_crash_detected
  <2> HIDE DEF f
  <2> QED
    BY <1>1, <2>1, <2>2 DEF store_flags
<1>3. ASSUME clear_bootloader_request
      PROVE  bk'[0] = "ramb" /\ bk'[1] = "zero" /\ (bk'[2] = "crash" => bk[2] = "crash")
  <2> DEFINE f == [load_flags EXCEPT !.want_bootloader = FALSE]
  <2>1. f.want_bootloader = FALSE /\ f.crash_detected = crash
    BY <1>1
  <2>2. store_flags(f)
    BY <1>3 DEF clear_bootloader_request
  <2> HIDE DEF f
  <2> QED
    BY <1>1, <2>1, <2>2 DEF store_flags
<1> QED
  BY <1>2, <1>3

(* Each way into update mode by a flag spends one of the pending requests. *)
LEMMA BootSpends ==
    ASSUME TypeOK, chip_main
    PROVE  Pending(bk') + entries' <= Pending(bk) + entries
<1>0. entries \in Nat /\ bk \in [0..2 -> Magics]
  BY DEF TypeOK
<1>1. CASE SoftwareDfuRequest
  <2>1. bk'[0] = "zero" /\ bk[0] = "boot" /\ entries' = entries + 1
    BY <1>0, <1>1 DEF SoftwareDfuRequest, EnterUpdateByFlag
  <2>2. Pending(bk) = 1 /\ Pending(bk') = 0
    BY <2>1 DEF Pending
  <2> QED
    BY <1>0, <2>1, <2>2
<1>2. CASE CrashDetected
  <2>1. clear_crash_detected
    BY <1>2 DEF CrashDetected
  <2>2. bk[0] = "ramb" /\ bk[2] = "crash" /\ entries' = entries + 1
    BY <1>2 DEF CrashDetected, load_flags, EnterUpdateByFlag
  <2>3. bk'[0] = "ramb" /\ bk'[2] = "zero" /\ (bk'[1] = "boot" => bk[1] = "boot")
    BY <2>1, ClearedFlags
  <2> QED
    BY <1>0, <2>2, <2>3 DEF Pending
<1>3. CASE WantBootloader
  <2>1. clear_bootloader_request
    BY <1>3 DEF WantBootloader
  <2>2. bk[0] = "ramb" /\ bk[1] = "boot" /\ entries' = entries + 1
    BY <1>3 DEF WantBootloader, load_flags, EnterUpdateByFlag
  <2>3. bk'[0] = "ramb" /\ bk'[1] = "zero" /\ (bk'[2] = "crash" => bk[2] = "crash")
    BY <2>1, ClearedFlags
  <2> QED
    BY <1>0, <2>2, <2>3 DEF Pending
<1>4. CASE JumpToApp \/ NoValidApp
  <2>1. bk' = bk /\ entries' = entries
    BY <1>4 DEF JumpToApp, NoValidApp
  <2>2. Pending(bk) \in Nat
    BY DEF Pending
  <2> QED
    BY <1>0, <2>1, <2>2
<1> QED
  BY <1>1, <1>2, <1>3, <1>4 DEF chip_main

LEMMA RequestStep == TypeOK /\ EachRequestOnce /\ [Next]_vars => EachRequestOnce'
<1> SUFFICES ASSUME TypeOK, EachRequestOnce, [Next]_vars PROVE EachRequestOnce'
  OBVIOUS
<1> USE DEF EachRequestOnce
<1>0. /\ entries \in Nat /\ requests \in Nat /\ bk \in [0..2 -> Magics]
      /\ Pending(bk) \in Nat /\ Pending(bk') \in Nat
  BY DEF TypeOK, Pending
<1>1. CASE chip_main
  <2>1. requests' = requests /\ entries' \in Nat
    BY <1>1, BootType DEF chip_main
  <2> QED
    BY <1>0, <1>1, <2>1, BootSpends
<1>2. CASE panic
  <2>1. bk'[0] = bk[0] /\ bk'[1] = "crash" /\ bk'[2] = bk[2]
    BY <1>0, <1>2 DEF panic
  <2>2. Pending(bk') <= Pending(bk)
    BY <2>1 DEF Pending
  <2> QED
    BY <1>0, <1>2, <2>2 DEF panic
<1>3. CASE PowerLoss
  <2>1. Pending(bk') <= Pending(bk)
    BY <1>0, <1>3 DEF PowerLoss, Pending
  <2> QED
    BY <1>0, <1>3, <2>1 DEF PowerLoss
<1>4. CASE enter_dfu_mode
  <2>1. bk'[0] = "boot"
    BY <1>0, <1>4 DEF enter_dfu_mode
  <2>2. Pending(bk') = 1
    BY <2>1 DEF Pending
  <2> QED
    BY <1>0, <1>4, <2>2 DEF enter_dfu_mode
<1>5. CASE UNCHANGED <<bk, requests, entries>>
  BY <1>0, <1>5 DEF Pending
<1> QED
  BY <1>1, <1>2, <1>3, <1>4, <1>5
     DEF Next, DeviceStep, HostStep, WatchdogReset, EraseDone, FlashFromDfu,
         wait_for_dfu_device, NextSession, EraseRequest, Download, ProgramBlock, Upload,
         manifestation, vars

-----------------------------------------------------------------------------
(* The flash                                                               *)

LEMMA InitInv == Init => TypeOK /\ EachRequestOnce /\ SessionInv
<1> SUFFICES ASSUME Init PROVE TypeOK /\ EachRequestOnce /\ SessionInv
  OBVIOUS
<1> USE LayoutAssumption, BoundsAssumption, BuildsAssumption
<1>1. Pending(bk) \in Nat
  BY DEF Pending
<1>2. flash \in [Cells -> Contents] /\ \A h \in Halves : flash[<<0, h>>] = Bootloader
  <2>1. 0 \in Sectors
    BY DEF Sectors, LastSector
  <2>2. \A h \in Halves : <<0, h>> \in Cells
    BY <2>1 DEF Cells
  <2> QED
    BY <2>2 DEF Init, Contents
<1>3. software_dfu \in BOOLEAN
  BY DEF Init
<1>4. TypeOK
  <2>1. "Reset" \in Modes /\ 0 \in Nat /\ 0 \in 0..MaxFailures
    BY DEF Modes
  <2>2. /\ mode = "Reset" /\ bk \in [0..2 -> Magics] /\ busy = -1 /\ locked = TRUE
        /\ erase_pending = FALSE /\ crashed = FALSE /\ buffer = NoChunk /\ host = NoSession
        /\ requests = Pending(bk) /\ entries = 0 /\ failures = 0
    BY DEF Init
  <2>3. busy \in {-1} \cup Sectors /\ buffer \in Chunks \cup {NoChunk}
    BY <2>2
  <2> QED
    BY <1>1, <1>2, <1>3, <2>1, <2>2, <2>3, SessionEdits, Zenon DEF TypeOK
<1>5. EachRequestOnce
  BY <1>1 DEF Init, EachRequestOnce
<1>6. ChunkInv /\ Progress
  BY DEF Init, ChunkInv, Progress, NoSession
<1>7. BootInv
  BY <1>2 DEF Init, BootInv
<1> QED
  BY <1>4, <1>5, <1>6, <1>7 DEF SessionInv

(* Only an erase of sector 0 that runs could disturb the sector later on,  *)
(* and it has done so already when it starts.                              *)
LEMMA BootStep ==
    ASSUME TypeOK, ChunkInv, BootInv, [Next]_vars
    PROVE  /\ BootInv'
           /\ BootloaderIntact /\ ~BootloaderIntact' =>
                 SectorsPerBank \in host'.erased \ host.erased
<1> USE DEF BootInv, BootloaderIntact
<1> DEFINE Lost == SectorsPerBank \in host'.erased \ host.erased
<1>0. /\ \A h \in Halves : <<0, h>> \in Cells
      /\ SectorsPerBank \in Nat \ {0, 1} /\ "head" \in Halves /\ Garbled # Bootloader
  <2>1. 0 \in Sectors /\ SectorsPerBank \in Nat \ {0, 1}
    BY LayoutAssumption DEF Sectors, LastSector
  <2> QED
    BY <2>1 DEF Cells, Halves, Garbled, Bootloader
<1>1. CASE EraseRequest
  <2>0. host.image \in Images /\ host \in Sessions
    BY <1>1 DEF EraseRequest, Flashing, ChunkInv, TypeOK
  <2>1. ASSUME NEW sector \in ImageSectorSet(host.image) \ host.erased, erase(sector),
               host' = [host EXCEPT !.erased = @ \cup {sector}]
        PROVE  BootInv' /\ (BootloaderIntact /\ ~BootloaderIntact' => Lost)
    <3>1. sector \in 1..LastSector
      BY <2>0, ImageSize DEF ImageSectorSet
    <3>2. PICK s \in 0..(SectorsPerBank - 1) : s = EraseTarget(sector)
      BY <3>1, TargetFacts
    <3>3. s = 0 => sector = SectorsPerBank
      <4>1. sector \in Nat /\ sector > 0
        BY <3>1, LayoutAssumption DEF LastSector
      <4>2. sector < SectorsPerBank => s = sector
        BY <3>1, <3>2, TargetFacts
      <4>3. sector >= SectorsPerBank => s = sector - SectorsPerBank
        BY <3>1, <3>2, TargetFacts
      <4> QED
        BY <1>0, <4>1, <4>2, <4>3
    <3>4. /\ busy' = s
          /\ flash' = [c \in Cells |-> IF c[1] = s THEN Garbled ELSE flash[c]]
      BY <2>1, <3>2 DEF erase, start_erase_sector
    <3>5. \A h \in Halves : flash'[<<0, h>>] = IF s = 0 THEN Garbled ELSE flash[<<0, h>>]
      BY <1>0, <3>4
    <3>6. host'.erased = host.erased \cup {sector}
      BY <2>0, <2>1 DEF Sessions
    <3>7. CASE s = 0
      BY <1>0, <2>1, <3>2, <3>3, <3>4, <3>5, <3>6, <3>7
    <3>8. CASE s # 0
      BY <1>0, <3>2, <3>4, <3>5, <3>8
    <3> QED
      BY <3>7, <3>8
  <2>2. CASE erase_all
    BY <1>0, <2>2 DEF erase_all
  <2> QED
    BY <1>1, <2>1, <2>2 DEF EraseRequest
<1>2. CASE ProgramBlock
  <2>1. /\ flash' = [flash EXCEPT ![buffer.cell] =
                                Programmed(buffer.cell, buffer.image, ProgramLock)]
        /\ busy' = busy /\ busy = -1
    BY <1>2 DEF ProgramBlock, program
  <2>2. buffer.cell[1] \in ImageSectorSet(host.image) /\ host.image \in Images
    <3>1. host.image \in Images /\ host.next < Blocks(host.image)
          /\ buffer.cell = ImageCell(host.next)
      BY <1>2 DEF ProgramBlock, Flashing, ChunkInv
    <3>2. host.next \in 0..(Blocks(host.image) - 1)
      BY <3>1, ImageSize DEF TypeOK, Sessions
    <3> QED
      BY <3>1, <3>2, CellFacts
  <2>3. \A h \in Halves : buffer.cell # <<0, h>>
    BY <2>2 DEF ImageSectorSet
  <2> QED
    BY <1>0, <2>1, <2>3 DEF TypeOK
<1>3. CASE EraseDone
  BY <1>0, <1>3 DEF EraseDone
<1>4. CASE ControllerReset /\ UNCHANGED flash
  BY <1>4 DEF ControllerReset
<1>5. CASE UNCHANGED <<busy, flash>>
  BY <1>5
<1> QED
  BY <1>1, <1>2, <1>3, <1>4, <1>5
     DEF Next, DeviceStep, HostStep, chip_main, WatchdogReset, panic, PowerLoss, FlashFromDfu,
         enter_dfu_mode, wait_for_dfu_device, NextSession, Download, store_write_buffer,
         Upload, read, manifestation, vars, flashVars

(* A session that has asked for nothing yet has nothing to show.           *)
LEMMA FreshProgress ==
    ASSUME host'.stage = "Flashing" =>
              host'.next = 0 /\ host'.erased = {} /\ host'.image \in Images
    PROVE  Progress'
  BY ImageSize DEF Progress, OwnBlocks

(* A block goes into a sector whose erase was requested and, because every *)
(* call of the driver waits for the bank, is over; no later erase of the   *)
(* session hits an own sector of the image again.                          *)
LEMMA ProgressStep ==
    ASSUME TypeOK, ChunkInv, BootInv, Progress, [Next]_vars
    PROVE  Progress'
<1> USE DEF Progress
<1> DEFINE Own == OwnBlocks(host.image)
<1>0. /\ host \in Sessions /\ flash \in [Cells -> Contents]
      /\ host.next \in Nat /\ SectorsPerBank \in Nat
  BY LayoutAssumption DEF TypeOK, Sessions
<1>f. ASSUME host.stage = "Flashing"
      PROVE  /\ host.image \in Images
             /\ \A k \in Own : /\ k \in 0..(Blocks(host.image) - 1) /\ ImageCell(k) \in Cells
                               /\ ImageCell(k)[1] \in OwnSectors(host.image)
                               /\ ImageCell(k)[1] \in ImageSectorSet(host.image)
                               /\ ImageCell(k)[1] \in 1..(SectorsPerBank - 1)
  <2>1. host.image \in Images
    BY <1>f DEF ChunkInv
  <2>2. OwnSectors(host.image) \subseteq 1..(SectorsPerBank - 1)
    BY <1>0, <2>1, ImageSize DEF OwnSectors, ImageSectorSet
  <2> QED
    BY <2>1, <2>2, CellFacts DEF OwnBlocks
<1>1. CASE EraseRequest
  <2>0. /\ host.stage = "Flashing" /\ buffer = NoChunk /\ busy = -1
        /\ host.erased \subseteq ImageSectorSet(host.image)
    BY <1>1 DEF EraseRequest, Flashing, ChunkInv, erase, start_erase_sector, erase_all
  <2>a. \A k \in Own : ImageCell(k)[1] # busy
    BY <1>f, <2>0
  <2>1. ASSUME NEW sector \in ImageSectorSet(host.image) \ host.erased, erase(sector),
               host' = [host EXCEPT !.erased = @ \cup {sector}]
        PROVE  Progress'
    <3>1. PICK s : s = EraseTarget(sector)
      OBVIOUS
    <3>2. \A k \in Own : s = ImageCell(k)[1] <=> sector = ImageCell(k)[1]
      BY <1>f, <2>0, <3>1, OwnTarget
    <3>3. busy' = s /\ flash' = [c \in Cells |-> IF c[1] = s THEN Garbled ELSE flash[c]]
      BY <2>1, <3>1 DEF erase, start_erase_sector
    <3>4. /\ host'.stage = host.stage /\ host'.image = host.image /\ host'.next = host.next
          /\ host'.erased = host.erased \cup {sector}
      BY <1>0, <2>1 DEF Sessions
    <3>5. \A k \in Own : ImageCell(k)[1] # sector => flash'[ImageCell(k)] = flash[ImageCell(k)]
      BY <1>f, <2>0, <3>2, <3>3
    <3> HIDE DEF Own
    <3>7. ASSUME NEW k \in Own
          PROVE  /\ k < host'.next =>
                       /\ flash'[ImageCell(k)] = host'.image
                       /\ ImageCell(k)[1] \in host'.erased /\ ImageCell(k)[1] # busy'
                 /\ (k >= host'.next /\ ImageCell(k)[1] \in host'.erased
                       /\ ImageCell(k)[1] # busy') => flash'[ImageCell(k)] = Erased
      BY <2>0, <2>a, <3>2, <3>3, <3>4, <3>5 DEF Own
    <3> QED
      BY <3>4, <3>7 DEF Own
  <2>2. CASE host.erased = {} /\ erase_all
             /\ host' = [host EXCEPT !.erased = ImageSectorSet(host.image)]
    <3>1. /\ host'.stage = host.stage /\ host'.image = host.image /\ host'.next = host.next
          /\ host'.erased = ImageSectorSet(host.image)
      BY <1>0, <2>2 DEF Sessions
    <3>2. \A k \in Own : flash'[ImageCell(k)] = Erased
      BY <1>f, <2>0, <2>2 DEF erase_all
    <3>3. \A k \in Own : ~ (k < host.next)
      BY <2>0, <2>2
    <3> HIDE DEF Own
    <3> QED
      BY <3>1, <3>2, <3>3 DEF Own
  <2> QED
    BY <1>1, <2>1, <2>2 DEF EraseRequest
<1>2. CASE ProgramBlock
  <2> DEFINE n == host.next
             word == Programmed(buffer.cell, buffer.image, ProgramLock)
  <2>1. /\ host.stage = "Flashing" /\ n < Blocks(host.image) /\ busy = -1 /\ busy' = busy
        /\ buffer.cell = ImageCell(n) /\ buffer.image = host.image
        /\ ImageCell(n)[1] \in host.erased /\ host.image \in Images
        /\ flash' = [flash EXCEPT ![ImageCell(n)] = word]
    <3>1. /\ host.stage = "Flashing" /\ n < Blocks(host.image)
          /\ buffer = [cell |-> ImageCell(n), image |-> host.image]
          /\ ImageCell(n)[1] \in host.erased /\ host.image \in Images
      BY <1>2 DEF ProgramBlock, Flashing, ChunkInv
    <3>2. /\ busy = -1 /\ busy' = busy
          /\ flash' = [flash EXCEPT ![buffer.cell] = word]
      BY <1>2 DEF ProgramBlock, program
    <3> HIDE DEF word
    <3> QED
      BY <3>1, <3>2
  <2>2. /\ host'.stage = host.stage /\ host'.image = host.image /\ host'.next = n + 1
        /\ host'.erased = host.erased
    BY <1>0, <1>2 DEF ProgramBlock, Sessions
  <2>3. n \in 0..(Blocks(host.image) - 1)
    BY <1>0, <2>1, ImageSize
  <2>4. n \in Own => word = host.image
    <3> SUFFICES ASSUME n \in Own PROVE word = host.image
      OBVIOUS
    <3>1. ImageCell(n)[1] \in 1..(SectorsPerBank - 1)
      BY <1>f, <2>1
    <3>2. flash[ImageCell(n)] = Erased
      BY <1>0, <2>1, <3>1
    <3>3. ProgramLock = FALSE /\ ~ (ImageCell(n)[1] >= SectorsPerBank)
      BY <1>0, <3>1 DEF ProgramLock, unlock
    <3> QED
      BY <2>1, <3>2, <3>3 DEF Programmed
  <2> HIDE DEF word
  <2>5. \A k \in Own : flash'[ImageCell(k)] = IF k = n THEN host.image ELSE flash[ImageCell(k)]
    <3> SUFFICES ASSUME NEW k \in Own
                 PROVE  flash'[ImageCell(k)] = IF k = n THEN host.image ELSE flash[ImageCell(k)]
      OBVIOUS
    <3>1. ImageCell(k) \in Cells /\ (ImageCell(k) = ImageCell(n) => k = n)
      BY <1>f, <2>1, <2>3, CellFacts
    <3> QED
      BY <1>0, <2>1, <2>4, <3>1
  <2>6. ASSUME NEW k \in Own
        PROVE  /\ k < n + 1 =>
                     /\ flash'[ImageCell(k)] = host.image
                     /\ ImageCell(k)[1] \in host.erased /\ ImageCell(k)[1] # busy
               /\ (k >= n + 1 /\ ImageCell(k)[1] \in host.erased
                     /\ ImageCell(k)[1] # busy) => flash'[ImageCell(k)] = Erased
    <3>1. k \in Nat /\ ImageCell(k)[1] # busy
      BY <1>f, <2>1
    <3>2. k < n + 1 => k < n \/ k = n
      BY <1>0, <3>1
    <3>3. k >= n + 1 => k >= n /\ k # n
      BY <1>0, <3>1
    <3> HIDE DEF n
    <3> QED
      BY <2>1, <2>5, <3>1, <3>2, <3>3 DEF n
  <2> HIDE DEF Own, n
  <2> QED
    BY <2>1, <2>2, <2>6 DEF Own
<1>3. CASE EraseDone
  <2>1. /\ busy' = -1 /\ host' = host
        /\ flash' = [c \in Cells |-> IF c[1] = busy THEN Erased ELSE flash[c]]
    BY <1>3 DEF EraseDone
  <2> SUFFICES ASSUME host.stage = "Flashing" PROVE Progress'
    BY <2>1
  <2>2. \A k \in Own : /\ flash'[ImageCell(k)] = IF ImageCell(k)[1] = busy THEN Erased
                                                  ELSE flash[ImageCell(k)]
                       /\ ImageCell(k)[1] # busy' /\ (k < host.next => ImageCell(k)[1] # busy)
    BY <1>f, <2>1
  <2> HIDE DEF Own
  <2> QED
    BY <2>1, <2>2 DEF Own
<1>4. CASE FlashFromDfu
  <2>1. host'.next = 0 /\ host'.erased = {} /\ host'.image \in Images
    BY <1>4 DEF FlashFromDfu, NoSession
  <2> QED
    BY <2>1, FreshProgress
<1>5. CASE wait_for_dfu_device
  <2>1. host'.stage = "Flashing" => host'.next = 0 /\ host'.erased = {} /\ host'.image \in Images
    BY <1>0, <1>5 DEF wait_for_dfu_device, ChunkInv, Sessions
  <2> QED
    BY <2>1, FreshProgress
<1>7. CASE PowerLoss \/ NextSession \/ enter_dfu_mode \/ manifestation
  <2>1. CASE PowerLoss
    <3>1. host' = Interrupted(host)
      BY <2>1 DEF PowerLoss
    <3>2. host'.stage # "Flashing"
      BY <1>0, <3>1 DEF Interrupted, Sessions
    <3> QED
      BY <3>2
  <2>2. CASE manifestation
    <3>1. host' = [host EXCEPT !.stage = "Complete"]
      BY <2>2 DEF manifestation
    <3>2. host'.stage # "Flashing"
      BY <1>0, <3>1 DEF Sessions
    <3> QED
      BY <3>2
  <2>3. CASE NextSession
    <3>1. host' = NoSession
      BY <2>3 DEF NextSession
    <3> QED
      BY <3>1 DEF NoSession
  <2>4. CASE enter_dfu_mode
    <3>1. PICK i \in Images : host' = [NoSession EXCEPT !.stage = "Waiting", !.image = i]
      BY <2>4 DEF enter_dfu_mode
    <3>2. host'.stage # "Flashing"
      BY <3>1 DEF NoSession
    <3> QED
      BY <3>2
  <2> QED
    BY <1>7, <2>1, <2>2, <2>3, <2>4
<1>8. CASE WatchdogReset
  <2>1. mode = "Panicked" /\ host' = host
    BY <1>8 DEF WatchdogReset
  <2>2. host'.stage # "Flashing"
    BY <2>1 DEF ChunkInv
  <2> QED
    BY <2>2
<1>9. CASE UNCHANGED <<busy, flash, host>>
  BY <1>9
<1> QED
  BY <1>1, <1>2, <1>3, <1>4, <1>5, <1>7, <1>8, <1>9
     DEF Next, DeviceStep, HostStep, chip_main, panic, Download, store_write_buffer, Upload,
         read, vars, flashVars

-----------------------------------------------------------------------------
(* The theorems                                                            *)

(* chip_main, boot_sequence and their clear_* calls: whatever the          *)
(* registers held and wherever the power went, a request enters update     *)
(* mode at most once; there is no update loop.                             *)
THEOREM RequestsSpentOnce == Spec => []RequestInv
<1>1. Init => TypeOK /\ ChunkInv /\ EachRequestOnce
  BY InitInv DEF SessionInv
<1> QED
  BY <1>1, TypeStep, ChunkStep, RequestStep, PTL DEF Spec, RequestInv

(* Every reachable session meets its inductive invariant, whatever the     *)
(* size of its image.                                                      *)
THEOREM SessionCorrect == Spec => [](TypeOK /\ SessionInv)
<1>1. Init => TypeOK /\ SessionInv
  BY InitInv
<1>2. TypeOK /\ SessionInv /\ [Next]_vars => (TypeOK /\ SessionInv)'
  BY TypeStep, ChunkStep, BootStep, ProgressStep DEF SessionInv
<1> QED
  BY <1>1, <1>2, PTL DEF Spec

(* update_backend.rs, start_erase_sector, erase and program: for images of *)
(* any size the sector the board boots from is lost to nothing but the     *)
(* erase of bank two's first sector.                                       *)
THEOREM BootloaderLoss == Spec => BootloaderLostToBank2
<1>1. TypeOK /\ SessionInv /\ [Next]_vars =>
        [ BootloaderIntact /\ ~BootloaderIntact' =>
             SectorsPerBank \in host'.erased \ host.erased ]_vars
  BY BootStep DEF SessionInv
<1> QED
  BY <1>1, SessionCorrect, PTL DEF Spec, BootloaderLostToBank2

(* update_backend.rs, complete_pending_erase, program and manifestation: a *)
(* device that leaves update mode holds the image of the session, of any   *)
(* size, in all of the image's own sectors.                                *)
THEOREM ManifestedImage == Spec => ManifestedHoldsOwn
<1>1. TypeOK /\ SessionInv =>
        [ manifestation => \A c \in ImageCells(host.image) :
                              c[1] \in OwnSectors(host.image) => flash[c] = host.image ]_vars
  <2> SUFFICES ASSUME TypeOK, SessionInv, manifestation, NEW c \in ImageCells(host.image),
                      c[1] \in OwnSectors(host.image)
               PROVE  flash[c] = host.image
    OBVIOUS
  <2>1. PICK k \in 0..(Blocks(host.image) - 1) : c = ImageCell(k)
    BY DEF ImageCells
  <2>2. host.stage = "Flashing" /\ host.next = Blocks(host.image) /\ host.image \in Images
    BY DEF manifestation, Flashing, SessionInv, ChunkInv
  <2>3. k < host.next /\ k \in OwnBlocks(host.image)
    BY <2>1, <2>2, ImageSize DEF OwnBlocks
  <2> QED
    BY <2>1, <2>2, <2>3 DEF SessionInv, Progress
<1> QED
  BY <1>1, SessionCorrect, PTL DEF ManifestedHoldsOwn

(* All sectors of an image that ends in bank one are its own: such an      *)
(* image is installed when the device leaves update mode.                  *)
THEOREM SmallImageInstalled ==
    Spec => [][ manifestation /\ ImageSectors[host.image] < SectorsPerBank
                  => Installed(host.image) ]_vars
<1>1. ASSUME NEW i \in Images, ImageSectors[i] < SectorsPerBank, NEW c \in ImageCells(i)
      PROVE  c[1] \in OwnSectors(i)
  <2>1. c[1] \in ImageSectorSet(i)
    BY CellFacts DEF ImageCells
  <2> QED
    BY <1>1, <2>1, ImageSize DEF OwnSectors, ImageSectorSet
<1>2. TypeOK /\ SessionInv /\
      [ manifestation => \A c \in ImageCells(host.image) :
                            c[1] \in OwnSectors(host.image) => flash[c] = host.image ]_vars
      => [ manifestation /\ ImageSectors[host.image] < SectorsPerBank
             => Installed(host.image) ]_vars
  <2>1. TypeOK /\ SessionInv /\ manifestation => host.image \in Images
    BY DEF manifestation, Flashing, SessionInv, ChunkInv
  <2> QED
    BY <1>1, <2>1 DEF Installed
<1> QED
  BY <1>2, SessionCorrect, ManifestedImage, PTL DEF ManifestedHoldsOwn

=============================================================================
