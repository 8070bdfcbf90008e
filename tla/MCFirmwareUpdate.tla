---------------------------- MODULE MCFirmwareUpdate ----------------------------
(* Two banks of three sectors.  Image "A" ends in bank one; "B" reaches the    *)
(* sectors of bank two that share their numbers with the bootloader's sector   *)
(* and with the first sector of the application.                               *)
EXTENDS FirmwareUpdate

MCImageSectors == [i \in Images |-> IF i = "A" THEN 2 ELSE 4]
=============================================================================
