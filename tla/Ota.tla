-------------------------------- MODULE Ota ---------------------------------
(***************************************************************************)
(* Upgrade of the firmware from a file (upgrade.c), run by the shell       *)
(* thread, with MCUboot in overwrite-only mode (sysbuild.conf) as the boot *)
(* loader. Sizes and offsets are in bytes; of a slot's content the model   *)
(* keeps how far it is erased and written and which image it holds.        *)
(***************************************************************************)
EXTENDS Naturals

CONSTANTS
  FileSizes,    \* sizes of the files that may be given to the command
  SlotSize,     \* size of a slot
  Wrap,         \* where a size_t wraps: 2^32
  Reads,        \* numbers of bytes that a call of fs_read may have to give
  MaxUpgrades   \* bound: calls of the command

ASSUME OtaAssumption ==
  /\ Wrap \in Nat \ {0} /\ FileSizes \subseteq 0 .. Wrap - 1
  /\ SlotSize \in Nat /\ Reads \subseteq Nat /\ MaxUpgrades \in Nat

CHUNK_SIZE == 1024
SECTOR_SIZE == 4096

VARIABLES
  mode,         \* the boot loader, main before and after upgrade_check_image
  pc,           \* the shell thread in perform_ota_upgrade_from_file
  target,       \* target_partition_id
  size, good, version,    \* the file: its size, whether it is valid, its version
  erased, write_offset,   \* bytes of the target erased and written so far
  ended,        \* history: a read of 0 bytes has ended the copy loop
  image,        \* image[s]: version of the valid image in slot s, or Torn
  pending,      \* the upgrade request in the trailer of slot 1
  confirmed,    \* the image_ok flag of the running image
  running,      \* version of the image that runs
  calm          \* history: the files were valid and read to their ends, no
                \* upgrade failed or was cut off

vars == <<mode, pc, target, size, good, version, erased, write_offset, ended, image,
          pending, confirmed, running, calm>>

Slots == {"slot0", "slot1"}
Torn  == 0
Versions == 0 .. MaxUpgrades + 1

TypeOK ==
  /\ mode \in {"boot", "check", "app", "dead"}
  /\ pc \in {"idle", "erase", "copy", "trigger"}
  /\ target \in Slots
  /\ size \in Nat /\ erased \in Nat /\ write_offset \in Nat
  /\ version \in Versions /\ running \in Versions
  /\ image \in [Slots -> Versions]
  /\ good \in BOOLEAN /\ pending \in BOOLEAN /\ confirmed \in BOOLEAN
  /\ ended \in BOOLEAN /\ calm \in BOOLEAN

\* A device as it left the factory: version 1 in slot 0, slot 1 empty.
Init ==
  /\ mode = "boot" /\ pc = "idle"
  /\ target = "slot0" /\ size = 0 /\ good = TRUE /\ version = 1
  /\ erased = 0 /\ write_offset = 0 /\ ended = FALSE
  /\ image = [s \in Slots |-> IF s = "slot0" THEN 1 ELSE Torn]
  /\ pending = FALSE /\ confirmed = FALSE /\ running = 1
  /\ calm = TRUE

file == <<target, size, good, version>>
upgrade == <<pc, file, erased, write_offset, ended>>

-----------------------------------------------------------------------------
(* Start of the device. *)

\* MCUboot: a requested and valid image of slot 1 overwrites slot 0; then slot
\* 0 is started if it is valid.
Boot ==
  /\ mode = "boot"
  /\ LET new == IF pending /\ image["slot1"] # Torn
                THEN [image EXCEPT !["slot0"] = image["slot1"]]
                ELSE image
     IN /\ image' = new
        /\ mode' = IF new["slot0"] = Torn THEN "dead" ELSE "check"
        /\ running' = IF new["slot0"] = Torn THEN running ELSE new["slot0"]
  /\ pending' = FALSE
  /\ UNCHANGED <<upgrade, confirmed, calm>>

\* upgrade_check_image, called first by main: a failure is only logged.
CheckImage ==
  /\ mode = "check"
  /\ mode' = "app"
  /\ confirmed' \in {confirmed, TRUE}
  /\ UNCHANGED <<upgrade, image, pending, running, calm>>

-----------------------------------------------------------------------------
(* perform_ota_upgrade_from_file *)

\* Mutation: a partition that the device does not have.
SLOT1_PART_ID_Missing == "slot2"

\* The two partition ids, as the file defines them.
SLOT0_PART_ID == "slot0"
SLOT1_PART_ID == "slot0"

\* boot_fetch_active_slot: an overwrite-only boot loader runs slot 0.
ActiveSlot == "slot0"

GetUpgradeTarget == IF ActiveSlot = SLOT0_PART_ID THEN SLOT1_PART_ID ELSE SLOT0_PART_ID

\* Mutation: the size to erase is rounded down.
RoundDown(n) == (n \div SECTOR_SIZE) * SECTOR_SIZE

\* (n + 4095) & ~4095 in a size_t, in which the sum wraps
RoundUp(n) == (((n + SECTOR_SIZE - 1) % Wrap) \div SECTOR_SIZE) * SECTOR_SIZE

\* write_ota_file_to_partition up to the erase, for a file of n bytes that is a
\* valid image or not: an empty file is refused.
Upgrade(n, valid) ==
  /\ mode = "app" /\ pc = "idle" /\ version <= MaxUpgrades
  /\ n > 0
  /\ pc' = "erase"
  /\ target' = GetUpgradeTarget
  /\ size' = n
  /\ good' = valid /\ calm' = (calm /\ valid)
  /\ version' = version + 1
  /\ erased' = 0 /\ write_offset' = 0 /\ ended' = FALSE
  /\ UNCHANGED <<mode, image, pending, confirmed, running>>

\* flash_area_erase, which checks its range first, erases a sector.
EraseSector ==
  /\ pc = "erase"
  /\ RoundUp(size) <= SlotSize
  /\ erased < RoundUp(size)
  /\ erased' = erased + SECTOR_SIZE
  /\ image' = [image EXCEPT ![target] = Torn]
  /\ UNCHANGED <<mode, pc, file, write_offset, ended, pending, confirmed, running, calm>>

\* What a step leaves alone that only takes the shell thread on.
Elsewhere == UNCHANGED <<mode, file, erased, write_offset, pending, confirmed, running>>

\* The erase is complete, and k_malloc returns the buffer.
Erased ==
  /\ pc = "erase"
  /\ RoundUp(size) <= SlotSize
  /\ erased >= RoundUp(size)
  /\ pc' = "copy"
  /\ Elsewhere /\ UNCHANGED <<ended, image, calm>>

Smaller(a, b) == IF a < b THEN a ELSE b

\* What fs_read, asked for the next chunk, may return.
BytesRead == {Smaller(r, Smaller(CHUNK_SIZE, size - write_offset)) : r \in Reads}

\* One turn of the copy loop: what the slot held is lost, and the image is whole
\* with its last byte.
CopyChunk ==
  /\ pc = "copy" /\ write_offset < size
  /\ \E n \in BytesRead \ {0} :
       /\ write_offset + n <= SlotSize
       /\ write_offset' = write_offset + n
  /\ image' = [image EXCEPT ![target] = IF write_offset' = size /\ good THEN version ELSE Torn]
  /\ UNCHANGED <<mode, pc, file, erased, ended, pending, confirmed, running, calm>>

\* flash_area_write refuses bytes that end outside the slot.
WriteOutside ==
  /\ pc = "copy" /\ write_offset < size
  /\ \E n \in BytesRead \ {0} : write_offset + n > SlotSize
  /\ pc' = "idle" /\ calm' = FALSE
  /\ Elsewhere /\ UNCHANGED <<ended, image>>

\* fs_read returns 0 before the size is reached: the loop ends, and
\* write_ota_file_to_partition returns 0 as if it were complete.
ReadEnds ==
  /\ pc = "copy" /\ write_offset < size
  /\ 0 \in BytesRead
  /\ pc' = "trigger" /\ ended' = TRUE /\ calm' = FALSE
  /\ Elsewhere /\ UNCHANGED image

\* Mutation: a loop that ends one chunk early.
CopyEndsEarly ==
  /\ pc = "copy" /\ write_offset + CHUNK_SIZE >= size
  /\ pc' = "trigger"
  /\ Elsewhere /\ UNCHANGED <<ended, image, calm>>

\* write_ota_file_to_partition returns 0.
Copied ==
  /\ pc = "copy" /\ write_offset >= size
  /\ pc' = "trigger"
  /\ Elsewhere /\ UNCHANGED <<ended, image, calm>>

\* Mutation: the range is refused only behind the first of its sectors.
TooLargeErases ==
  /\ pc = "erase" /\ RoundUp(size) > SlotSize
  /\ pc' = "idle"
  /\ image' = [image EXCEPT ![target] = Torn]
  /\ Elsewhere /\ UNCHANGED <<ended, calm>>

\* flash_area_erase refuses a range that ends outside the slot.
TooLarge ==
  /\ pc = "erase" /\ RoundUp(size) > SlotSize
  /\ pc' = "idle"
  /\ Elsewhere /\ UNCHANGED <<ended, image, calm>>

\* Mutation: a write that fails does not end the upgrade.
FailGoesOn ==
  /\ pc \in {"erase", "copy"}
  /\ pc' = (IF pc = "copy" THEN "trigger" ELSE "idle")
  /\ calm' = FALSE
  /\ Elsewhere /\ UNCHANGED <<ended, image>>

\* The erase, k_malloc, fs_read, flash_area_write or boot_request_upgrade fails:
\* what was done to the slot stays done.
Fail ==
  /\ pc # "idle"
  /\ pc' = "idle"
  /\ calm' = FALSE
  /\ Elsewhere /\ UNCHANGED <<ended, image>>

\* trigger_upgrade: request the upgrade of slot 1, and reboot.
TriggerUpgrade ==
  /\ pc = "trigger"
  /\ pending' = TRUE
  /\ mode' = "boot" /\ pc' = "idle"
  /\ UNCHANGED <<file, erased, write_offset, ended, image, confirmed, running, calm>>

-----------------------------------------------------------------------------
\* Power is lost, or the program, which runs from slot 0, crashes.
Crash ==
  /\ mode \in {"check", "app"}
  /\ mode' = "boot" /\ pc' = "idle"
  /\ calm' = (calm /\ pc = "idle")
  /\ UNCHANGED <<file, erased, write_offset, ended, image, pending, confirmed, running>>

Device ==
  \/ Boot \/ CheckImage \/ EraseSector \/ Erased \/ CopyChunk \/ WriteOutside \/ ReadEnds
  \/ Copied \/ TooLarge \/ TriggerUpgrade

Next == Device \/ Fail \/ Crash \/ \E n \in FileSizes, valid \in BOOLEAN : Upgrade(n, valid)

Spec == Init /\ [][Next]_vars

\* The device goes on while it has power; an operation may fail, but need not.
FairSpec == Spec /\ WF_vars(Device)

-----------------------------------------------------------------------------
(* Properties. *)

\* The size that is rounded up to whole sectors does not wrap.
Unwrapped == size + SECTOR_SIZE - 1 < Wrap

\* Flash can only be written where it was erased: the sectors that
\* write_ota_file_to_partition erases cover every chunk its loop writes and lie
\* inside the slot, however short its reads are, for every size of the file that can
\* be rounded up in 32 bits. For a larger one erase_size is 0, the erase succeeds and
\* the loop writes to flash that was not erased; all it keeps to then is the slot.
WritesErased ==
  pc = "copy" => /\ write_offset <= size
                 /\ write_offset <= SlotSize
                 /\ Unwrapped => size <= erased /\ erased <= SlotSize

\* A boot is requested only for a file that was written to its last byte, or for the
\* part of it before a read that gave nothing: whatever else fails or comes short,
\* write_ota_file_to_partition does not return 0.
TriggersWhole == pc = "trigger" => write_offset = size \/ ended

\* The device can start whenever power returns, until a file is no valid image or
\* ends early, or an upgrade fails or is cut off: the one slot that boots is overwritten in
\* place, and whole again when the upgrade is requested.
AlwaysStarts == calm => mode # "dead"

\* A device that is up and not in an upgrade runs what its slot holds, and that is
\* the version of the last file given that fits the slot, until a file is no valid
\* image or ends early, or an upgrade fails or is cut off: none is skipped, repeated or undone,
\* whenever power is lost between two upgrades.
RunsLatest ==
  calm /\ mode \in {"check", "app"} /\ pc = "idle" =>
    /\ running = image[ActiveSlot]
    /\ RoundUp(size) <= SlotSize => running = version

\* An upgrade whose file fits the slot takes effect: it ends, and the version that
\* it writes gets to run, unless it was disturbed.
UpgradeTakesEffect ==
  \A v \in Versions :
    (pc # "idle" /\ version = v /\ size <= SlotSize) ~> (running = v \/ ~calm)

\* upgrade.c:159: running on slot 0, the upgrade is written to slot 1, and vice
\* versa.
TargetIsIdleSlot == pc # "idle" => target # ActiveSlot
=============================================================================
