----------------------------- MODULE OtaProofs ------------------------------
(***************************************************************************)
(* Proofs about Ota, for files and slots of every size.                    *)
(***************************************************************************)
EXTENDS Ota, TLAPS

\* Whole sectors are erased.
Aligned == erased % SECTOR_SIZE = 0

\* While it erases, the program has not passed the end of the range.
ErasesInRange == pc = "erase" => erased <= RoundUp(size) /\ write_offset = 0

OtaInv == TypeOK /\ Aligned /\ ErasesInRange /\ WritesErased /\ TriggersWhole

\* Only the running program upgrades; it erases nothing of a range that does not
\* fit, and versions are counted from 1.
InProgram ==
  /\ mode # "app" => pc = "idle"
  /\ pc = "erase" /\ RoundUp(size) > SlotSize => erased = 0
  /\ version > 0 /\ target = "slot0"

\* While nothing goes wrong, slot 0 holds an image except between the first erase
\* and the last write.
Whole ==
  calm =>
    /\ mode # "dead" /\ ~ended
    /\ pc # "idle" => good
    /\ pc \in {"idle", "trigger"} => image["slot0"] # Torn
    /\ pc = "erase" /\ erased = 0 => image["slot0"] # Torn
    /\ pc = "copy" /\ write_offset = size => image["slot0"] # Torn
    /\ pc # "idle" => size > 0

StartInv == OtaInv /\ InProgram /\ Whole

\* What slot 0 holds while nothing goes wrong; nothing is ever in slot 1.
Fits == RoundUp(size) <= SlotSize

Latest ==
  /\ image["slot1"] = Torn
  /\ calm =>
       /\ pc \in {"idle", "trigger"} /\ Fits => image["slot0"] = version
       /\ pc = "copy" /\ write_offset = size => image["slot0"] = version
       /\ pc \in {"copy", "trigger"} => Fits
       /\ mode # "boot" /\ (pc = "idle" \/ (pc = "erase" /\ erased = 0)) =>
            running = image["slot0"]

RunInv == StartInv /\ Latest

\* A number below Wrap does not wrap.
LEMMA NoWrap ==
  ASSUME NEW n \in Nat
  PROVE  n % Wrap \in Nat /\ (n < Wrap => n % Wrap = n)
BY OtaAssumption

\* Rounding up gives a whole number of sectors, and not less than the size unless
\* it wraps.
LEMMA RoundUpBounds ==
  ASSUME NEW n \in Nat
  PROVE  /\ RoundUp(n) \in Nat /\ RoundUp(n) % SECTOR_SIZE = 0
         /\ n + SECTOR_SIZE - 1 < Wrap => n <= RoundUp(n)
<1> DEFINE sum == n + SECTOR_SIZE - 1
           m == sum % Wrap
<1>1. sum \in Nat /\ sum = n + 4095
  BY DEF SECTOR_SIZE
<1>2. m \in Nat /\ (sum < Wrap => m = sum)
  BY <1>1, NoWrap
<1> HIDE DEF m
<1>3. /\ (m \div 4096) * 4096 \in Nat /\ ((m \div 4096) * 4096) % 4096 = 0
      /\ (m \div 4096) * 4096 > m - 4096
  BY <1>2
<1>4. RoundUp(n) = (m \div 4096) * 4096
  BY DEF RoundUp, SECTOR_SIZE, m
<1> QED
  BY <1>1, <1>2, <1>3, <1>4 DEF SECTOR_SIZE

\* Between two whole numbers of sectors there is room for a sector.
LEMMA SectorFits ==
  ASSUME NEW a \in Nat, NEW b \in Nat, a < b,
         a % SECTOR_SIZE = 0, b % SECTOR_SIZE = 0
  PROVE  a + SECTOR_SIZE <= b /\ (a + SECTOR_SIZE) % SECTOR_SIZE = 0
BY DEF SECTOR_SIZE

\* A read gives no more than what is left of the file.
LEMMA ReadGives ==
  ASSUME size \in Nat, write_offset \in Nat, write_offset < size, NEW n \in BytesRead
  PROVE  n \in Nat /\ write_offset + n <= size
<1>1. PICK r \in Reads : n = Smaller(r, Smaller(CHUNK_SIZE, size - write_offset))
  BY DEF BytesRead
<1>2. r \in Nat
  BY <1>1, OtaAssumption
<1> QED
  BY <1>1, <1>2 DEF Smaller, CHUNK_SIZE

\* The factory state satisfies the invariant.
LEMMA OtaInit == Init => OtaInv
<1> SUFFICES ASSUME Init PROVE OtaInv
  OBVIOUS
<1>1. TypeOK
  <2>1. 0 \in Versions /\ 1 \in Versions
    BY OtaAssumption DEF Versions
  <2>2. image \in [Slots -> Versions]
    BY <2>1 DEF Init, Torn
  <2> QED
    BY <2>1, <2>2 DEF Init, TypeOK, Slots
<1>2. Aligned
  BY DEF Init, Aligned, SECTOR_SIZE
<1>3. ErasesInRange /\ WritesErased /\ TriggersWhole
  BY DEF Init, ErasesInRange, WritesErased, TriggersWhole
<1> QED
  BY <1>1, <1>2, <1>3 DEF OtaInv

\* Every step keeps the types.
LEMMA OtaType ==
  ASSUME TypeOK, [Next]_vars
  PROVE  TypeOK'
<1> USE OtaAssumption DEF TypeOK, Slots, Versions, Torn, file, Elsewhere
<1>1. CASE UNCHANGED vars
  BY <1>1 DEF vars
<1>2. CASE Boot
  BY <1>2 DEF Boot, upgrade
<1>3. CASE CheckImage
  BY <1>3 DEF CheckImage, upgrade
<1>4. ASSUME NEW n \in FileSizes, NEW valid \in BOOLEAN, Upgrade(n, valid) PROVE TypeOK'
  <2>1. target' \in Slots
    BY <1>4 DEF Upgrade, GetUpgradeTarget, ActiveSlot, SLOT0_PART_ID, SLOT1_PART_ID
  <2>2. n \in Nat /\ version + 1 \in 0 .. MaxUpgrades + 1
    BY <1>4 DEF Upgrade
  <2> QED
    BY <1>4, <2>1, <2>2 DEF Upgrade
<1>5. CASE EraseSector
  BY <1>5 DEF EraseSector, SECTOR_SIZE
<1>6. CASE CopyChunk
  <2>1. write_offset' \in Nat
    BY <1>6, ReadGives DEF CopyChunk
  <2> QED
    BY <1>6, <2>1 DEF CopyChunk
<1>7. CASE Erased \/ Copied \/ ReadEnds \/ WriteOutside \/ TooLarge \/ Fail \/ TriggerUpgrade
  BY <1>7 DEF Erased, Copied, ReadEnds, WriteOutside, TooLarge, Fail, TriggerUpgrade
<1>8. CASE Crash
  BY <1>8 DEF Crash
<1> QED
  BY <1>1, <1>2, <1>3, <1>4, <1>5, <1>6, <1>7, <1>8 DEF Next, Device

\* Every step keeps the offsets of the erase and of the copy in their ranges.
LEMMA OtaStep ==
  ASSUME OtaInv, [Next]_vars
  PROVE  OtaInv'
<1>0. TypeOK'
  BY OtaType DEF OtaInv
<1> USE <1>0 DEF OtaInv, TypeOK, Aligned, ErasesInRange, WritesErased, TriggersWhole, Unwrapped,
            file, Elsewhere
<1>1. CASE UNCHANGED vars
  BY <1>1 DEF vars
<1>2. CASE Boot \/ CheckImage
  BY <1>2 DEF Boot, CheckImage, upgrade
<1>3. ASSUME NEW n \in FileSizes, NEW valid \in BOOLEAN, Upgrade(n, valid) PROVE OtaInv'
  BY <1>3, OtaAssumption, RoundUpBounds DEF Upgrade, SECTOR_SIZE
<1>4. CASE EraseSector
  <2>1. erased' <= RoundUp(size) /\ erased' % SECTOR_SIZE = 0
    BY <1>4, RoundUpBounds, SectorFits DEF EraseSector
  <2> QED
    BY <1>4, <2>1 DEF EraseSector
<1>5. CASE Erased
  BY <1>5, RoundUpBounds, OtaAssumption DEF Erased
<1>6. CASE CopyChunk
  <2>1. write_offset' <= size /\ write_offset' <= SlotSize
    BY <1>6, ReadGives DEF CopyChunk
  <2> QED
    BY <1>6, <2>1 DEF CopyChunk
<1>7. CASE Copied \/ ReadEnds \/ WriteOutside
  BY <1>7 DEF Copied, ReadEnds, WriteOutside
<1>8. CASE TooLarge \/ Fail \/ TriggerUpgrade \/ Crash
  BY <1>8 DEF TooLarge, Fail, TriggerUpgrade, Crash
<1> QED
  BY <1>1, <1>2, <1>3, <1>4, <1>5, <1>6, <1>7, <1>8 DEF Next, Device

\* The factory state can start.
LEMMA StartInit == Init => StartInv
BY OtaInit DEF Init, StartInv, InProgram, Whole, Slots, Torn

\* Every step keeps slot 0 whole while nothing goes wrong.
LEMMA StartStep ==
  ASSUME StartInv, [Next]_vars
  PROVE  StartInv'
<1>0. OtaInv'
  BY OtaStep DEF StartInv
<1> USE <1>0 DEF StartInv, InProgram, Whole, OtaInv, TypeOK, file, Elsewhere
<1>1. CASE UNCHANGED vars
  BY <1>1 DEF vars
<1>2. CASE Boot
  BY <1>2 DEF Boot, upgrade, Slots
<1>3. CASE CheckImage
  BY <1>3 DEF CheckImage, upgrade
<1>4. ASSUME NEW n \in FileSizes, NEW valid \in BOOLEAN, Upgrade(n, valid) PROVE StartInv'
  <2>1. target' = "slot0"
    BY <1>4 DEF Upgrade, GetUpgradeTarget, ActiveSlot, SLOT0_PART_ID, SLOT1_PART_ID
  <2> QED
    BY <1>4, <2>1 DEF Upgrade
<1>5. CASE EraseSector
  <2>1. erased' > 0
    BY <1>5 DEF EraseSector, SECTOR_SIZE
  <2>2. InProgram'
    BY <1>5, OtaAssumption, RoundUpBounds DEF EraseSector
  <2>3. Whole'
    BY <1>5, <2>1 DEF EraseSector
  <2> QED
    BY <2>2, <2>3
<1>6. CASE Erased
  BY <1>6 DEF Erased, ErasesInRange
<1>7. CASE CopyChunk
  BY <1>7 DEF CopyChunk, Torn, Slots
<1>8. CASE Copied \/ ReadEnds \/ WriteOutside
  BY <1>8 DEF Copied, ReadEnds, WriteOutside, WritesErased
<1>9. CASE TooLarge
  BY <1>9 DEF TooLarge
<1>10. CASE Fail \/ TriggerUpgrade \/ Crash
  BY <1>10 DEF Fail, TriggerUpgrade, Crash
<1> QED
  BY <1>1, <1>2, <1>3, <1>4, <1>5, <1>6, <1>7, <1>8, <1>9, <1>10 DEF Next, Device

\* Sizes, offsets and slots stay in their ranges for files of every size.
THEOREM OtaTyped == Spec => []TypeOK
<1>1. OtaInv /\ [Next]_vars => OtaInv'
  BY OtaStep
<1>2. OtaInv => TypeOK
  BY DEF OtaInv
<1> QED
  BY <1>1, <1>2, OtaInit, PTL DEF Spec

\* Until a file is invalid or an upgrade fails or is cut off, the device can
\* start, whatever the sizes, however many upgrades and whenever power is lost.
THEOREM StartsWhileCalm == Spec => []AlwaysStarts
<1>1. StartInv /\ [Next]_vars => StartInv'
  BY StartStep
<1>2. StartInv => AlwaysStarts
  BY DEF StartInv, Whole, AlwaysStarts
<1> QED
  BY <1>1, <1>2, StartInit, PTL DEF Spec

\* The factory state runs the version that it holds.
LEMMA RunInit == Init => RunInv
BY StartInit DEF Init, RunInv, Latest, Slots, Torn

\* Every step keeps what slot 0 holds in line with what was given.
LEMMA RunStep ==
  ASSUME RunInv, [Next]_vars
  PROVE  RunInv'
<1>0. StartInv'
  BY StartStep DEF RunInv
<1> SUFFICES Latest'
  BY <1>0 DEF RunInv
<1> USE DEF file, Elsewhere
<1>1. CASE UNCHANGED vars
  BY <1>1 DEF vars, RunInv, Latest, Fits
<1>2. CASE Boot
  <2>1. pc = "idle" /\ (calm => image["slot0"] # Torn)
    BY <1>2 DEF Boot, RunInv, StartInv, InProgram, Whole
  <2>2. image["slot1"] = Torn
    BY DEF RunInv, Latest
  <2>3. /\ UNCHANGED <<pc, image, calm, size, version>>
        /\ image["slot0"] # Torn => running' = image["slot0"]
    BY <1>2, <2>2 DEF Boot, upgrade
  <2> QED
    BY <2>1, <2>2, <2>3 DEF RunInv, Latest, Fits
<1>3. CASE CheckImage
  BY <1>3 DEF CheckImage, upgrade, RunInv, Latest, Fits
<1>4. ASSUME NEW n \in FileSizes, NEW valid \in BOOLEAN, Upgrade(n, valid) PROVE Latest'
  <2>1. /\ pc = "idle" /\ mode = "app" /\ mode' = "app" /\ pc' = "erase"
        /\ calm' => calm
        /\ image' = image /\ running' = running
    BY <1>4 DEF Upgrade
  <2> QED
    BY <2>1 DEF RunInv, Latest
<1>5. CASE EraseSector
  <2>1. erased' > 0
    BY <1>5 DEF EraseSector, SECTOR_SIZE, RunInv, StartInv, OtaInv, TypeOK
  <2>2. /\ pc = "erase" /\ pc' = "erase"
        /\ image' = [image EXCEPT !["slot0"] = Torn]
    BY <1>5 DEF EraseSector, RunInv, StartInv, InProgram
  <2>3. image'["slot1"] = Torn
    BY <2>2 DEF RunInv, Latest
  <2> QED
    BY <2>1, <2>2, <2>3 DEF Latest
<1>6. CASE Erased
  <2>1. write_offset = 0 /\ (calm => size > 0)
    BY <1>6 DEF Erased, RunInv, StartInv, OtaInv, ErasesInRange, Whole
  <2> QED
    BY <1>6, <2>1 DEF Erased, RunInv, Latest, Fits
<1>7. CASE CopyChunk
  BY <1>7 DEF CopyChunk, Torn, Slots, RunInv, Latest, Fits, StartInv, InProgram, Whole,
              OtaInv, TypeOK
<1>8. CASE Copied
  <2>1. write_offset = size
    BY <1>8 DEF Copied, RunInv, StartInv, OtaInv, TypeOK, WritesErased
  <2> QED
    BY <1>8, <2>1 DEF Copied, RunInv, Latest, Fits
<1>9. CASE TooLarge
  <2>1. erased = 0
    BY <1>9 DEF TooLarge, RunInv, StartInv, InProgram
  <2>2. ~Fits /\ UNCHANGED <<image, running, size, calm, mode>> /\ pc = "erase" /\ pc' = "idle"
    BY <1>9, OtaAssumption, RoundUpBounds
    DEF TooLarge, Fits, RunInv, StartInv, OtaInv, TypeOK
  <2> QED
    BY <2>1, <2>2 DEF RunInv, Latest, Fits
<1>10. CASE ReadEnds \/ WriteOutside \/ Fail \/ TriggerUpgrade
  BY <1>10 DEF ReadEnds, WriteOutside, Fail, TriggerUpgrade, RunInv, Latest, Fits
<1>11. CASE Crash
  BY <1>11 DEF Crash, RunInv, Latest, Fits
<1> QED
  BY <1>1, <1>2, <1>3, <1>4, <1>5, <1>6, <1>7, <1>8, <1>9, <1>10, <1>11
  DEF Next, Device

\* THE LAST UPGRADE RUNS: undisturbed, the device runs the version of the last
\* file that fits its slot, however many upgrades were made, of whatever sizes.
THEOREM RunsTheLatest == Spec => []RunsLatest
<1>1. RunInv /\ [Next]_vars => RunInv'
  BY RunStep
<1>2. RunInv => RunsLatest
  BY DEF RunInv, Latest, Fits, RunsLatest, ActiveSlot
<1> QED
  BY <1>1, <1>2, RunInit, PTL DEF Spec

\* Whatever the sizes of file and slot and however short the reads, the copy loop
\* stays inside the slot, and writes erased flash only unless the rounded size of the
\* file wraps.
THEOREM WritesOnlyErased == Spec => []WritesErased
<1>1. OtaInv /\ [Next]_vars => OtaInv'
  BY OtaStep
<1>2. OtaInv => WritesErased
  BY DEF OtaInv
<1> QED
  BY <1>1, <1>2, OtaInit, PTL DEF Spec

\* Whatever fails and however short the reads, the boot loader is asked only for a
\* file that was written to its last byte or up to a read that gave nothing.
THEOREM TriggersOnlyWhole == Spec => []TriggersWhole
<1>1. OtaInv /\ [Next]_vars => OtaInv'
  BY OtaStep
<1>2. OtaInv => TriggersWhole
  BY DEF OtaInv
<1> QED
  BY <1>1, <1>2, OtaInit, PTL DEF Spec
=============================================================================
