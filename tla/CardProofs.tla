----------------------------- MODULE CardProofs -----------------------------
(***************************************************************************)
(* Proofs about Card, for cards, heaps, pools and arguments of every size. *)
(***************************************************************************)
EXTENDS Card, TLAPS

\* How far the command of the shell has come.
Progress ==
  /\ shell \in {"unlink", "create"} => bytes_written = 0
  /\ shell \in {"unlink", "create", "write", "reopen"} => bytes_read = 0
  /\ shell = "write" => bytes_written <= len
  /\ shell \in {"reopen", "read", "cleanup"} => bytes_written = total_bytes
  /\ shell \in {"reopen", "read"} => total_bytes <= len
  /\ shell = "cleanup" => bytes_read = total_bytes
  /\ shell \in ShellHeap /\ bytes_written > 0 => buf_size > 0
  /\ shell \in {"setup", "hash"} => hashed <= len
  /\ result \in {"tested", "hashed"} => shell = "idle"
  /\ shell \in ShellHeap => total_bytes = (size_mb * MB) % Wrap

CardInv == TypeOK /\ ObjectsAccounted /\ ReportsAll /\ Progress

\* The constants, without the fields of the arguments.
LEMMA Constants ==
  /\ MB \in Nat /\ Wrap \in Nat /\ Wrap > 0 /\ Heap \in Nat /\ Room \in Nat /\ Files \in Nat
  /\ READ_BUFFER_SIZE \in Nat /\ READ_BUFFER_SIZE > 0
BY CardAssumption

\* A number of bytes that has wrapped.
LEMMA Wrapped ==
  ASSUME NEW n \in Nat
  PROVE  n % Wrap \in 0 .. Wrap - 1
BY Constants

\* A number of bytes that has not.
LEMMA NotWrapped ==
  ASSUME NEW n \in Nat, n < Wrap
  PROVE  n % Wrap = n
BY Constants

\* A chunk is at most what is left, and 0 only when nothing can be moved.
LEMMA ChunkFits ==
  ASSUME TypeOK, NEW done \in 0 .. total_bytes, NEW limit \in Nat
  PROVE  /\ Least(Chunk(done), limit) \in Nat
         /\ Least(Chunk(done), limit) <= total_bytes - done
         /\ Least(Chunk(done), limit) <= limit
         /\ Least(Chunk(done), limit) <= buf_size
         /\ done < total_bytes /\ buf_size > 0 /\ limit > 0 => Least(Chunk(done), limit) > 0
<1>1. total_bytes \in Nat /\ buf_size \in Nat
  BY Constants DEF TypeOK
<1> QED
  BY <1>1 DEF Chunk, Least

LEMMA CardInit == Init => CardInv
<1> SUFFICES ASSUME Init PROVE CardInv
  OBVIOUS
<1>1. TypeOK
  <2>1. len \in 0 .. Room /\ exists \in BOOLEAN
    <3>1. CASE exists = TRUE /\ len \in 0 .. Room
      BY <3>1
    <3>2. CASE exists = FALSE /\ len = 0
      <4>1. len \in 0 .. Room
        BY <3>2, Constants
      <4> QED
        BY <3>2, <4>1
    <3> QED
      BY <3>1, <3>2 DEF Init
  <2>2. /\ files \in 0 .. Files /\ dirs \in 0 .. 1 /\ heap \in 0 .. 1 /\ hashed \in 0 .. Room
        /\ size_mb \in Sizes \cup {0}
        /\ total_bytes \in 0 .. Wrap - 1 /\ buf_size \in 0 .. Wrap - 1
        /\ bytes_written \in 0 .. total_bytes /\ bytes_read \in 0 .. total_bytes
    BY Constants DEF Init
  <2>3. main \in MainSteps /\ shell \in ShellSteps
    BY DEF Init, MainSteps, ShellSteps
  <2>4. mounted \in BOOLEAN /\ others \in BOOLEAN /\ seen \in BOOLEAN
        /\ result \in {"none", "failed", "tested", "hashed"}
    BY DEF Init
  <2> QED
    BY <2>1, <2>2, <2>3, <2>4 DEF TypeOK
<1>2. ObjectsAccounted
  BY DEF Init, ObjectsAccounted, Count, MainFile, MainDir, ShellFile, ShellHeap
<1>3. ReportsAll /\ Progress
  BY DEF Init, ReportsAll, Progress, ShellHeap
<1> QED
  BY <1>1, <1>2, <1>3 DEF CardInv

-----------------------------------------------------------------------------
(* The main thread. *)

\* A step of the main thread that gives back what it has taken.
LEMMA MainGoes ==
  ASSUME CardInv, MainOnly, main' \in MainSteps,
         mounted' \in BOOLEAN, others' \in BOOLEAN, seen' \in BOOLEAN,
         dirs' = Count(main' \in MainDir),
         files' \in 0 .. Files,
         files' = Count(main' \in MainFile) + Count(shell \in ShellFile)
  PROVE  CardInv'
<1>1. TypeOK'
  BY DEF CardInv, TypeOK, MainOnly, args, Count
<1>2. ObjectsAccounted'
  BY DEF CardInv, ObjectsAccounted, MainOnly, Count
<1>3. ReportsAll' /\ Progress'
  BY DEF CardInv, ReportsAll, Progress, MainOnly, args
<1> QED
  BY <1>1, <1>2, <1>3 DEF CardInv

LEMMA MainKeeps ==
  ASSUME CardInv, Main
  PROVE  CardInv'
<1>1. /\ files \in 0 .. Files /\ Files \in Nat /\ mounted \in BOOLEAN /\ others \in BOOLEAN
      /\ exists \in BOOLEAN /\ seen \in BOOLEAN
      /\ files = Count(main \in MainFile) + Count(shell \in ShellFile)
      /\ dirs = Count(main \in MainDir)
  BY Constants DEF CardInv, TypeOK, ObjectsAccounted
<1>2. Count(shell \in ShellFile) \in {0, 1}
  BY DEF Count
<1>3. CASE Mount
  BY <1>1, <1>3, MainGoes DEF Mount, MainSteps, MainFile, MainDir, Count
<1>4. CASE OpenDir
  BY <1>1, <1>4, MainGoes DEF OpenDir, MainSteps, MainFile, MainDir, Count
<1>5. CASE ListDir
  BY <1>1, <1>5, MainGoes DEF ListDir, MainSteps, MainFile, MainDir, Count
<1>6. CASE CreateEntry
  <2>1. CASE main' = "close"
    <3>1. files' = files + 1 /\ files < Files /\ others' = TRUE /\ MainOnly
          /\ UNCHANGED <<mounted, seen, dirs>> /\ main = "create"
      BY <1>6, <2>1 DEF CreateEntry
    <3>2. files' \in 0 .. Files
      BY <1>1, <3>1
    <3> QED
      BY <1>1, <1>2, <2>1, <3>1, <3>2, MainGoes DEF MainSteps, MainFile, MainDir, Count
  <2>2. CASE main' # "close"
    <3>1. main' = "up" /\ UNCHANGED <<files, others, seen, mounted, dirs>> /\ MainOnly /\ main = "create"
      BY <1>6, <2>2 DEF CreateEntry
    <3> QED
      BY <1>1, <3>1, MainGoes DEF MainSteps, MainFile, MainDir, Count
  <2> QED
    BY <2>1, <2>2
<1>7. CASE CloseEntry
  <2>1. main = "close" /\ main' = "relist" /\ files' = files - 1 /\ MainOnly
        /\ UNCHANGED <<mounted, others, seen, dirs>>
    BY <1>7 DEF CloseEntry
  <2>2. files' = Count(main' \in MainFile) + Count(shell \in ShellFile) /\ files' \in 0 .. Files
    BY <1>1, <1>2, <2>1 DEF MainFile, Count
  <2>3. dirs' = Count(main' \in MainDir)
    BY <1>1, <2>1 DEF MainDir, Count
  <2> QED
    BY <1>1, <2>1, <2>2, <2>3, MainGoes DEF MainSteps, MainDir
<1>8. CASE ReadDir
  <2>1. /\ main = "listing" /\ main' = "listed" /\ seen' \in BOOLEAN /\ MainOnly
        /\ UNCHANGED <<mounted, others, files, dirs>>
    BY <1>1, <1>8 DEF ReadDir
  <2> QED
    BY <1>1, <2>1, MainGoes DEF MainSteps, MainFile, MainDir, Count
<1> QED
  BY <1>3, <1>4, <1>5, <1>6, <1>7, <1>8 DEF Main

-----------------------------------------------------------------------------
(* The shell. *)

\* A step of the shell that takes and gives back what its steps say.
LEMMA ShellGoes ==
  ASSUME CardInv, ShellOnly, shell' \in ShellSteps,
         exists' \in BOOLEAN, len' \in 0 .. Room, hashed' \in 0 .. Room,
         files' \in 0 .. Files,
         files' - Count(shell' \in ShellFile) = files - Count(shell \in ShellFile),
         heap' = Count(shell' \in ShellHeap),
         size_mb' \in Sizes \cup {0},
         total_bytes' \in 0 .. Wrap - 1, buf_size' \in 0 .. Wrap - 1,
         bytes_written' \in 0 .. total_bytes', bytes_read' \in 0 .. total_bytes',
         result' \in {"none", "failed", "tested", "hashed"},
         ReportsAll', Progress'
  PROVE  CardInv'
<1>1. TypeOK'
  BY DEF CardInv, TypeOK, ShellOnly, Count
<1>2. ObjectsAccounted'
  <2>1. /\ files = Count(main \in MainFile) + Count(shell \in ShellFile)
        /\ dirs = Count(main \in MainDir)
    BY DEF CardInv, ObjectsAccounted
  <2>2. /\ Count(main \in MainFile) \in {0, 1} /\ Count(shell \in ShellFile) \in {0, 1}
        /\ Count(shell' \in ShellFile) \in {0, 1}
    BY DEF Count
  <2>3. files' = Count(main \in MainFile) + Count(shell' \in ShellFile)
    BY <2>1, <2>2, Constants
  <2> QED
    BY <2>1, <2>3 DEF ObjectsAccounted, ShellOnly, Count
<1> QED
  BY <1>1, <1>2 DEF CardInv

\* What a step of the shell may rely on.
LEMMA ShellKnows ==
  ASSUME CardInv
  PROVE  /\ files \in 0 .. Files /\ Files \in Nat /\ len \in 0 .. Room /\ Room \in Nat
         /\ Wrap \in Nat /\ exists \in BOOLEAN /\ hashed \in 0 .. Room
         /\ size_mb \in Sizes \cup {0} /\ size_mb \in Nat /\ MB \in Nat
         /\ total_bytes \in 0 .. Wrap - 1 /\ buf_size \in 0 .. Wrap - 1
         /\ bytes_written \in 0 .. total_bytes /\ bytes_read \in 0 .. total_bytes
         /\ result \in {"none", "failed", "tested", "hashed"}
         /\ heap = Count(shell \in ShellHeap)
         /\ shell \in ShellFile => files > 0
         /\ ReportsAll /\ Progress
<1>1. Count(main \in MainFile) \in {0, 1} /\ Count(shell \in ShellFile) \in {0, 1}
  BY DEF Count
<1>2. shell \in ShellFile => files > 0
  BY <1>1 DEF CardInv, ObjectsAccounted, Count
<1>3. size_mb \in Nat
  BY CardAssumption DEF CardInv, TypeOK
<1> QED
  BY <1>2, <1>3, Constants DEF CardInv, TypeOK, ObjectsAccounted

\* A command that fails gives back what it holds.
LEMMA Gives ==
  ASSUME CardInv, NEW outcome \in {"failed", "tested", "hashed"}, Return(outcome)
  PROVE  /\ files' \in 0 .. Files
         /\ files' - Count(shell' \in ShellFile) = files - Count(shell \in ShellFile)
         /\ heap' = Count(shell' \in ShellHeap)
         /\ shell' \in ShellSteps
<1>1. shell' = "idle" /\ shell' \in ShellSteps /\ shell' \notin ShellFile \cup ShellHeap
  BY DEF Return, ShellSteps, ShellFile, ShellHeap
<1>2. heap' = 0
  BY ShellKnows DEF Return, Count
<1>3. CASE shell \in ShellFile
  BY <1>1, <1>2, <1>3, ShellKnows DEF Return, Count
<1>4. CASE shell \notin ShellFile
  BY <1>1, <1>2, <1>4, ShellKnows DEF Return, Count
<1> QED
  BY <1>3, <1>4

LEMMA Fails ==
  ASSUME CardInv, Return("failed"), ShellOnly, exists' \in BOOLEAN, len' \in 0 .. Room,
         UNCHANGED <<args, bytes_written, bytes_read, hashed>>
  PROVE  CardInv'
<1>1. shell' = "idle" /\ result' = "failed"
  BY DEF Return
<1>2. ReportsAll' /\ Progress'
  BY <1>1 DEF ReportsAll, Progress, ShellHeap
<1> QED
  BY <1>1, <1>2, Gives, ShellKnows, ShellGoes DEF args

\* A step that opens a file object.
LEMMA Takes ==
  ASSUME CardInv, NEW step \in ShellFile, Opens(step), shell \notin ShellFile
  PROVE  /\ files' \in 0 .. Files
         /\ files' - Count(shell' \in ShellFile) = files - Count(shell \in ShellFile)
         /\ shell' = step
BY ShellKnows DEF Opens, Count

\* fs_unlink, whether it succeeds or not.
LEMMA Unlinks ==
  ASSUME CardInv, MayUnlink
  PROVE  exists' \in BOOLEAN /\ len' \in 0 .. Room
<1>1. 0 \in 0 .. Room /\ len \in 0 .. Room /\ exists \in BOOLEAN
  BY ShellKnows
<1>2. CASE exists' = FALSE /\ len' = 0
  BY <1>1, <1>2
<1>3. CASE UNCHANGED <<exists, len>>
  BY <1>1, <1>3
<1> QED
  BY <1>2, <1>3 DEF MayUnlink

LEMMA CommandKeeps ==
  ASSUME CardInv, Command
  PROVE  CardInv'
<1>1. ASSUME NEW s \in Sizes, NEW b \in Buffers, SpeedTest(s, b) PROVE CardInv'
  <2>1. s \in Nat /\ b \in Nat
    BY CardAssumption
  <2>2. total_bytes' \in 0 .. Wrap - 1 /\ buf_size' \in 0 .. Wrap - 1
    <3>1. s * MB \in Nat
      BY <2>1, Constants
    <3> QED
      BY <1>1, <2>1, <3>1, Wrapped DEF SpeedTest
  <2>3. /\ bytes_written' = 0 /\ bytes_read' = 0 /\ shell = "idle" /\ ShellOnly
        /\ size_mb' = s /\ size_mb' \in Sizes \cup {0} /\ total_bytes' = (s * MB) % Wrap
        /\ UNCHANGED <<exists, len, files, hashed>>
    BY <1>1 DEF SpeedTest
  <2>4. bytes_written' \in 0 .. total_bytes' /\ bytes_read' \in 0 .. total_bytes'
    BY <2>2, <2>3, Constants
  <2>5. heap = 0
    BY <2>3, ShellKnows DEF Count, ShellHeap
  <2>6. CASE heap' = heap + 1 /\ shell' = "unlink" /\ result' = "none"
    <3>1. ReportsAll' /\ Progress'
      BY <2>3, <2>6 DEF ReportsAll, Progress
    <3>2. /\ heap' = Count(shell' \in ShellHeap) /\ shell' \in ShellSteps
          /\ files' - Count(shell' \in ShellFile) = files - Count(shell \in ShellFile)
      BY <2>3, <2>5, <2>6 DEF Count, ShellSteps, ShellFile, ShellHeap
    <3> QED
      BY <2>2, <2>3, <2>4, <2>6, <3>1, <3>2, ShellKnows, ShellGoes
  <2>7. CASE result' = "failed" /\ UNCHANGED <<heap, shell>>
    <3>1. ReportsAll' /\ Progress'
      BY <2>3, <2>7 DEF ReportsAll, Progress, ShellHeap
    <3>2. /\ heap' = Count(shell' \in ShellHeap) /\ shell' \in ShellSteps
          /\ files' - Count(shell' \in ShellFile) = files - Count(shell \in ShellFile)
      BY <2>3, <2>5, <2>7 DEF Count, ShellSteps, ShellFile, ShellHeap
    <3> QED
      BY <2>2, <2>3, <2>4, <2>7, <3>1, <3>2, ShellKnows, ShellGoes
  <2> QED
    BY <1>1, <2>6, <2>7 DEF SpeedTest
<1>2. CASE Hash
  <2>1. /\ shell = "idle" /\ hashed' = 0 /\ ShellOnly
        /\ UNCHANGED <<exists, len, heap, args, bytes_written, bytes_read>>
    BY <1>2 DEF Hash
  <2>2. hashed' \in 0 .. Room /\ heap = 0
    BY <2>1, ShellKnows DEF Count, ShellHeap
  <2>3. CASE Opens("setup") /\ result' = "none"
    <3>1. shell' = "setup" /\ files' \in 0 .. Files
          /\ files' - Count(shell' \in ShellFile) = files - Count(shell \in ShellFile)
      BY <2>1, <2>3, Takes DEF ShellFile
    <3>2. ReportsAll' /\ Progress'
      BY <2>1, <2>3, <3>1, ShellKnows DEF ReportsAll, Progress, ShellHeap
    <3>3. heap' = Count(shell' \in ShellHeap) /\ shell' \in ShellSteps
      BY <2>1, <2>2, <3>1 DEF Count, ShellSteps, ShellHeap, ShellFile
    <3> QED
      BY <2>1, <2>2, <2>3, <3>1, <3>2, <3>3, ShellKnows, ShellGoes DEF args
  <2>4. CASE result' = "failed" /\ UNCHANGED <<shell, files>>
    <3>1. ReportsAll' /\ Progress'
      BY <2>1, <2>4 DEF ReportsAll, Progress, ShellHeap
    <3>2. heap' = Count(shell' \in ShellHeap) /\ shell' \in ShellSteps
      BY <2>1, <2>2, <2>4 DEF Count, ShellSteps, ShellHeap
    <3>3. files' - Count(shell' \in ShellFile) = files - Count(shell \in ShellFile)
      BY <2>4
    <3> QED
      BY <2>1, <2>2, <2>4, <3>1, <3>2, <3>3, ShellKnows, ShellGoes DEF args
  <2> QED
    BY <1>2, <2>3, <2>4 DEF Hash
<1> QED
  BY <1>1, <1>2 DEF Command

LEMMA RunningKeeps ==
  ASSUME CardInv, Running \/ Failing
  PROVE  CardInv'
<1> USE DEF args
<1>1. /\ "write" \in ShellSteps /\ "read" \in ShellSteps /\ "hash" \in ShellSteps
      /\ "setup" \in ShellSteps
      /\ "create" \in ShellSteps /\ "reopen" \in ShellSteps /\ "cleanup" \in ShellSteps
      /\ "idle" \in ShellSteps
  BY DEF ShellSteps, ShellFile, ShellHeap
<1>2. CASE Unlink
  <2>1. /\ shell = "unlink" /\ shell' = "create" /\ ShellOnly
        /\ UNCHANGED <<files, heap, args, bytes_written, bytes_read, hashed, result>>
        /\ exists' \in BOOLEAN /\ len' \in 0 .. Room
    BY <1>2, Unlinks DEF Unlink
  <2>2. ReportsAll' /\ Progress'
    BY <2>1, ShellKnows DEF ReportsAll, Progress, ShellHeap
  <2>3. heap' = Count(shell' \in ShellHeap)
        /\ files' - Count(shell' \in ShellFile) = files - Count(shell \in ShellFile)
    BY <2>1, ShellKnows DEF Count, ShellHeap, ShellFile
  <2> QED
    BY <1>1, <2>1, <2>2, <2>3, ShellKnows, ShellGoes
<1>3. CASE Create
  <2>1. shell = "create" /\ ShellOnly /\ UNCHANGED <<args, bytes_written, bytes_read, hashed>>
    BY <1>3 DEF Create
  <2>2. CASE Opens("write") /\ exists' = TRUE /\ UNCHANGED <<len, heap, result>>
    <3>1. shell' = "write" /\ files' \in 0 .. Files
          /\ files' - Count(shell' \in ShellFile) = files - Count(shell \in ShellFile)
      BY <2>1, <2>2, Takes DEF ShellFile
    <3>2. bytes_written = 0 /\ bytes_read = 0
      BY <2>1, ShellKnows DEF Progress
    <3>3. ReportsAll' /\ Progress'
      BY <2>1, <2>2, <3>1, <3>2, ShellKnows DEF ReportsAll, Progress, ShellHeap
    <3>4. heap' = Count(shell' \in ShellHeap)
      BY <2>1, <2>2, <3>1, ShellKnows DEF Count, ShellHeap
    <3> QED
      BY <1>1, <2>1, <2>2, <3>1, <3>3, <3>4, ShellKnows, ShellGoes
  <2>3. CASE Return("failed") /\ UNCHANGED <<exists, len>>
    BY <2>1, <2>3, ShellKnows, Fails
  <2> QED
    BY <1>3, <2>2, <2>3 DEF Create
<1>4. CASE WriteChunk
  <2> DEFINE n == Least(Chunk(bytes_written), Room - bytes_written)
  <2>1. /\ shell = "write" /\ bytes_written < total_bytes /\ ShellOnly
        /\ bytes_written' = bytes_written + n
        /\ len' = IF bytes_written' > len THEN bytes_written' ELSE len
        /\ UNCHANGED <<shell, exists, files, heap, args, bytes_read, hashed, result>>
    BY <1>4 DEF WriteChunk
  <2>2. bytes_written <= len /\ Room - bytes_written \in Nat
    BY <2>1, ShellKnows DEF Progress
  <2>3. /\ n \in Nat /\ n <= total_bytes - bytes_written /\ n <= Room - bytes_written
        /\ n <= buf_size
    BY <2>2, ShellKnows, ChunkFits DEF CardInv
  <2> HIDE DEF n
  <2>4. /\ bytes_written' \in 0 .. total_bytes' /\ bytes_written' <= len'
        /\ len' \in 0 .. Room
        /\ bytes_written' > 0 => buf_size > 0
    BY <2>1, <2>2, <2>3, ShellKnows DEF Progress, ShellHeap
  <2>5. ReportsAll' /\ Progress'
    BY <2>1, <2>4, ShellKnows DEF ReportsAll, Progress, ShellHeap
  <2>6. heap' = Count(shell' \in ShellHeap)
        /\ files' - Count(shell' \in ShellFile) = files - Count(shell \in ShellFile)
    BY <2>1, ShellKnows
  <2> QED
    BY <1>1, <2>1, <2>4, <2>5, <2>6, ShellKnows, ShellGoes
<1>5. CASE WriteFails
  BY <1>5, ShellKnows, Fails DEF WriteFails
<1>6. CASE Written
  <2>1. /\ shell = "write" /\ bytes_written >= total_bytes /\ ShellOnly
        /\ files' = files - 1 /\ shell' = "reopen"
        /\ UNCHANGED <<exists, len, heap, args, bytes_written, bytes_read, hashed, result>>
    BY <1>6 DEF Written
  <2>2. bytes_written = total_bytes /\ total_bytes <= len
    BY <2>1, ShellKnows DEF Progress
  <2>3. ReportsAll' /\ Progress'
    BY <2>1, <2>2, ShellKnows DEF ReportsAll, Progress, ShellHeap
  <2>4. /\ files' \in 0 .. Files /\ heap' = Count(shell' \in ShellHeap)
        /\ files' - Count(shell' \in ShellFile) = files - Count(shell \in ShellFile)
    BY <2>1, ShellKnows DEF Count, ShellHeap, ShellFile
  <2> QED
    BY <1>1, <2>1, <2>3, <2>4, ShellKnows, ShellGoes
<1>7. CASE Reopen
  <2>1. /\ shell = "reopen" /\ ShellOnly
        /\ UNCHANGED <<exists, len, args, bytes_written, bytes_read, hashed>>
    BY <1>7 DEF Reopen
  <2>2. CASE Opens("read") /\ UNCHANGED <<heap, result>>
    <3>1. shell' = "read" /\ files' \in 0 .. Files
          /\ files' - Count(shell' \in ShellFile) = files - Count(shell \in ShellFile)
      BY <2>1, <2>2, Takes DEF ShellFile
    <3>2. ReportsAll' /\ Progress'
      BY <2>1, <2>2, <3>1, ShellKnows DEF ReportsAll, Progress, ShellHeap
    <3>3. heap' = Count(shell' \in ShellHeap)
      BY <2>1, <2>2, <3>1, ShellKnows DEF Count, ShellHeap
    <3> QED
      BY <1>1, <2>1, <2>2, <3>1, <3>2, <3>3, ShellKnows, ShellGoes
  <2>3. CASE Return("failed")
    BY <2>1, <2>3, ShellKnows, Fails
  <2> QED
    BY <1>7, <2>2, <2>3 DEF Reopen
<1>8. CASE ReadChunk
  <2> DEFINE n == Least(Chunk(bytes_read), len - bytes_read)
  <2>1. /\ shell = "read" /\ ShellOnly /\ bytes_read' = bytes_read + n
        /\ UNCHANGED <<shell, exists, len, files, heap, args, bytes_written, hashed, result>>
    BY <1>8 DEF ReadChunk
  <2>2. len - bytes_read \in Nat
    BY <2>1, ShellKnows DEF Progress
  <2>3. n \in Nat /\ n <= total_bytes - bytes_read
    BY <2>2, ShellKnows, ChunkFits DEF CardInv
  <2> HIDE DEF n
  <2>4. bytes_read' \in 0 .. total_bytes'
    BY <2>1, <2>3, ShellKnows
  <2>5. ReportsAll' /\ Progress'
    BY <2>1, ShellKnows DEF ReportsAll, Progress, ShellHeap
  <2>6. heap' = Count(shell' \in ShellHeap)
        /\ files' - Count(shell' \in ShellFile) = files - Count(shell \in ShellFile)
    BY <2>1, ShellKnows
  <2> QED
    BY <1>1, <2>1, <2>4, <2>5, <2>6, ShellKnows, ShellGoes
<1>9. CASE ReadFails
  BY <1>9, ShellKnows, Fails DEF ReadFails
<1>10. CASE ReadDone
  <2>1. /\ shell = "read" /\ ShellOnly /\ files' = files - 1 /\ shell' = "cleanup"
        /\ bytes_read >= total_bytes \/ Least(Chunk(bytes_read), len - bytes_read) = 0
        /\ UNCHANGED <<exists, len, heap, args, bytes_written, bytes_read, hashed, result>>
    BY <1>10 DEF ReadDone
  <2>2. bytes_written = total_bytes /\ total_bytes <= len /\ len - bytes_read \in Nat
        /\ (bytes_written > 0 => buf_size > 0)
    BY <2>1, ShellKnows DEF Progress, ShellHeap
  <2>3. bytes_read = total_bytes
    <3>1. CASE bytes_read >= total_bytes
      BY <3>1, ShellKnows
    <3>2. CASE bytes_read < total_bytes
      <4>1. Least(Chunk(bytes_read), len - bytes_read) > 0
        BY <2>2, <3>2, ShellKnows, ChunkFits DEF CardInv
      <4> QED
        BY <2>1, <3>2, <4>1, ShellKnows
    <3> QED
      BY <3>1, <3>2, ShellKnows
  <2>4. ReportsAll' /\ Progress'
    BY <2>1, <2>2, <2>3, ShellKnows DEF ReportsAll, Progress, ShellHeap
  <2>5. /\ files' \in 0 .. Files /\ heap' = Count(shell' \in ShellHeap)
        /\ files' - Count(shell' \in ShellFile) = files - Count(shell \in ShellFile)
    BY <2>1, ShellKnows DEF Count, ShellHeap, ShellFile
  <2> QED
    BY <1>1, <2>1, <2>4, <2>5, ShellKnows, ShellGoes
<1>11. CASE Cleanup
  <2>1. /\ shell = "cleanup" /\ ShellOnly /\ Return("tested")
        /\ UNCHANGED <<args, bytes_written, bytes_read, hashed>>
        /\ exists' \in BOOLEAN /\ len' \in 0 .. Room
    BY <1>11, Unlinks DEF Cleanup
  <2>2. shell' = "idle" /\ result' = "tested"
    BY <2>1 DEF Return
  <2>3. /\ bytes_read = total_bytes /\ bytes_written = total_bytes
        /\ total_bytes = (size_mb * MB) % Wrap
    BY <2>1, ShellKnows DEF Cleanup, Progress, ShellHeap
  <2>4. size_mb * MB < Wrap => total_bytes = size_mb * MB
    <3>1. size_mb * MB \in Nat
      BY ShellKnows
    <3> QED
      BY <2>3, <3>1, NotWrapped
  <2>5. ReportsAll' /\ Progress'
    BY <2>1, <2>2, <2>3, <2>4, ShellKnows DEF ReportsAll, Progress, ShellHeap
  <2> QED
    BY <2>1, <2>2, <2>5, Gives, ShellKnows, ShellGoes
<1>12. CASE HashChunk
  <2>1. /\ shell = "hash" /\ hashed < len /\ ShellOnly
        /\ hashed' = hashed + Least(READ_BUFFER_SIZE, len - hashed)
        /\ UNCHANGED <<shell, exists, len, files, heap, args, bytes_written, bytes_read, result>>
    BY <1>12 DEF HashChunk
  <2>2. hashed' \in 0 .. Room /\ hashed' <= len
    BY <2>1, ShellKnows, Constants DEF Least
  <2>3. ReportsAll' /\ Progress'
    BY <2>1, <2>2, ShellKnows DEF ReportsAll, Progress, ShellHeap
  <2>4. heap' = Count(shell' \in ShellHeap)
        /\ files' - Count(shell' \in ShellFile) = files - Count(shell \in ShellFile)
    BY <2>1, ShellKnows
  <2> QED
    BY <1>1, <2>1, <2>2, <2>3, <2>4, ShellKnows, ShellGoes
<1>13. CASE HashFails
  BY <1>13, ShellKnows, Fails DEF HashFails
<1>14. CASE HashDone
  <2>1. /\ shell = "hash" /\ hashed = len /\ ShellOnly /\ Return("hashed")
        /\ UNCHANGED <<exists, len, args, bytes_written, bytes_read, hashed>>
    BY <1>14 DEF HashDone
  <2>2. shell' = "idle" /\ result' = "hashed"
    BY <2>1 DEF Return
  <2>3. ReportsAll' /\ Progress'
    BY <2>1, <2>2, ShellKnows DEF ReportsAll, Progress, ShellHeap
  <2> QED
    BY <2>1, <2>2, <2>3, Gives, ShellKnows, ShellGoes
<1>15. CASE Setup
  <2>1. /\ shell = "setup" /\ ShellOnly
        /\ UNCHANGED <<exists, len, args, bytes_written, bytes_read, hashed>>
    BY <1>15 DEF Setup
  <2>2. CASE shell' = "hash" /\ UNCHANGED <<files, heap, result>>
    <3>1. hashed <= len
      BY <2>1, ShellKnows DEF Progress
    <3>2. ReportsAll' /\ Progress'
      BY <2>1, <2>2, <3>1, ShellKnows DEF ReportsAll, Progress, ShellHeap
    <3>3. heap' = Count(shell' \in ShellHeap)
          /\ files' - Count(shell' \in ShellFile) = files - Count(shell \in ShellFile)
      BY <2>1, <2>2, ShellKnows DEF Count, ShellHeap, ShellFile
    <3> QED
      BY <1>1, <2>1, <2>2, <3>2, <3>3, ShellKnows, ShellGoes
  <2>3. CASE Return("failed")
    BY <2>1, <2>3, ShellKnows, Fails
  <2> QED
    BY <1>15, <2>2, <2>3 DEF Setup
<1> QED
  BY <1>2, <1>3, <1>4, <1>5, <1>6, <1>7, <1>8, <1>9, <1>10, <1>11, <1>12, <1>13, <1>14, <1>15
  DEF Running, Failing

LEMMA CardAlways == Spec => []CardInv
<1>1. CardInv /\ [Next]_vars => CardInv'
  <2> SUFFICES ASSUME CardInv, [Next]_vars PROVE CardInv'
    OBVIOUS
  <2>1. CASE UNCHANGED vars
    <3>1. TypeOK' /\ ObjectsAccounted'
      BY <2>1 DEF vars, card, args, CardInv, TypeOK, ObjectsAccounted, Count
    <3>2. ReportsAll' /\ Progress'
      BY <2>1 DEF vars, card, args, CardInv, ReportsAll, Progress
    <3> QED
      BY <3>1, <3>2 DEF CardInv
  <2> QED
    BY <2>1, MainKeeps, CommandKeeps, RunningKeeps DEF Next
<1> QED
  BY <1>1, CardInit, PTL DEF Spec

\* EVERY STATE HAS ITS TYPE: the pools are never overdrawn and nothing is given
\* back twice, and neither loop of cmd_sd_speed passes its end, although the
\* numbers of bytes wrap.
THEOREM CardTyped == Spec => []TypeOK
<1>1. CardInv => TypeOK
  BY DEF CardInv
<1> QED
  BY <1>1, CardAlways, PTL

\* THE OBJECTS ARE ACCOUNTED FOR: no path through fatfs_init, cmd_sd_speed and
\* calculate_file_sha256 leaks a file object, a directory object or a block.
THEOREM ObjectsKept == Spec => []ObjectsAccounted
<1>1. CardInv => ObjectsAccounted
  BY DEF CardInv
<1> QED
  BY <1>1, CardAlways, PTL

\* REPORTS ARE COMPLETE: a speed test that reports success has moved the size that
\* it reports both ways, unless that many bytes wrap, and the same number both ways in
\* any case; a hash that is printed is that of the whole file.
THEOREM ReportsComplete == Spec => []ReportsAll
<1>1. CardInv => ReportsAll
  BY DEF CardInv
<1> QED
  BY <1>1, CardAlways, PTL

\* Every call that a command makes takes it to a later step, or leaves less to do
\* in the loop that it is in. In particular none of them changes nothing.
LEMMA CallNears ==
  ASSUME CardInv, Running \/ Failing, ~Endless
  PROVE  Nearer
<1>1. CASE Unlink
  <2>1. shell = "unlink" /\ shell' = "create"
    BY <1>1 DEF Unlink
  <2> QED
    BY <2>1 DEF Nearer, Phase
<1>2. CASE Create
  <2>1. shell = "create" /\ shell' \in {"write", "idle"}
    BY <1>2 DEF Create, Opens, Return
  <2> QED
    BY <2>1 DEF Nearer, Phase
<1>3. CASE WriteChunk
  <2> DEFINE n == Least(Chunk(bytes_written), Room - bytes_written)
  <2>1. /\ shell = "write" /\ bytes_written < total_bytes
        /\ bytes_written' = bytes_written + n
        /\ shell' = shell /\ total_bytes' = total_bytes
    BY <1>3 DEF WriteChunk, args
  <2>2. buf_size > 0 /\ Room - bytes_written > 0
    BY <2>1, ShellKnows, Constants DEF Endless, Progress
  <2>3. n \in Nat /\ n > 0 /\ n <= total_bytes - bytes_written
    BY <2>1, <2>2, ShellKnows, ChunkFits, Constants DEF CardInv
  <2> HIDE DEF n
  <2>4. Phase' = Phase /\ Remaining = total_bytes - bytes_written
        /\ Remaining' = total_bytes - (bytes_written + n)
    BY <2>1 DEF Phase, Remaining
  <2> QED
    BY <2>3, <2>4, ShellKnows DEF Nearer
<1>4. CASE Written
  <2>1. shell = "write" /\ shell' = "reopen"
    BY <1>4 DEF Written
  <2> QED
    BY <2>1 DEF Nearer, Phase
<1>5. CASE Reopen
  <2>1. shell = "reopen" /\ shell' \in {"read", "idle"}
    BY <1>5 DEF Reopen, Opens, Return
  <2> QED
    BY <2>1 DEF Nearer, Phase
<1>6. CASE ReadChunk
  <2> DEFINE n == Least(Chunk(bytes_read), len - bytes_read)
  <2>1. /\ shell = "read" /\ bytes_read' = bytes_read + n /\ n # 0
        /\ shell' = shell /\ total_bytes' = total_bytes
    BY <1>6 DEF ReadChunk, args
  <2>2. len - bytes_read \in Nat
    BY <2>1, ShellKnows DEF Progress
  <2>3. n \in Nat /\ n <= total_bytes - bytes_read
    BY <2>2, ShellKnows, ChunkFits DEF CardInv
  <2> HIDE DEF n
  <2>4. Phase' = Phase /\ Remaining = total_bytes - bytes_read
        /\ Remaining' = total_bytes - (bytes_read + n)
    BY <2>1 DEF Phase, Remaining
  <2> QED
    BY <2>1, <2>3, <2>4, ShellKnows DEF Nearer
<1>7. CASE ReadDone
  <2>1. shell = "read" /\ shell' = "cleanup"
    BY <1>7 DEF ReadDone
  <2> QED
    BY <2>1 DEF Nearer, Phase
<1>8. CASE Cleanup \/ HashDone \/ Failing
  <2>1. shell \in {"cleanup", "hash", "write", "read"} /\ shell' = "idle"
    BY <1>8 DEF Cleanup, HashDone, Failing, WriteFails, ReadFails, HashFails, Return
  <2> QED
    BY <2>1 DEF Nearer, Phase
<1>9. CASE HashChunk
  <2>1. /\ shell = "hash" /\ hashed < len /\ shell' = shell /\ len' = len
        /\ hashed' = hashed + Least(READ_BUFFER_SIZE, len - hashed)
    BY <1>9 DEF HashChunk
  <2>2. hashed' \in hashed + 1 .. len
    BY <2>1, ShellKnows, Constants DEF Least
  <2>3. Phase' = Phase /\ Remaining = len - hashed /\ Remaining' = len - hashed'
    BY <2>1 DEF Phase, Remaining
  <2> QED
    BY <2>2, <2>3, ShellKnows DEF Nearer
<1>10. CASE Setup
  <2>1. shell = "setup" /\ shell' \in {"hash", "idle"}
    BY <1>10 DEF Setup, Return
  <2> QED
    BY <2>1 DEF Nearer, Phase
<1> QED
  BY <1>1, <1>2, <1>3, <1>4, <1>5, <1>6, <1>7, <1>8, <1>9, <1>10 DEF Running

\* COMMANDS COME NEARER TO THEIR END: whatever the sizes, and whatever main and the
\* card do, a command of the shell makes no call in vain, save for the writes to a
\* full card or of an empty buffer.
THEOREM CommandsNear == Spec => CommandNears
<1>1. CardInv /\ [Next]_vars => [(Running \/ Failing) /\ ~Endless => Nearer]_vars
  BY CallNears
<1> QED
  BY <1>1, CardAlways, PTL DEF Spec, CommandNears
=============================================================================
