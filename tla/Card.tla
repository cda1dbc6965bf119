-------------------------------- MODULE Card --------------------------------
(***************************************************************************)
(* The SD card: main mounts it and puts two entries on an empty one        *)
(* (fatfs.c) while the shell, which runs from boot, may already be in the  *)
(* speed test (sd_speed.c) or hash a file (sha256sum.c). Both threads take *)
(* file objects from one pool. Sizes are counted in KB, the unit in which  *)
(* the arguments of the speed test come; one file stands for all.          *)
(***************************************************************************)
EXTENDS Naturals

CONSTANTS
  MB,          \* KB in a MB: 1024
  Wrap,        \* KB in which a uint32_t number of bytes wraps: 2^22
  Heap,        \* KB that k_malloc can give
  Room,        \* KB that the file can have before the card is full
  Files,       \* file objects in the pool
  Sizes,       \* what the user may give as size_MB
  Buffers,     \* what the user may give as buf_KB
  READ_BUFFER_SIZE

ASSUME CardAssumption ==
  /\ MB \in Nat /\ Wrap \in Nat \ {0} /\ Heap \in Nat /\ Room \in Nat /\ Files \in Nat
  /\ Sizes \subseteq Nat /\ Buffers \subseteq Nat /\ READ_BUFFER_SIZE \in Nat \ {0}

VARIABLES
  main, shell,        \* the steps of the two threads
  mounted,            \* fs_mount has succeeded
  others,             \* the card has other entries than the file
  seen,               \* the last listing has counted an entry, or failed
  exists, len,        \* the file and its length
  files, dirs, heap,  \* file and directory objects open, blocks allocated
  size_mb,            \* the size that the speed test announces
  total_bytes, buf_size,
  bytes_written, bytes_read,
  hashed,             \* how much of the file psa_hash_update has been given
  result              \* what the last command of the shell has reported

card == <<mounted, others, exists, len>>
args == <<size_mb, total_bytes, buf_size>>
vars == <<main, shell, card, seen, files, dirs, heap, args, bytes_written, bytes_read,
          hashed, result>>

MainFile  == {"close"}
MainDir   == {"listing", "listed", "relisting"}
MainSteps == {"mount", "list", "create", "relist", "up"} \cup MainFile \cup MainDir
ShellFile == {"write", "read", "setup", "hash"}
ShellHeap == {"unlink", "create", "write", "reopen", "read", "cleanup"}
ShellSteps == {"idle"} \cup ShellFile \cup ShellHeap

TypeOK ==
  /\ main \in MainSteps /\ shell \in ShellSteps
  /\ mounted \in BOOLEAN /\ others \in BOOLEAN /\ seen \in BOOLEAN /\ exists \in BOOLEAN
  /\ len \in 0 .. Room
  /\ files \in 0 .. Files /\ dirs \in 0 .. 1 /\ heap \in 0 .. 1
  /\ size_mb \in Sizes \cup {0}
  /\ total_bytes \in 0 .. Wrap - 1 /\ buf_size \in 0 .. Wrap - 1
  /\ bytes_written \in 0 .. total_bytes /\ bytes_read \in 0 .. total_bytes
  /\ hashed \in 0 .. Room
  /\ result \in {"none", "failed", "tested", "hashed"}

Init ==
  /\ main = "mount" /\ shell = "idle"
  /\ mounted = FALSE /\ others \in BOOLEAN /\ seen = FALSE
  /\ \/ exists = TRUE /\ len \in 0 .. Room
     \/ exists = FALSE /\ len = 0
  /\ files = 0 /\ dirs = 0 /\ heap = 0
  /\ size_mb = 0 /\ total_bytes = 0 /\ buf_size = 0 /\ bytes_written = 0 /\ bytes_read = 0
  /\ hashed = 0 /\ result = "none"

Least(a, b) == IF a <= b THEN a ELSE b

-----------------------------------------------------------------------------
(* fatfs_init of the main thread. *)

MainOnly == UNCHANGED <<shell, exists, len, heap, args, bytes_written, bytes_read,
                        hashed, result>>

Mount ==
  /\ main = "mount"
  /\ \/ main' = "list" /\ mounted' = TRUE
     \/ main' = "up" /\ UNCHANGED mounted
  /\ MainOnly /\ UNCHANGED <<others, seen, files, dirs>>

\* lsdir: fs_opendir, which may fail.
OpenDir ==
  /\ \/ main = "list" /\ main' = "listing"
     \/ main = "relist" /\ main' = "relisting"
     \/ main \in {"list", "relist"} /\ main' = "up"
  /\ dirs' = IF main' = "up" THEN dirs ELSE dirs + 1
  /\ MainOnly /\ UNCHANGED <<mounted, others, seen, files>>

\* lsdir: the loop of fs_readdir counts the entries that it finds, or fails.
ReadDir ==
  /\ main = "listing" /\ main' = "listed"
  /\ seen' \in {exists \/ others, TRUE}
  /\ MainOnly /\ UNCHANGED <<mounted, others, files, dirs>>

\* fs_closedir; the first time the caller goes on to create_some_entries when no
\* entry was counted, whatever the shell has done since. The second time the count
\* does not matter.
ListDir ==
  /\ \/ main = "listed" /\ main' = (IF seen THEN "up" ELSE "create")
     \/ main = "relisting" /\ main' = "up"
  /\ dirs' = dirs - 1
  /\ MainOnly /\ UNCHANGED <<mounted, others, seen, files>>

CreateEntry ==
  /\ main = "create"
  /\ \/ files < Files /\ files' = files + 1 /\ others' = TRUE /\ main' = "close"
     \/ main' = "up" /\ UNCHANGED <<files, others>>
  /\ MainOnly /\ UNCHANGED <<mounted, seen, dirs>>

\* fs_close, and fs_mkdir, the result of which does not matter.
CloseEntry ==
  /\ main = "close"
  /\ files' = files - 1
  /\ main' = "relist"
  /\ MainOnly /\ UNCHANGED <<mounted, others, seen, dirs>>

Main == Mount \/ OpenDir \/ ReadDir \/ ListDir \/ CreateEntry \/ CloseEntry

-----------------------------------------------------------------------------
(* What the commands of the shell do alike. *)

ShellOnly == UNCHANGED <<main, mounted, others, seen, dirs>>

Opens(step) == files < Files /\ files' = files + 1 /\ shell' = step

\* A command returns with the buffer and the file object that it gives back.
Return(outcome) ==
  /\ shell' = "idle" /\ result' = outcome
  /\ heap' = IF shell \in ShellHeap THEN heap - 1 ELSE heap
  /\ files' = IF shell \in ShellFile THEN files - 1 ELSE files

\* fs_unlink, the result of which is ignored.
MayUnlink ==
  \/ mounted /\ exists' = FALSE /\ len' = 0
  \/ UNCHANGED <<exists, len>>

-----------------------------------------------------------------------------
(* cmd_sd_speed. *)

\* The arguments, of which a zero is refused before they are multiplied, and
\* k_malloc: of 0 bytes it gives a block too.
SpeedTest(mb, buf_kb) ==
  /\ shell = "idle"
  /\ mb # 0 /\ buf_kb # 0
  /\ size_mb' = mb
  /\ total_bytes' = (mb * MB) % Wrap
  /\ buf_size' = buf_kb % Wrap
  /\ bytes_written' = 0 /\ bytes_read' = 0
  /\ \/ buf_size' <= Heap /\ heap' = heap + 1 /\ shell' = "unlink" /\ result' = "none"
     \/ result' = "failed" /\ UNCHANGED <<heap, shell>>
  /\ ShellOnly /\ UNCHANGED <<exists, len, files, hashed>>

Unlink ==
  /\ shell = "unlink"
  /\ shell' = "create"
  /\ MayUnlink
  /\ ShellOnly /\ UNCHANGED <<files, heap, args, bytes_written, bytes_read, hashed, result>>

\* fs_open to write: it creates the file or opens what fs_unlink has left.
Create ==
  /\ shell = "create"
  /\ \/ mounted /\ Opens("write") /\ exists' = TRUE /\ UNCHANGED <<len, heap, result>>
     \/ Return("failed") /\ UNCHANGED <<exists, len>>
  /\ ShellOnly /\ UNCHANGED <<args, bytes_written, bytes_read, hashed>>

\* Mutation: the last chunk is as long as the others.
ChunkUnlimited(done) == buf_size

Chunk(done) == Least(total_bytes - done, buf_size)

\* fs_write, which writes less than the chunk, or nothing, when the card is full.
WriteChunk ==
  /\ shell = "write" /\ bytes_written < total_bytes
  /\ bytes_written' = bytes_written + Least(Chunk(bytes_written), Room - bytes_written)
  /\ len' = IF bytes_written' > len THEN bytes_written' ELSE len
  /\ ShellOnly
  /\ UNCHANGED <<shell, exists, files, heap, args, bytes_read, hashed, result>>

\* Mutation: the error of a write leaves the file open.
WriteFailsOpen ==
  /\ shell = "write" /\ bytes_written < total_bytes
  /\ shell' = "idle" /\ result' = "failed" /\ heap' = heap - 1
  /\ ShellOnly /\ UNCHANGED <<exists, len, files, args, bytes_written, bytes_read, hashed>>

WriteFails ==
  /\ shell = "write" /\ bytes_written < total_bytes
  /\ Return("failed")
  /\ ShellOnly /\ UNCHANGED <<exists, len, args, bytes_written, bytes_read, hashed>>

\* Mutation: a write that comes short on a full card ends the loop.
WrittenToFull ==
  /\ shell = "write" /\ bytes_written >= Least(total_bytes, Room)
  /\ files' = files - 1
  /\ shell' = "reopen"
  /\ ShellOnly
  /\ UNCHANGED <<exists, len, heap, args, bytes_written, bytes_read, hashed, result>>

\* fs_sync, of which an error is only logged, and fs_close.
Written ==
  /\ shell = "write" /\ bytes_written >= total_bytes
  /\ files' = files - 1
  /\ shell' = "reopen"
  /\ ShellOnly
  /\ UNCHANGED <<exists, len, heap, args, bytes_written, bytes_read, hashed, result>>

\* Mutation: a file that cannot be opened is written once more.
ReopenRetries ==
  /\ shell = "reopen"
  /\ \/ mounted /\ exists /\ Opens("read") /\ UNCHANGED heap
     \/ shell' = "create" /\ UNCHANGED <<files, heap>>
  /\ ShellOnly /\ UNCHANGED <<exists, len, args, bytes_written, bytes_read, hashed, result>>

Reopen ==
  /\ shell = "reopen"
  /\ \/ mounted /\ exists /\ Opens("read") /\ UNCHANGED <<heap, result>>
     \/ Return("failed")
  /\ ShellOnly /\ UNCHANGED <<exists, len, args, bytes_written, bytes_read, hashed>>

\* Mutation: what was read is not counted.
ReadChunkUncounted ==
  /\ shell = "read" /\ bytes_read < total_bytes
  /\ UNCHANGED vars

ReadChunk ==
  /\ shell = "read" /\ bytes_read < total_bytes
  /\ Least(Chunk(bytes_read), len - bytes_read) # 0
  /\ bytes_read' = bytes_read + Least(Chunk(bytes_read), len - bytes_read)
  /\ ShellOnly
  /\ UNCHANGED <<shell, exists, len, files, heap, args, bytes_written, hashed, result>>

ReadFails ==
  /\ shell = "read" /\ bytes_read < total_bytes
  /\ Return("failed")
  /\ ShellOnly /\ UNCHANGED <<exists, len, args, bytes_written, bytes_read, hashed>>

\* All has been read, or a read has returned 0; fs_close.
ReadDone ==
  /\ shell = "read"
  /\ bytes_read >= total_bytes \/ Least(Chunk(bytes_read), len - bytes_read) = 0
  /\ files' = files - 1
  /\ shell' = "cleanup"
  /\ ShellOnly
  /\ UNCHANGED <<exists, len, heap, args, bytes_written, bytes_read, hashed, result>>

\* fs_unlink and k_free.
Cleanup ==
  /\ shell = "cleanup"
  /\ MayUnlink
  /\ Return("tested")
  /\ ShellOnly /\ UNCHANGED <<args, bytes_written, bytes_read, hashed>>

-----------------------------------------------------------------------------
(* calculate_file_sha256. *)

\* psa_crypto_init and fs_open, each of which may fail.
Hash ==
  /\ shell = "idle"
  /\ hashed' = 0
  /\ \/ mounted /\ exists /\ Opens("setup") /\ result' = "none"
     \/ result' = "failed" /\ UNCHANGED <<shell, files>>
  /\ ShellOnly /\ UNCHANGED <<exists, len, heap, args, bytes_written, bytes_read>>

\* psa_hash_setup: when it fails the file that is open is closed.
Setup ==
  /\ shell = "setup"
  /\ \/ shell' = "hash" /\ UNCHANGED <<files, heap, result>>
     \/ Return("failed")
  /\ ShellOnly /\ UNCHANGED <<exists, len, args, bytes_written, bytes_read, hashed>>

HashChunk ==
  /\ shell = "hash" /\ hashed < len
  /\ hashed' = hashed + Least(READ_BUFFER_SIZE, len - hashed)
  /\ ShellOnly
  /\ UNCHANGED <<shell, exists, len, files, heap, args, bytes_written, bytes_read, result>>

\* fs_read or a function of psa_hash_ fails, psa_hash_finish at the last.
HashFails ==
  /\ shell = "hash"
  /\ Return("failed")
  /\ ShellOnly /\ UNCHANGED <<exists, len, args, bytes_written, bytes_read, hashed>>

HashDone ==
  /\ shell = "hash" /\ hashed = len
  /\ Return("hashed")
  /\ ShellOnly /\ UNCHANGED <<exists, len, args, bytes_written, bytes_read, hashed>>

-----------------------------------------------------------------------------
Command == (\E s \in Sizes, b \in Buffers : SpeedTest(s, b)) \/ Hash

Running ==
  \/ Unlink \/ Create \/ WriteChunk \/ Written \/ Reopen \/ ReadChunk \/ ReadDone \/ Cleanup
  \/ Setup \/ HashChunk \/ HashDone

Failing == WriteFails \/ ReadFails \/ HashFails

Next == Main \/ Command \/ Running \/ Failing

Spec == Init /\ [][Next]_vars

\* Both threads run; the user may give no command, and no call has to fail.
FairSpec == Spec /\ WF_vars(Main) /\ WF_vars(Running)

-----------------------------------------------------------------------------
(* Properties. *)

Count(b) == IF b THEN 1 ELSE 0

\* Every file object, directory object and block of the heap belongs to a call
\* under way: no error path of fatfs_init, cmd_sd_speed and
\* calculate_file_sha256 leaks one or gives one back twice.
ObjectsAccounted ==
  /\ files = Count(main \in MainFile) + Count(shell \in ShellFile)
  /\ dirs = Count(main \in MainDir)
  /\ heap = Count(shell \in ShellHeap)

\* A speed test that reports success has written and read back the size_mb that it
\* has announced, when that many bytes fit a uint32_t; beyond, it moves the bytes
\* that are left of the product, the same both ways, and announces size_mb all the
\* same. A hash that is reported is that of the whole file.
ReportsAll ==
  /\ result = "tested" =>
       /\ bytes_read = bytes_written
       /\ size_mb * MB < Wrap => bytes_written = size_mb * MB
  /\ result = "hashed" => hashed = len

\* What makes the loop of the writes run for ever: each fs_write returns 0,
\* for the card is full or the product of buf_KB and 1024 has wrapped to 0.
Endless ==
  /\ shell = "write" /\ bytes_written < total_bytes
  /\ buf_size = 0 \/ bytes_written >= Room

\* The steps of a command in the order in which they come, from its end, and what
\* the loop of a step has still to do.
Phase ==
  CASE shell = "idle" -> 0
    [] shell \in {"cleanup", "hash"} -> 1
    [] shell \in {"read", "setup"} -> 2
    [] shell = "reopen" -> 3
    [] shell = "write"  -> 4
    [] shell = "create" -> 5
    [] shell = "unlink" -> 6

Remaining ==
  CASE shell = "write" -> total_bytes - bytes_written
    [] shell = "read"  -> total_bytes - bytes_read
    [] shell = "hash"  -> len - hashed
    [] OTHER -> 0

Nearer ==
  \/ Phase' < Phase
  \/ Phase' = Phase /\ Remaining' \in 0 .. Remaining - 1

\* Each call that a command makes brings it nearer to its end, whatever the card,
\* the arguments and main make of it, but for the writes of the endless loop: what
\* is left never grows and never passes zero.
CommandNears == [][(Running \/ Failing) /\ ~Endless => Nearer]_vars

\* A command of the shell ends, save for that loop.
CommandEnds == shell # "idle" ~> shell = "idle" \/ Endless
=============================================================================
