-------------------------------- MODULE Http --------------------------------
(***************************************************************************)
(* The two clients of the network: http_dl of the shell (http_dl.c), which *)
(* saves a file on the SD card, and the switch request of the bt_ck thread *)
(* (http_client.c). They take their sockets from one pool. Of the file the *)
(* model keeps, per unit of data, which unit of the answer it holds, 0 for *)
(* what was there before; how an answer is parsed is left to the library.  *)
(***************************************************************************)
EXTENDS Naturals, Sequences, FiniteSets

CONSTANTS
  Sockets,      \* size of the pool of sockets
  BodySizes,    \* sizes of the bodies that a server may answer with
  OldSizes,     \* sizes of the file before the first download
  Room          \* size that the file can have before the card is full

ASSUME HttpAssumption ==
  /\ Sockets \in Nat /\ Room \in Nat
  /\ BodySizes \in SUBSET Nat /\ OldSizes \in SUBSET (0 .. Room)

Clients == {"shell", "bt_ck"}
Holding == {"connect", "request", "close"}
Steps   == {"idle", "resolve", "socket", "finish"} \cup Holding

VARIABLES
  pc,             \* the step of each client
  free,           \* sockets left in the pool
  file,           \* the file on the card
  pos,            \* the position of ctx.file
  total_written,  \* ctx.total_written: here also what has been received
  size, found,    \* of the answer: size of its body, whether that is the file
  result,         \* what the shell printed last
  calm            \* history: nothing has disturbed the last download so far

vars == <<pc, free, file, pos, total_written, size, found, result, calm>>
data == <<file, pos, total_written, size, found, result>>

TypeOK ==
  /\ pc \in [Clients -> Steps]
  /\ free \in 0 .. Sockets
  /\ file \in Seq(Nat) /\ Len(file) <= Room
  /\ pos \in 0 .. Len(file)
  /\ size \in Nat /\ total_written \in 0 .. size
  /\ found \in BOOLEAN
  /\ result \in {"none", "Download Success!", "download failed"}
  /\ calm \in BOOLEAN

Old(n) == [i \in 1 .. n |-> 0]

Init ==
  /\ pc = [t \in Clients |-> "idle"]
  /\ free = Sockets
  /\ \E n \in OldSizes : file = Old(n)
  /\ pos = 0 /\ total_written = 0 /\ size = 0 /\ found = FALSE
  /\ result = "none" /\ calm = TRUE

Goto(t, step) == pc' = [pc EXCEPT ![t] = step]

\* A step of client t that disturbs the download if it is the shell's.
Disturb(t) == calm' = (calm /\ t # "shell")

-----------------------------------------------------------------------------
(* What the two clients do alike: setup_socket, connect_socket and           *)
(* run_http_get_req are the code of http_dl_socket_init, .._connect, .._req. *)

OpenSocket(t) ==
  /\ pc[t] = "socket" /\ free > 0
  /\ free' = free - 1
  /\ Goto(t, "connect")
  /\ UNCHANGED <<data, calm>>

\* The pool is empty, or the socket cannot be made.
NoSocket(t) ==
  /\ pc[t] = "socket"
  /\ Goto(t, "finish")
  /\ Disturb(t)
  /\ UNCHANGED <<free, data>>

\* What the server will answer is settled here: the file that was asked for or
\* some other body. One that is shorter than the file on the card leaves the
\* rest of that in place.
Connect(t) ==
  /\ pc[t] = "connect"
  /\ Goto(t, "request")
  /\ IF t = "shell"
     THEN /\ size' \in BodySizes /\ found' \in BOOLEAN
          /\ calm' = (calm /\ found' /\ size' >= Len(file))
     ELSE UNCHANGED <<size, found, calm>>
  /\ UNCHANGED <<free, file, pos, total_written, result>>

\* Mutation: a failed connect closes the socket, but leaves its number set.
ConnectFailsKeepsNumber(t) ==
  /\ pc[t] = "connect"
  /\ free' = free + 1
  /\ Goto(t, "request")
  /\ Disturb(t)
  /\ UNCHANGED data

ConnectFails(t) ==
  /\ pc[t] = "connect"
  /\ free' = free + 1
  /\ Goto(t, "finish")
  /\ Disturb(t)
  /\ UNCHANGED data

\* Mutation: without a timeout, only a complete answer ends the call.
EndRequestComplete(t) ==
  /\ pc[t] = "request"
  /\ t = "shell" => total_written = size
  /\ Goto(t, "close")
  /\ UNCHANGED <<free, data, calm>>

\* http_client_req returns: the answer is complete, or the connection broke,
\* or the timeout has passed. The caller does not look at the difference.
EndRequest(t) ==
  /\ pc[t] = "request"
  /\ Goto(t, "close")
  /\ calm' = (calm /\ (t = "shell" => total_written = size))
  /\ UNCHANGED <<free, data>>

Close(t) ==
  /\ pc[t] = "close"
  /\ free' = free + 1
  /\ Goto(t, "finish")
  /\ UNCHANGED <<data, calm>>

-----------------------------------------------------------------------------
(* The switch request of the bt_ck thread. *)

SetSwitch ==
  /\ pc["bt_ck"] = "idle"
  /\ Goto("bt_ck", "socket")
  /\ UNCHANGED <<free, data, calm>>

SwitchDone ==
  /\ pc["bt_ck"] = "finish"
  /\ Goto("bt_ck", "idle")
  /\ UNCHANGED <<free, data, calm>>

-----------------------------------------------------------------------------
(* The download of the shell thread. *)

\* Mutation: the file is opened to append to it.
DownloadAppends ==
  /\ pc["shell"] = "idle"
  /\ file' = Old(Len(file))
  /\ pos' = Len(file) /\ total_written' = 0 /\ size' = 0 /\ found' = FALSE
  /\ result' = "none" /\ calm' = TRUE
  /\ Goto("shell", "resolve")
  /\ UNCHANGED free

\* fs_open creates the file or opens it as it is: it is not cut off.
Download ==
  /\ pc["shell"] = "idle"
  /\ file' = Old(Len(file))
  /\ pos' = 0 /\ total_written' = 0 /\ size' = 0 /\ found' = FALSE
  /\ result' = "none" /\ calm' = TRUE
  /\ Goto("shell", "resolve")
  /\ UNCHANGED free

CannotOpen ==
  /\ pc["shell"] = "idle"
  /\ result' = "download failed" /\ calm' = FALSE
  /\ UNCHANGED <<pc, free, file, pos, total_written, size, found>>

\* getaddrinfo, which may fail.
Resolve ==
  /\ pc["shell"] = "resolve"
  /\ \/ Goto("shell", "socket") /\ UNCHANGED calm
     \/ Goto("shell", "finish") /\ calm' = FALSE
  /\ UNCHANGED <<free, data>>

\* What http_client_req received last: n units behind those received so far.
Received(n) ==
  /\ pc["shell"] = "request"
  /\ n \in 1 .. size - total_written

\* What fs_write takes of n units: it stops short when the card is full.
Taken(n) == IF n <= Room - pos THEN n ELSE Room - pos

Write(n) ==
  LET end == pos + Taken(n) IN
  /\ file' = [i \in 1 .. (IF end <= Len(file) THEN Len(file) ELSE end) |->
                IF i \in pos + 1 .. end THEN total_written + i - pos ELSE file[i]]
  /\ pos' = end

\* http_dl_response_cb: a write that stopped short counts as a whole one.
Fragment(n) ==
  /\ Received(n)
  /\ Write(n)
  /\ total_written' = total_written + n
  /\ calm' = (calm /\ Taken(n) = n)
  /\ UNCHANGED <<pc, free, size, found, result>>

\* Mutation: the download goes on behind a failed write.
WriteFailsGoOn(n) ==
  /\ Received(n)
  /\ total_written' = total_written + n
  /\ calm' = FALSE
  /\ UNCHANGED <<pc, free, file, pos, size, found, result>>

\* Mutation: a failed write starts the file over.
WriteFailsStartsOver(n) ==
  /\ Received(n)
  /\ pos' = 0 /\ total_written' = 0
  /\ calm' = FALSE
  /\ UNCHANGED <<pc, free, file, size, found, result>>

\* The error of a write ends the request.
WriteFails(n) ==
  /\ Received(n)
  /\ Goto("shell", "close")
  /\ calm' = FALSE
  /\ UNCHANGED <<free, data>>

\* fs_close, the SHA-256 of the file, and the message of cmd_http_dl:
\* http_dl_file has ignored what http_dl_get_req returned.
Finish ==
  /\ pc["shell"] = "finish"
  /\ result' = "Download Success!"
  /\ Goto("shell", "idle")
  /\ UNCHANGED <<free, file, pos, total_written, size, found, calm>>

-----------------------------------------------------------------------------
Request(t) ==
  \/ OpenSocket(t) \/ NoSocket(t) \/ Connect(t) \/ ConnectFails(t)
  \/ EndRequest(t) \/ Close(t)

Transfer == \E n \in 1 .. size : Fragment(n) \/ WriteFails(n)

Next ==
  \/ \E t \in Clients : Request(t)
  \/ SetSwitch \/ SwitchDone
  \/ Download \/ CannotOpen \/ Resolve \/ Transfer \/ Finish

Spec == Init /\ [][Next]_vars

\* Both threads run and the calls of the library return, by their timeouts if
\* the network is silent: nothing is assumed of Transfer.
FairSpec ==
  /\ Spec
  /\ \A t \in Clients : WF_vars(Request(t))
  /\ WF_vars(Resolve) /\ WF_vars(Finish) /\ WF_vars(SwitchDone)

-----------------------------------------------------------------------------
(* Properties. *)

\* Every socket is in the pool or held by a call under way: no error path of
\* http_dl_socket_connect, connect_socket and their callers loses one.
SocketsAccounted ==
  free + Cardinality({t \in Clients : pc[t] \in Holding}) = Sockets

\* The file is a part of the answer from its start, without a gap, before what
\* is left of the old file, however the download was cut off.
FileIsPrefix == \A i \in 1 .. Len(file) : file[i] = (IF i <= pos THEN i ELSE 0)

\* A download and a switch request end, even if the network is silent.
CallsEnd == \A t \in Clients : pc[t] # "idle" ~> pc[t] = "idle"

\* The stretches of a call that are still to come.
ToGo(t) ==
  CASE pc[t] = "idle"    -> 0
    [] pc[t] = "finish"  -> 1
    [] pc[t] = "close"   -> 2
    [] pc[t] = "request" -> 3
    [] pc[t] = "connect" -> 4
    [] pc[t] = "socket"  -> 5
    [] pc[t] = "resolve" -> 6

\* A step of client t brings its call nearer to its end: a stretch is over, or less of
\* the answer is left to receive.
Nearer(t) ==
  \/ ToGo(t)' < ToGo(t)
  \/ /\ t = "shell" /\ pc'[t] = "request" /\ pc[t] = "request"
     /\ size' - total_written' < size - total_written

\* Whatever fails, a call goes back to nothing it has done: each of its steps brings it
\* nearer to its end, by a measure that is bounded, and no step of the other client takes
\* it further away.
CallsNear ==
  [][\A t \in Clients :
       pc[t] # "idle" /\ (pc'[t] # pc[t] \/ (t = "shell" /\ data' # data)) => Nearer(t)]_vars

\* The file that was asked for, whole and nothing else.
Saved == found /\ file = [i \in 1 .. size |-> i]

\* What an undisturbed download reports as saved is saved.
SavedWhileCalm == calm /\ result = "Download Success!" => Saved

\* A download that begins saves the file and says so, unless something
\* disturbs it: a call that fails, an answer that is cut off, is another body or
\* is shorter than the old file, or a full card.
DownloadSaves ==
  pc["shell"] = "resolve" ~> (result = "Download Success!" /\ Saved) \/ ~calm

\* "Download Success!" is printed of a file that was saved.
SuccessMeansSaved == result = "Download Success!" => Saved
=============================================================================
