----------------------------- MODULE HttpProofs -----------------------------
(***************************************************************************)
(* Proofs about Http, for answers, files and cards of every size and for   *)
(* every number of sockets.                                                *)
(***************************************************************************)
EXTENDS Http, FiniteSetTheorems, TLAPS

\* While a download runs its position is where the answer has come to, unless
\* the card is full.
KeepsUp ==
  /\ pc["shell"] \in {"resolve", "socket", "connect"} => pos = 0 /\ total_written = 0
  /\ pc["shell"] = "request" => pos = total_written \/ (pos = Room /\ pos < total_written)

FileInv == TypeOK /\ KeepsUp /\ FileIsPrefix

\* A file of old units.
LEMMA OldFile ==
  ASSUME NEW n \in Nat
  PROVE  Old(n) \in Seq(Nat) /\ Len(Old(n)) = n /\ \A i \in 1 .. n : Old(n)[i] = 0
BY DEF Old

-----------------------------------------------------------------------------
(* The sockets. *)

\* 1 for a client that holds a socket.
Holds(t) == IF pc[t] \in Holding THEN 1 ELSE 0

SocketInv ==
  /\ pc \in [Clients -> Steps]
  /\ free \in 0 .. Sockets
  /\ free + Holds("shell") + Holds("bt_ck") = Sockets

\* Of two clients, the number that hold a socket.
LEMMA HoldersCount ==
  Cardinality({t \in Clients : pc[t] \in Holding}) = Holds("shell") + Holds("bt_ck")
<1> DEFINE H == {t \in Clients : pc[t] \in Holding}
<1>1. Cardinality({}) = 0 /\ Cardinality({"shell"}) = 1 /\ Cardinality({"bt_ck"}) = 1
  BY FS_EmptySet, FS_Singleton
<1>2. Cardinality({"shell"} \cup {"bt_ck"}) = 2
  <2>1. IsFiniteSet({"shell"})
    BY FS_Singleton
  <2>2. Cardinality({"shell"} \cup {"bt_ck"}) = Cardinality({"shell"}) + 1
    BY <2>1, FS_AddElement
  <2> QED
    BY <1>1, <2>2
<1>3. CASE pc["shell"] \in Holding /\ pc["bt_ck"] \in Holding
  <2>1. H = {"shell"} \cup {"bt_ck"}
    BY <1>3 DEF Clients
  <2> QED
    BY <1>2, <1>3, <2>1 DEF Holds
<1>4. CASE pc["shell"] \in Holding /\ pc["bt_ck"] \notin Holding
  <2>1. H = {"shell"}
    BY <1>4 DEF Clients
  <2> QED
    BY <1>1, <1>4, <2>1 DEF Holds
<1>5. CASE pc["shell"] \notin Holding /\ pc["bt_ck"] \in Holding
  <2>1. H = {"bt_ck"}
    BY <1>5 DEF Clients
  <2> QED
    BY <1>1, <1>5, <2>1 DEF Holds
<1>6. CASE pc["shell"] \notin Holding /\ pc["bt_ck"] \notin Holding
  <2>1. H = {}
    BY <1>6 DEF Clients
  <2> QED
    BY <1>1, <1>6, <2>1 DEF Holds
<1> QED
  BY <1>3, <1>4, <1>5, <1>6

\* Changing the step of one client.
LEMMA GotoType ==
  ASSUME pc \in [Clients -> Steps], NEW t \in Clients, NEW step \in Steps, Goto(t, step)
  PROVE  /\ pc' \in [Clients -> Steps]
         /\ pc'[t] = step
         /\ \A u \in Clients : u # t => pc'[u] = pc[u]
BY DEF Goto

\* A client goes on, and the pool changes by what that client takes or gives.
LEMMA GotoHolds ==
  ASSUME SocketInv, NEW t \in Clients, NEW step \in Steps, Goto(t, step),
         free' \in Nat,
         free' + (IF step \in Holding THEN 1 ELSE 0) = free + Holds(t)
  PROVE  SocketInv'
<1>1. /\ pc' \in [Clients -> Steps] /\ pc'[t] = step
      /\ \A u \in Clients : u # t => pc'[u] = pc[u]
  BY GotoType DEF SocketInv
<1>2. free' + Holds(t)' = free + Holds(t)
  BY <1>1 DEF Holds
<1>3. \A u \in Clients : u # t => Holds(u)' = Holds(u)
  BY <1>1 DEF Holds
<1>4. /\ free + Holds("shell") + Holds("bt_ck") = Sockets
      /\ free \in Nat /\ Sockets \in Nat
  BY HttpAssumption DEF SocketInv
<1>5. /\ Holds("shell") \in {0, 1} /\ Holds("bt_ck") \in {0, 1}
      /\ Holds("shell")' \in {0, 1} /\ Holds("bt_ck")' \in {0, 1}
  BY DEF Holds
<1>6. free' + Holds("shell")' + Holds("bt_ck")' = Sockets
  <2>1. CASE t = "shell"
    <3>1. Holds("bt_ck")' = Holds("bt_ck")
      BY <1>3, <2>1 DEF Clients
    <3> QED
      BY <1>2, <1>4, <1>5, <2>1, <3>1
  <2>2. CASE t = "bt_ck"
    <3>1. Holds("shell")' = Holds("shell")
      BY <1>3, <2>2 DEF Clients
    <3> QED
      BY <1>2, <1>4, <1>5, <2>2, <3>1
  <2> QED
    BY <2>1, <2>2 DEF Clients
<1> QED
  BY <1>1, <1>4, <1>5, <1>6 DEF SocketInv

\* Every step of a client keeps count of the sockets.
LEMMA SocketNext ==
  ASSUME SocketInv, [Next]_vars
  PROVE  SocketInv'
<1>1. "shell" \in Clients /\ "bt_ck" \in Clients
  BY DEF Clients
<1>2. free \in Nat /\ free + 1 \in Nat /\ free + 0 = free /\ (free > 0 => free - 1 \in Nat)
  BY HttpAssumption DEF SocketInv
<1>3. ASSUME NEW t \in Clients, NEW step \in Steps, Goto(t, step), free' = free,
             (pc[t] \in Holding) <=> (step \in Holding)
      PROVE  SocketInv'
  BY <1>2, <1>3, GotoHolds DEF Holds
<1>4. ASSUME UNCHANGED <<pc, free>> PROVE SocketInv'
  BY <1>4 DEF SocketInv, Holds
<1>5. ASSUME NEW t \in Clients, Request(t) PROVE SocketInv'
  <2>1. CASE OpenSocket(t)
    <3>1. free' \in Nat /\ free' + 1 = free /\ Holds(t) = 0
      BY <1>2, <2>1 DEF OpenSocket, Holds, Holding
    <3>2. "connect" \in Steps /\ "connect" \in Holding /\ Goto(t, "connect")
      BY <2>1 DEF OpenSocket, Steps, Holding
    <3> QED
      BY <1>2, <3>1, <3>2, GotoHolds
  <2>2. CASE NoSocket(t)
    BY <1>3, <2>2 DEF NoSocket, Steps, Holding
  <2>3. CASE Connect(t)
    BY <1>3, <2>3 DEF Connect, Steps, Holding
  <2>4. CASE ConnectFails(t) \/ Close(t)
    <3>1. free' = free + 1 /\ Holds(t) = 1 /\ Goto(t, "finish")
      BY <2>4 DEF ConnectFails, Close, Holds, Holding
    <3>2. "finish" \in Steps /\ "finish" \notin Holding
      BY DEF Steps, Holding
    <3> QED
      BY <1>2, <3>1, <3>2, GotoHolds
  <2>5. CASE EndRequest(t)
    BY <1>3, <2>5 DEF EndRequest, Steps, Holding
  <2> QED
    BY <1>5, <2>1, <2>2, <2>3, <2>4, <2>5 DEF Request
<1>6. CASE SetSwitch \/ SwitchDone
  BY <1>1, <1>3, <1>6 DEF SetSwitch, SwitchDone, Steps, Holding
<1>7. CASE Download \/ Resolve \/ Finish
  BY <1>1, <1>3, <1>7 DEF Download, Resolve, Finish, Steps, Holding
<1>8. ASSUME NEW n \in 1 .. size, Fragment(n) \/ WriteFails(n) PROVE SocketInv'
  <2>1. CASE Fragment(n)
    BY <1>4, <2>1 DEF Fragment
  <2>2. CASE WriteFails(n)
    BY <1>1, <1>3, <2>2 DEF WriteFails, Received, Steps, Holding
  <2> QED
    BY <1>8, <2>1, <2>2
<1>9. CASE CannotOpen \/ UNCHANGED vars
  BY <1>4, <1>9 DEF CannotOpen, vars
<1> QED
  BY <1>5, <1>6, <1>7, <1>8, <1>9 DEF Next, Transfer

\* THE SOCKETS ARE ACCOUNTED FOR: no path of http_dl_socket_connect,
\* connect_socket and their callers loses a socket or gives one back twice.
THEOREM SocketsKept == Spec => []SocketsAccounted
<1>1. Init => SocketInv
  BY HttpAssumption DEF Init, SocketInv, Holds, Holding, Steps, Clients
<1>2. SocketInv /\ [Next]_vars => SocketInv'
  BY SocketNext
<1>3. SocketInv => SocketsAccounted
  <2> SUFFICES ASSUME SocketInv PROVE SocketsAccounted
    OBVIOUS
  <2>1. Holds("shell") \in Nat /\ Holds("bt_ck") \in Nat /\ free \in Nat
    BY HttpAssumption DEF Holds, SocketInv
  <2>2. free + (Holds("shell") + Holds("bt_ck")) = Sockets
    BY <2>1 DEF SocketInv
  <2> QED
    BY <2>2, HoldersCount DEF SocketsAccounted
<1> QED
  BY <1>1, <1>2, <1>3, PTL DEF Spec

-----------------------------------------------------------------------------
(* The file. *)

\* The initial states satisfy the invariant.
LEMMA FileInit == Init => FileInv
<1> SUFFICES ASSUME Init PROVE FileInv
  OBVIOUS
<1>1. PICK n \in OldSizes : file = Old(n)
  BY DEF Init
<1>2. n \in 0 .. Room /\ Room \in Nat /\ Sockets \in Nat
  BY HttpAssumption
<1>3. file \in Seq(Nat) /\ Len(file) <= Room /\ \A i \in 1 .. Len(file) : file[i] = 0
  BY <1>1, <1>2, OldFile
<1>4. TypeOK
  <2>1. pc \in [Clients -> Steps] /\ free \in 0 .. Sockets
    BY <1>2 DEF Init, Steps
  <2>2. pos \in 0 .. Len(file) /\ size \in Nat /\ total_written \in 0 .. size
    BY <1>3 DEF Init
  <2>3. /\ found \in BOOLEAN /\ calm \in BOOLEAN
        /\ result \in {"none", "Download Success!", "download failed"}
    BY DEF Init
  <2> QED
    BY <1>3, <2>1, <2>2, <2>3 DEF TypeOK
<1>5. KeepsUp
  BY DEF Init, KeepsUp, Clients
<1>6. FileIsPrefix
  BY <1>3 DEF Init, FileIsPrefix
<1> QED
  BY <1>4, <1>5, <1>6 DEF FileInv

\* What fs_write leaves of a file whose position has kept up.
LEMMA WriteKeeps ==
  ASSUME FileInv, NEW n \in Nat, Received(n), Write(n)
  PROVE  /\ file' \in Seq(Nat) /\ Len(file') <= Room /\ pos' \in 0 .. Len(file')
         /\ FileIsPrefix'
         /\ pos' = total_written + n \/ (pos' = Room /\ pos' < total_written + n)
<1> DEFINE w == Taken(n)
           m == IF pos + w <= Len(file) THEN Len(file) ELSE pos + w
           f == [i \in 1 .. m |->
                   IF i \in pos + 1 .. pos + w THEN total_written + i - pos ELSE file[i]]
<1>1. /\ Room \in Nat /\ pos \in Nat /\ Len(file) \in Nat /\ total_written \in Nat
      /\ pos <= Len(file) /\ Len(file) <= Room /\ file \in Seq(Nat)
  <2>1. file \in Seq(Nat) /\ Len(file) <= Room /\ Room \in Nat
    BY HttpAssumption DEF FileInv, TypeOK
  <2>2. Len(file) \in Nat
    BY <2>1
  <2>3. pos \in 0 .. Len(file) /\ size \in Nat /\ total_written \in 0 .. size
    BY DEF FileInv, TypeOK
  <2> QED
    BY <2>1, <2>2, <2>3
<1>2. pos = total_written \/ (pos = Room /\ pos < total_written)
  BY DEF FileInv, KeepsUp, Received
<1>3. /\ w \in Nat /\ pos + w <= Room
      /\ m \in Nat /\ m <= Room /\ pos + w <= m /\ Len(file) <= m
      /\ m # Len(file) => m = pos + w
  BY <1>1 DEF Taken
<1>4. w = 0 \/ pos = total_written
  BY <1>1, <1>2 DEF Taken
<1>5. pos + w = total_written + n \/ (pos + w = Room /\ pos + w < total_written + n)
  BY <1>1, <1>2 DEF Taken
<1>6. file' = f /\ pos' = pos + w
  BY DEF Write
<1> HIDE DEF w, m
<1>7. ASSUME NEW i \in 1 .. m
      PROVE  f[i] = (IF i <= pos + w THEN i ELSE 0)
  <2>1. f[i] = (IF i \in pos + 1 .. pos + w THEN total_written + i - pos ELSE file[i])
    OBVIOUS
  <2>2. CASE i \in pos + 1 .. pos + w
    <3>1. pos = total_written
      BY <1>1, <1>3, <1>4, <2>2
    <3> QED
      BY <1>1, <1>3, <2>1, <2>2, <3>1
  <2>3. CASE i \notin pos + 1 .. pos + w
    <3>1. i \in 1 .. Len(file)
      BY <1>1, <1>3, <2>3
    <3>2. file[i] = (IF i <= pos THEN i ELSE 0)
      BY <3>1 DEF FileInv, FileIsPrefix
    <3> QED
      BY <1>1, <1>3, <2>1, <2>3, <3>2
  <2> QED
    BY <2>2, <2>3
<1>8. f \in Seq(Nat) /\ Len(f) = m
  <2>1. \A i \in 1 .. m : f[i] \in Nat
    BY <1>1, <1>3, <1>7
  <2> QED
    BY <1>3, <2>1
<1>9. FileIsPrefix'
  BY <1>6, <1>7, <1>8 DEF FileIsPrefix
<1> QED
  BY <1>1, <1>3, <1>5, <1>6, <1>8, <1>9

\* A step of the shell that leaves the file alone keeps the invariant.
LEMMA GoesOn ==
  ASSUME FileInv, UNCHANGED data, calm' \in BOOLEAN, free' \in 0 .. Sockets, pc' \in [Clients -> Steps],
         \/ pc'["shell"] = pc["shell"]
         \/ pc'["shell"] \in {"idle", "close", "finish"}
         \/ pc["shell"] \in {"resolve", "socket"} /\ pc'["shell"] \in {"socket", "connect"}
  PROVE  FileInv'
<1>1. KeepsUp'
  BY DEF FileInv, KeepsUp, data
<1>2. TypeOK' /\ FileIsPrefix'
  BY DEF FileInv, TypeOK, FileIsPrefix, data
<1> QED
  BY <1>1, <1>2 DEF FileInv

\* A step never makes of calm anything but a truth value.
LEMMA CalmType ==
  ASSUME TypeOK, [Next]_vars
  PROVE  calm' \in BOOLEAN
<1>1. ASSUME NEW t \in Clients, Request(t) PROVE calm' \in BOOLEAN
  <2>1. calm \in BOOLEAN
    BY DEF TypeOK
  <2>2. CASE OpenSocket(t) \/ Close(t)
    BY <2>1, <2>2 DEF OpenSocket, Close
  <2>3. CASE NoSocket(t) \/ ConnectFails(t)
    BY <2>3 DEF NoSocket, ConnectFails, Disturb
  <2>4. CASE Connect(t)
    BY <2>1, <2>4 DEF Connect
  <2>5. CASE EndRequest(t)
    BY <2>5 DEF EndRequest
  <2> QED
    BY <1>1, <2>2, <2>3, <2>4, <2>5 DEF Request
<1>2. ASSUME NEW n \in 1 .. size, Fragment(n) \/ WriteFails(n) PROVE calm' \in BOOLEAN
  BY <1>2 DEF Fragment, WriteFails
<1>3. CASE SetSwitch \/ SwitchDone \/ Finish \/ Resolve \/ UNCHANGED vars
  BY <1>3 DEF TypeOK, SetSwitch, SwitchDone, Finish, Resolve, vars
<1>4. CASE Download \/ CannotOpen
  BY <1>4 DEF Download, CannotOpen
<1> QED
  BY <1>1, <1>2, <1>3, <1>4 DEF Next, Transfer

\* Every step keeps the types and the position of the file.
LEMMA FileNext ==
  ASSUME FileInv, SocketInv', [Next]_vars
  PROVE  FileInv'
<1>1. "shell" \in Clients /\ "bt_ck" \in Clients
  BY DEF Clients
<1>2. /\ pc \in [Clients -> Steps] /\ pc' \in [Clients -> Steps] /\ free' \in 0 .. Sockets
      /\ calm \in BOOLEAN /\ calm' \in BOOLEAN
  BY CalmType DEF FileInv, TypeOK, SocketInv
<1>3. ASSUME NEW t \in Clients, NEW step \in {"close", "finish", "idle"},
             Goto(t, step), UNCHANGED data, calm' \in BOOLEAN
      PROVE  FileInv'
  <2>1. pc'["shell"] = pc["shell"] \/ pc'["shell"] = step
    BY <1>1, <1>2, <1>3 DEF Goto
  <2> QED
    BY <1>2, <1>3, <2>1, GoesOn
<1>4. ASSUME NEW t \in Clients, OpenSocket(t) PROVE FileInv'
  <2>1. pc'["shell"] = pc["shell"] \/ (pc["shell"] = "socket" /\ pc'["shell"] = "connect")
    BY <1>1, <1>2, <1>4 DEF OpenSocket, Goto
  <2> QED
    BY <1>2, <1>4, <2>1, GoesOn DEF OpenSocket
<1>5. ASSUME NEW t \in Clients, Connect(t) PROVE FileInv'
  <2>1. UNCHANGED <<file, pos, total_written, result>>
    BY <1>5 DEF Connect
  <2>2. KeepsUp' /\ size' \in Nat /\ found' \in BOOLEAN /\ total_written \in 0 .. size'
    <3>1. CASE t = "shell"
      <4>1. pos = 0 /\ total_written = 0 /\ pc'["shell"] = "request"
        BY <1>1, <1>2, <1>5, <3>1 DEF Connect, Goto, FileInv, KeepsUp
      <4>2. size' \in Nat /\ found' \in BOOLEAN
        BY <1>5, <3>1, HttpAssumption DEF Connect
      <4> QED
        BY <2>1, <4>1, <4>2 DEF KeepsUp
    <3>2. CASE t # "shell"
      <4>1. pc'["shell"] = pc["shell"] /\ UNCHANGED <<size, found>>
        BY <1>1, <1>2, <1>5, <3>2 DEF Connect, Goto
      <4> QED
        BY <2>1, <4>1 DEF FileInv, TypeOK, KeepsUp
    <3> QED
      BY <3>1, <3>2
  <2> QED
    BY <1>2, <2>1, <2>2 DEF FileInv, TypeOK, FileIsPrefix
<1>6. ASSUME NEW t \in Clients, Request(t) PROVE FileInv'
  BY <1>2, <1>3, <1>4, <1>5, <1>6
  DEF Request, NoSocket, ConnectFails, EndRequest, Close
<1>7. CASE SetSwitch
  <2>1. pc'["shell"] = pc["shell"]
    BY <1>1, <1>2, <1>7 DEF SetSwitch, Goto
  <2> QED
    BY <1>2, <1>7, <2>1, GoesOn DEF SetSwitch
<1>8. CASE SwitchDone
  BY <1>1, <1>2, <1>3, <1>8 DEF SwitchDone
<1>9. CASE Download
  <2>1. file' \in Seq(Nat) /\ Len(file') = Len(file) /\ Len(file) \in Nat
        /\ \A i \in 1 .. Len(file') : file'[i] = 0
    <3>1. file \in Seq(Nat) /\ file' = Old(Len(file))
      BY <1>9 DEF Download, FileInv, TypeOK
    <3>2. Len(file) \in Nat
      BY <3>1
    <3> QED
      BY <3>1, <3>2, OldFile
  <2>2. pos' = 0 /\ total_written' = 0 /\ size' = 0 /\ found' = FALSE /\ result' = "none"
    BY <1>9 DEF Download
  <2>3. pc'["shell"] = "resolve"
    BY <1>1, <1>2, <1>9 DEF Download, Goto
  <2>4. TypeOK'
    <3>1. pos' \in 0 .. Len(file') /\ size' \in Nat /\ total_written' \in 0 .. size'
      BY <2>1, <2>2
    <3>2. Len(file') <= Room
      BY <2>1 DEF FileInv, TypeOK
    <3> QED
      BY <1>2, <2>1, <2>2, <3>1, <3>2 DEF TypeOK
  <2>5. KeepsUp' /\ FileIsPrefix'
    BY <2>1, <2>2, <2>3 DEF KeepsUp, FileIsPrefix
  <2> QED
    BY <2>4, <2>5 DEF FileInv
<1>10. CASE CannotOpen
  BY <1>10 DEF CannotOpen, FileInv, TypeOK, KeepsUp, FileIsPrefix
<1>11. CASE Resolve
  <2>1. pc'["shell"] = "socket" \/ pc'["shell"] = "finish"
    BY <1>1, <1>2, <1>11 DEF Resolve, Goto
  <2> QED
    BY <1>2, <1>11, <2>1, GoesOn DEF Resolve
<1>12. ASSUME NEW n \in 1 .. size, Fragment(n) PROVE FileInv'
  <2>1. Received(n) /\ Write(n) /\ total_written' = total_written + n
        /\ UNCHANGED <<pc, free, size, found, result>>
    BY <1>12 DEF Fragment
  <2>2. size \in Nat /\ n \in Nat /\ total_written \in Nat /\ n <= size - total_written
    <3>1. size \in Nat /\ total_written \in 0 .. size
      BY DEF FileInv, TypeOK
    <3>2. n \in 1 .. size - total_written
      BY <2>1 DEF Received
    <3> QED
      BY <3>1, <3>2
  <2>3. /\ file' \in Seq(Nat) /\ Len(file') <= Room /\ pos' \in 0 .. Len(file')
        /\ FileIsPrefix'
        /\ pos' = total_written + n \/ (pos' = Room /\ pos' < total_written + n)
    BY <2>1, <2>2, WriteKeeps
  <2>4. TypeOK'
    <3>1. total_written' \in 0 .. size' /\ size' \in Nat
      BY <2>1, <2>2
    <3>2. found' \in BOOLEAN /\ result' \in {"none", "Download Success!", "download failed"}
      BY <2>1 DEF FileInv, TypeOK
    <3> QED
      BY <1>2, <2>3, <3>1, <3>2 DEF TypeOK
  <2>5. KeepsUp'
    BY <2>1, <2>3 DEF KeepsUp, Received
  <2> QED
    BY <2>3, <2>4, <2>5 DEF FileInv
<1>13. ASSUME NEW n \in 1 .. size, WriteFails(n) PROVE FileInv'
  BY <1>1, <1>3, <1>13 DEF WriteFails
<1>14. CASE Finish
  <2>1. pc'["shell"] = "idle" /\ result' = "Download Success!"
        /\ UNCHANGED <<file, pos, total_written, size, found>>
    BY <1>1, <1>2, <1>14 DEF Finish, Goto
  <2> QED
    BY <1>2, <2>1 DEF FileInv, TypeOK, KeepsUp, FileIsPrefix
<1>15. CASE UNCHANGED vars
  BY <1>15 DEF vars, FileInv, TypeOK, KeepsUp, FileIsPrefix
<1> QED
  BY <1>6, <1>7, <1>8, <1>9, <1>10, <1>11, <1>12, <1>13, <1>14, <1>15
  DEF Next, Transfer

\* THE FILE HAS NO GAP: however a download was cut off, the file is the start
\* of the answer that http_dl_response_cb was given, before the rest of the
\* file that http_dl_file opened.
THEOREM FileHasNoGap == Spec => []FileIsPrefix
<1>1. Init => FileInv /\ SocketInv
  BY FileInit, HttpAssumption DEF Init, SocketInv, Holds, Holding, Steps, Clients
<1>2. FileInv /\ SocketInv /\ [Next]_vars => FileInv' /\ SocketInv'
  BY FileNext, SocketNext
<1>3. FileInv => FileIsPrefix
  BY DEF FileInv
<1> QED
  BY <1>1, <1>2, <1>3, PTL DEF Spec

\* EVERY STATE HAS ITS TYPE: the file never outgrows the card and its position
\* never the file, and no more is received than the answer has.
THEOREM HttpTyped == Spec => []TypeOK
<1>1. Init => FileInv /\ SocketInv
  BY FileInit, HttpAssumption DEF Init, SocketInv, Holds, Holding, Steps, Clients
<1>2. FileInv /\ SocketInv /\ [Next]_vars => FileInv' /\ SocketInv'
  BY FileNext, SocketNext
<1>3. FileInv => TypeOK
  BY DEF FileInv
<1> QED
  BY <1>1, <1>2, <1>3, PTL DEF Spec

-----------------------------------------------------------------------------
(* The undisturbed download. *)

\* Where an undisturbed download has come to: its answer is the file, is as long
\* as all that the card holds, and has been written as far as it was received.
CalmInv ==
  calm =>
    /\ pc["shell"] \in {"request", "close", "finish"} =>
         found /\ Len(file) <= size /\ pos = total_written
    /\ pc["shell"] \in {"close", "finish"} => total_written = size
    /\ pc["shell"] \notin {"idle"} => result = "none"
    /\ result = "Download Success!" => Saved

\* The step of the shell after a step of a client.
LEMMA ShellStep ==
  ASSUME pc \in [Clients -> Steps], NEW t \in Clients, NEW step \in Steps, Goto(t, step)
  PROVE  pc'["shell"] = (IF t = "shell" THEN step ELSE pc["shell"])
BY DEF Goto, Clients

\* A step that leaves the file, its answer and the step of the shell alone.
LEMMA CalmStays ==
  ASSUME CalmInv, UNCHANGED data, pc'["shell"] = pc["shell"], calm' => calm
  PROVE  CalmInv'
BY DEF CalmInv, data, Saved

\* Every step keeps it, or disturbs the download.
LEMMA CalmNext ==
  ASSUME FileInv, CalmInv, [Next]_vars
  PROVE  CalmInv'
<1>1. "shell" \in Clients /\ "bt_ck" \in Clients
  BY DEF Clients
<1>2. pc \in [Clients -> Steps] /\ calm \in BOOLEAN /\ Len(file) \in Nat
  <2>1. pc \in [Clients -> Steps] /\ calm \in BOOLEAN /\ file \in Seq(Nat)
    BY DEF FileInv, TypeOK
  <2>2. Len(file) \in Nat
    BY <2>1
  <2> QED
    BY <2>1, <2>2
<1>3. {"idle", "resolve", "socket", "connect", "request", "close", "finish"} = Steps
  BY DEF Steps, Holding
<1>4. SUFFICES ASSUME calm' PROVE CalmInv'
  BY DEF CalmInv
<1>5. ASSUME NEW t \in Clients, Request(t) PROVE CalmInv'
  <2>1. CASE OpenSocket(t)
    <3>1. pc'["shell"] = (IF t = "shell" THEN "connect" ELSE pc["shell"])
      BY <1>2, <1>3, <2>1, ShellStep DEF OpenSocket
    <3>2. t = "shell" => pc["shell"] = "socket"
      BY <2>1 DEF OpenSocket
    <3>3. UNCHANGED data /\ UNCHANGED calm
      BY <2>1 DEF OpenSocket
    <3> QED
      BY <3>1, <3>2, <3>3 DEF CalmInv, data, Saved
  <2>2. CASE NoSocket(t)
    <3>1. t # "shell" /\ calm /\ UNCHANGED data
      BY <1>4, <2>2 DEF NoSocket, Disturb
    <3>2. pc'["shell"] = pc["shell"]
      BY <1>2, <1>3, <2>2, <3>1, ShellStep DEF NoSocket
    <3> QED
      BY <3>1, <3>2, CalmStays
  <2>3. CASE ConnectFails(t)
    <3>1. t # "shell" /\ calm /\ UNCHANGED data
      BY <1>4, <2>3 DEF ConnectFails, Disturb
    <3>2. pc'["shell"] = pc["shell"]
      BY <1>2, <1>3, <2>3, <3>1, ShellStep DEF ConnectFails
    <3> QED
      BY <3>1, <3>2, CalmStays
  <2>4. CASE Connect(t)
    <3>1. pc'["shell"] = (IF t = "shell" THEN "request" ELSE pc["shell"])
      BY <1>2, <1>3, <2>4, ShellStep DEF Connect
    <3>2. CASE t = "shell"
      <4>1. calm /\ found' /\ size' >= Len(file) /\ size' \in Nat
        BY <1>4, <2>4, <3>2, HttpAssumption DEF Connect
      <4>2. pc["shell"] = "connect" /\ UNCHANGED <<file, pos, total_written, result>>
        BY <2>4, <3>2 DEF Connect
      <4>3. pos = total_written /\ result = "none"
        BY <4>1, <4>2 DEF FileInv, KeepsUp, CalmInv
      <4> QED
        BY <1>2, <3>1, <3>2, <4>1, <4>2, <4>3 DEF CalmInv
    <3>3. CASE t # "shell"
      <4>1. UNCHANGED data /\ UNCHANGED calm
        BY <2>4, <3>3 DEF Connect, data
      <4> QED
        BY <3>1, <3>3, <4>1, CalmStays
    <3> QED
      BY <3>2, <3>3
  <2>5. CASE EndRequest(t)
    <3>1. pc'["shell"] = (IF t = "shell" THEN "close" ELSE pc["shell"])
      BY <1>2, <1>3, <2>5, ShellStep DEF EndRequest
    <3>2. calm /\ UNCHANGED data /\ (t = "shell" => total_written = size)
      BY <1>4, <2>5 DEF EndRequest
    <3>3. t = "shell" => pc["shell"] = "request"
      BY <2>5 DEF EndRequest
    <3> QED
      BY <3>1, <3>2, <3>3 DEF CalmInv, data, Saved
  <2>6. CASE Close(t)
    <3>1. pc'["shell"] = (IF t = "shell" THEN "finish" ELSE pc["shell"])
      BY <1>2, <1>3, <2>6, ShellStep DEF Close
    <3>2. UNCHANGED calm /\ UNCHANGED data /\ (t = "shell" => pc["shell"] = "close")
      BY <2>6 DEF Close
    <3> QED
      BY <3>1, <3>2 DEF CalmInv, data, Saved
  <2> QED
    BY <1>5, <2>1, <2>2, <2>3, <2>4, <2>5, <2>6 DEF Request
<1>6. CASE SetSwitch
  <2>1. pc'["shell"] = pc["shell"]
    BY <1>1, <1>2, <1>3, <1>6, ShellStep DEF SetSwitch
  <2> QED
    BY <1>6, <2>1, CalmStays DEF SetSwitch
<1>7. CASE SwitchDone
  <2>1. pc'["shell"] = pc["shell"]
    BY <1>1, <1>2, <1>3, <1>7, ShellStep DEF SwitchDone
  <2> QED
    BY <1>7, <2>1, CalmStays DEF SwitchDone
<1>8. CASE Download
  <2>1. pc'["shell"] = "resolve" /\ result' = "none"
    BY <1>1, <1>2, <1>3, <1>8, ShellStep DEF Download
  <2> QED
    BY <2>1 DEF CalmInv
<1>9. CASE CannotOpen
  BY <1>4, <1>9 DEF CannotOpen
<1>10. CASE Resolve
  <2>1. Goto("shell", "socket") /\ UNCHANGED calm /\ UNCHANGED data
    BY <1>4, <1>10 DEF Resolve
  <2>2. pc'["shell"] = "socket" /\ pc["shell"] = "resolve"
    BY <1>1, <1>2, <1>3, <1>10, <2>1, ShellStep DEF Resolve
  <2> QED
    BY <2>1, <2>2 DEF CalmInv, data, Saved
<1>11. ASSUME NEW n \in 1 .. size, Fragment(n) PROVE CalmInv'
  <2>1. /\ calm /\ Taken(n) = n /\ pc["shell"] = "request"
        /\ UNCHANGED <<pc, size, found, result>>
        /\ total_written' = total_written + n
        /\ n \in 1 .. size - total_written
    BY <1>4, <1>11 DEF Fragment, Received
  <2>2. found /\ Len(file) <= size /\ pos = total_written /\ result = "none"
    BY <2>1 DEF CalmInv
  <2>3. size \in Nat /\ total_written \in Nat /\ pos + n \in Nat /\ pos + n <= size
    <3>1. size \in Nat /\ total_written \in 0 .. size
      BY DEF FileInv, TypeOK
    <3> QED
      BY <2>1, <2>2, <3>1
  <2>4. pos' = pos + n /\ Len(file') <= size
    <3> DEFINE m == IF pos + n <= Len(file) THEN Len(file) ELSE pos + n
    <3>1. pos' = pos + n /\ \E g : file' = [i \in 1 .. m |-> g[i]]
      <4> DEFINE g == [i \in 1 .. m |-> IF i \in pos + 1 .. pos + n
                                          THEN total_written + i - pos ELSE file[i]]
      <4>1. pos' = pos + n /\ file' = g
        BY <1>11, <2>1 DEF Fragment, Write
      <4> QED
        BY <4>1
    <3>2. m \in Nat /\ m <= size
      BY <1>2, <2>2, <2>3
    <3> HIDE DEF m
    <3>3. Len(file') = m
      BY <3>1, <3>2
    <3> QED
      BY <3>1, <3>2, <3>3
  <2>5. pos' = total_written'
    BY <2>1, <2>2, <2>4
  <2> QED
    BY <2>1, <2>2, <2>4, <2>5 DEF CalmInv
<1>12. ASSUME NEW n \in 1 .. size, WriteFails(n) PROVE CalmInv'
  BY <1>4, <1>12 DEF WriteFails
<1>13. CASE Finish
  <2>1. /\ pc["shell"] = "finish" /\ pc'["shell"] = "idle" /\ calm
        /\ UNCHANGED <<file, pos, total_written, size, found>>
    BY <1>1, <1>2, <1>3, <1>4, <1>13, ShellStep DEF Finish
  <2>2. found /\ Len(file) <= size /\ pos = size /\ size \in Nat
    BY <2>1 DEF CalmInv, FileInv, TypeOK
  <2>3. pos <= Len(file) /\ file \in Seq(Nat)
    <3>1. pos \in 0 .. Len(file) /\ file \in Seq(Nat)
      BY DEF FileInv, TypeOK
    <3> QED
      BY <1>2, <3>1
  <2>4. Len(file) = size
    BY <1>2, <2>2, <2>3
  <2>5. \A i \in 1 .. size : file[i] = i
    BY <2>2, <2>4 DEF FileInv, FileIsPrefix
  <2>6. file = [i \in 1 .. size |-> i]
    BY <2>3, <2>4, <2>5
  <2>7. Saved'
    BY <2>1, <2>2, <2>6 DEF Saved
  <2> QED
    BY <2>1, <2>7 DEF CalmInv
<1>14. CASE UNCHANGED vars
  <2>1. UNCHANGED data /\ UNCHANGED <<pc, calm>>
    BY <1>14 DEF vars, data
  <2> QED
    BY <2>1, CalmStays
<1> QED
  BY <1>5, <1>6, <1>7, <1>8, <1>9, <1>10, <1>11, <1>12, <1>13, <1>14 DEF Next, Transfer

\* WHAT IS REPORTED AS SAVED IS SAVED, unless the download was disturbed: the
\* file is the answer, whole and nothing else, at every size of both.
THEOREM ReportsSaved == Spec => []SavedWhileCalm
<1>1. Init => FileInv /\ SocketInv
  BY FileInit, HttpAssumption DEF Init, SocketInv, Holds, Holding, Steps, Clients
<1>2. Init => CalmInv
  BY DEF Init, CalmInv, Clients
<1>3. FileInv /\ SocketInv /\ [Next]_vars => FileInv' /\ SocketInv'
  BY FileNext, SocketNext
<1>4. FileInv /\ CalmInv /\ [Next]_vars => CalmInv'
  BY CalmNext
<1>5. CalmInv => SavedWhileCalm
  BY DEF CalmInv, SavedWhileCalm
<1> QED
  BY <1>1, <1>2, <1>3, <1>4, <1>5, PTL DEF Spec

-----------------------------------------------------------------------------
(* The end of the calls. *)

\* A client that goes on to a later stretch of its call.
LEMMA GoesNearer ==
  ASSUME pc \in [Clients -> Steps], NEW t \in Clients, NEW step \in Steps, Goto(t, step),
         \/ step = "idle" /\ pc[t] = "finish"
         \/ step = "finish" /\ pc[t] \in {"resolve", "socket", "connect", "close"}
         \/ step = "close" /\ pc[t] = "request"
         \/ step = "request" /\ pc[t] = "connect"
         \/ step = "connect" /\ pc[t] = "socket"
         \/ step = "socket" /\ pc[t] = "resolve"
  PROVE  Nearer(t) /\ \A u \in Clients \ {t} : pc'[u] = pc[u]
<1>1. pc'[t] = step /\ \A u \in Clients \ {t} : pc'[u] = pc[u]
  BY DEF Goto
<1>2. ToGo(t)' < ToGo(t)
  BY <1>1 DEF ToGo
<1> QED
  BY <1>1, <1>2 DEF Nearer

\* A step moves one client at most, and if that one is in a call, towards its end.
LEMMA OneMoves ==
  ASSUME TypeOK, Next,
         NEW t \in Clients, pc[t] # "idle", pc'[t] # pc[t] \/ (t = "shell" /\ data' # data)
  PROVE  Nearer(t)
<1>1. "shell" \in Clients /\ "bt_ck" \in Clients
  BY DEF Clients
<1>2. pc \in [Clients -> Steps]
      /\ {"idle", "resolve", "socket", "connect", "request", "close", "finish"} = Steps
  BY DEF TypeOK, Steps, Holding
<1>3. ASSUME NEW u \in Clients, Request(u) PROVE Nearer(t)
  <2>1. Nearer(u) /\ \A v \in Clients \ {u} : pc'[v] = pc[v]
    BY <1>2, <1>3, GoesNearer DEF Request, OpenSocket, NoSocket, Connect, ConnectFails,
       EndRequest, Close
  <2>2. u # "shell" => UNCHANGED data
    BY <1>3 DEF Request, OpenSocket, NoSocket, Connect, ConnectFails, EndRequest, Close, data
  <2> QED
    BY <2>1, <2>2
<1>4. CASE SetSwitch \/ Download
  <2>1. \A v \in Clients : pc[v] # "idle" => pc'[v] = pc[v]
    BY <1>1, <1>2, <1>4 DEF SetSwitch, Download, Goto
  <2>2. UNCHANGED data \/ pc["shell"] = "idle"
    BY <1>4 DEF SetSwitch, Download
  <2> QED
    BY <2>1, <2>2
<1>5. CASE CannotOpen
  BY <1>5 DEF CannotOpen, data
<1>6. CASE SwitchDone
  <2>1. Nearer("bt_ck") /\ \A v \in Clients \ {"bt_ck"} : pc'[v] = pc[v]
    BY <1>1, <1>2, <1>6, GoesNearer DEF SwitchDone
  <2> QED
    BY <1>6, <2>1 DEF SwitchDone
<1>7. CASE Resolve \/ Finish
  <2>1. Nearer("shell") /\ \A v \in Clients \ {"shell"} : pc'[v] = pc[v]
    BY <1>1, <1>2, <1>7, GoesNearer DEF Resolve, Finish
  <2> QED
    BY <2>1
<1>8. ASSUME NEW n \in 1 .. size, Fragment(n) PROVE Nearer(t)
  <2>1. /\ n \in 1 .. size - total_written /\ total_written' = total_written + n
        /\ UNCHANGED <<pc, size>> /\ pc["shell"] = "request"
    BY <1>8 DEF Fragment, Received
  <2>2. size \in Nat /\ total_written \in Nat
    <3>1. size \in Nat /\ total_written \in 0 .. size
      BY DEF TypeOK
    <3> QED
      BY <3>1
  <2>3. size' - total_written' < size - total_written
    BY <2>1, <2>2
  <2> QED
    BY <2>1, <2>3 DEF Nearer
<1>9. ASSUME NEW n \in 1 .. size, WriteFails(n) PROVE Nearer(t)
  <2>1. Nearer("shell") /\ \A v \in Clients \ {"shell"} : pc'[v] = pc[v]
    BY <1>1, <1>2, <1>9, GoesNearer DEF WriteFails, Received
  <2> QED
    BY <2>1
<1> QED
  BY <1>3, <1>4, <1>5, <1>6, <1>7, <1>8, <1>9 DEF Next, Transfer

\* EVERY CALL COMES TO AN END, as far as its own steps go: for answers of every size,
\* each step of a client brings its call nearer to its end, whatever fails, and no step
\* of the other client takes it further away.
THEOREM CallsComeNearer == Spec => CallsNear
<1> DEFINE Near ==
      \A t \in Clients :
        pc[t] # "idle" /\ (pc'[t] # pc[t] \/ (t = "shell" /\ data' # data)) => Nearer(t)
<1>1. TypeOK /\ [Next]_vars => [Near]_vars
  BY OneMoves
<1> QED
  BY <1>1, HttpTyped, PTL DEF Spec, CallsNear
=============================================================================
