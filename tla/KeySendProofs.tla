--------------------------- MODULE KeySendProofs ---------------------------
(***************************************************************************)
(* Proofs about KeySend, for every set of keys and number of buffers.      *)
(***************************************************************************)
EXTENDS KeySend, SequenceTheorems, TLAPS

Reports == Keys \cup {None}

\* The notifications that the host will not take as keys, because they are sent
\* before its write of the CCC is answered.
Skipped == IF host = "asking" THEN IF ccc THEN ahead ELSE Len(air) ELSE 0

Takes == host \in {"linked", "listening", "asking"}

\* Behind a press that the host will see or has seen there is a release.
Alternates ==
  Takes =>
    /\ \A i \in 1 .. Len(air) :
         i > Skipped /\ i + 1 <= Len(air) /\ air[i] # None => air[i + 1] = None
    /\ host_key # None /\ air # <<>> => air[1] = None

\* A press that the host has seen, or that is on its way, and no release yet.
PressPending ==
  IF Len(air) <= Skipped THEN host_key # None ELSE air[Len(air)] # None

ReleaseFollows ==
  /\ Takes /\ PressPending => ccc /\ shell \in {"pause", "release", "release_wait"}
  /\ shell \in {"release", "release_wait"} => report_val = None
  /\ host # "listening" => host_key = None
  /\ host = "gone" => air = <<>> /\ ahead = 0 /\ shell \notin Waits
  /\ shell \in Waits => host \in {"left", "asking"} \/ ccc

KeyInv == TypeOK /\ Alternates /\ ReleaseFollows

\* Adding a report behind the others.
LEMMA AppendReport ==
  ASSUME NEW s \in Seq(Reports), NEW r \in Reports
  PROVE  /\ Append(s, r) \in Seq(Reports)
         /\ Len(Append(s, r)) = Len(s) + 1 /\ Len(s) \in Nat
         /\ Append(s, r)[Len(s) + 1] = r
         /\ \A i \in 1 .. Len(s) : Append(s, r)[i] = s[i]
         /\ Append(s, r) # <<>>
         /\ (s = <<>> <=> Len(s) = 0)
BY AppendProperties, EmptySeq

\* Taking the first report.
LEMMA TailReport ==
  ASSUME NEW s \in Seq(Reports), s # <<>>
  PROVE  /\ Tail(s) \in Seq(Reports)
         /\ Head(s) \in Reports /\ Head(s) = s[1]
         /\ Len(Tail(s)) = Len(s) - 1 /\ Len(s) \in Nat /\ Len(s) > 0
         /\ \A i \in 1 .. Len(Tail(s)) : Tail(s)[i] = s[i + 1]
         /\ (Tail(s) = <<>> <=> Len(Tail(s)) = 0)
<1>1. Tail(s) \in Seq(Reports) /\ Head(s) \in Reports /\ Len(Tail(s)) = Len(s) - 1
      /\ \A i \in 1 .. Len(Tail(s)) : Tail(s)[i] = s[i + 1]
  BY HeadTailProperties
<1>2. Len(s) \in Nat /\ Len(s) > 0
  BY EmptySeq
<1>3. Tail(s) = <<>> <=> Len(Tail(s)) = 0
  BY <1>1, EmptySeq
<1>4. Head(s) = s[1]
  OBVIOUS
<1> QED
  BY <1>1, <1>2, <1>3, <1>4

LEMMA KeyInit == Init => KeyInv
<1> SUFFICES ASSUME Init PROVE KeyInv
  OBVIOUS
<1>1. air \in Seq(Reports) /\ Len(air) = 0 /\ Len(air) <= Buffers /\ ahead \in 0 .. Buffers
  BY KeyAssumption, EmptySeq DEF Init, Reports
<1>2. TypeOK
  BY <1>1 DEF Init, TypeOK, Reports
<1>3. Alternates /\ ReleaseFollows
  BY <1>1 DEF Init, Alternates, ReleaseFollows, PressPending, Takes, Skipped, Waits
<1> QED
  BY <1>2, <1>3 DEF KeyInv

\* The parts of the type invariant.
LEMMA Typed ==
  ASSUME KeyInv
  PROVE  /\ air \in Seq(Reports) /\ Len(air) \in Nat /\ Len(air) <= Buffers /\ Buffers \in Nat
         /\ host_key \in Reports /\ report_val \in Reports /\ ccc \in BOOLEAN
         /\ shell \in {"idle", "press", "pause", "release", "press_wait", "release_wait"}
         /\ host \in {"gone", "linked", "listening", "left", "asking"}
         /\ ahead \in Nat /\ Skipped \in Nat
<1>1. air \in Seq(Reports)
  BY DEF KeyInv, TypeOK, Reports
<1>2. Len(air) \in Nat
  BY <1>1
<1>3. ahead \in Nat /\ Skipped \in Nat
  BY <1>2, KeyAssumption DEF KeyInv, TypeOK, Skipped
<1> QED
  BY <1>1, <1>2, <1>3, KeyAssumption DEF KeyInv, TypeOK, Reports, Waits

\* Steps of the host.
LEMMA HostKeeps ==
  ASSUME KeyInv, Host
  PROVE  KeyInv'
<1> USE DEF Takes, Skipped
<1>0. Len(air) \in Nat /\ ahead \in Nat /\ Buffers \in Nat /\ Len(air) <= Buffers
  BY Typed
<1>1. CASE Connect
  <2>1. /\ host = "gone" /\ host' = "linked" /\ ccc' \in BOOLEAN
        /\ UNCHANGED <<shell, report_val, host_key, air, ahead>>
    BY <1>1 DEF Connect
  <2>2. air = <<>> /\ host_key = None /\ shell \notin Waits
    BY <2>1 DEF KeyInv, ReleaseFollows
  <2>3. TypeOK'
    BY <2>1 DEF KeyInv, TypeOK
  <2>4. Len(air) = 0
    BY <2>2
  <2>5. Alternates' /\ ReleaseFollows'
    BY <2>1, <2>2, <2>4 DEF KeyInv, Alternates, ReleaseFollows, PressPending
  <2> QED
    BY <2>3, <2>5 DEF KeyInv
<1>2. CASE Listen
  <2>1. TypeOK'
    BY <1>2 DEF Listen, KeyInv, TypeOK
  <2>2. Skipped = 0 /\ Skipped' = 0 /\ Takes /\ PressPending' = PressPending
    BY <1>2 DEF Listen, PressPending
  <2>3. Alternates' /\ ReleaseFollows'
    BY <1>2, <2>2 DEF Listen, KeyInv, Alternates, ReleaseFollows
  <2> QED
    BY <2>1, <2>3 DEF KeyInv
<1>3. CASE Leave
  <2>1. TypeOK'
    BY <1>3 DEF Leave, KeyInv, TypeOK
  <2>2. Alternates' /\ ReleaseFollows'
    BY <1>3 DEF Leave, KeyInv, Alternates, ReleaseFollows, PressPending
  <2> QED
    BY <2>1, <2>2 DEF KeyInv
<1>4. CASE InputCccChanged
  <2>1. /\ host \in {"listening", "asking", "left"}
        /\ ccc' = (host \in {"listening", "asking"})
        /\ ahead' = IF host = "asking" THEN Len(air) ELSE ahead
        /\ UNCHANGED <<shell, report_val, host, host_key, air>>
    BY <1>4 DEF InputCccChanged, Subscribes
  <2>2. TypeOK'
    BY <1>0, <2>1 DEF KeyInv, TypeOK
  <2>3. CASE host = "asking"
    <3>1. Skipped' = Len(air') /\ host_key = None
      BY <2>1, <2>3 DEF KeyInv, ReleaseFollows
    <3>2. Alternates' /\ ReleaseFollows'
      BY <1>0, <2>1, <2>3, <3>1 DEF KeyInv, Alternates, ReleaseFollows, PressPending
    <3> QED
      BY <2>2, <3>2 DEF KeyInv
  <2>4. CASE host # "asking"
    <3>1. Skipped' = 0 /\ Skipped = 0
      BY <2>1, <2>4
    <3>2. Alternates' /\ ReleaseFollows'
      BY <2>1, <2>4, <3>1 DEF KeyInv, Alternates, ReleaseFollows, PressPending
    <3> QED
      BY <2>2, <3>2 DEF KeyInv
  <2> QED
    BY <2>3, <2>4
<1>5. CASE Disconnect
  <2>1. /\ host' = "gone" /\ ccc' = FALSE /\ host_key' = None /\ air' = <<>> /\ ahead' = 0
        /\ shell' = IF shell \in Waits THEN AfterNotify ELSE shell
        /\ report_val' = report_val
    BY <1>5 DEF Disconnect
  <2>2. shell' \in {"idle", "press", "pause", "release"} /\ shell' \notin Waits
        /\ (shell' = "release" => shell = "release")
    BY <2>1, Typed DEF AfterNotify, Waits
  <2>3. air' \in Seq(Keys \cup {None}) /\ Len(air') <= Buffers
    BY <2>1, KeyAssumption
  <2>6. ahead' \in 0 .. Buffers
    BY <1>0, <2>1
  <2>4. TypeOK'
    BY <2>1, <2>2, <2>3, <2>6 DEF KeyInv, TypeOK
  <2>5. Alternates' /\ ReleaseFollows'
    BY <2>1, <2>2 DEF KeyInv, Alternates, ReleaseFollows, Waits
  <2> QED
    BY <2>4, <2>5 DEF KeyInv
<1>6. CASE Ask
  <2>1. /\ host = "left" /\ ~ccc /\ host' = "asking"
        /\ UNCHANGED <<shell, report_val, ccc, host_key, air, ahead>>
    BY <1>6 DEF Ask
  <2>2. TypeOK'
    BY <2>1 DEF KeyInv, TypeOK
  <2>3. Skipped' = Len(air) /\ host_key = None
    BY <2>1 DEF KeyInv, ReleaseFollows
  <2>4. Alternates' /\ ReleaseFollows'
    BY <1>0, <2>1, <2>3 DEF KeyInv, Alternates, ReleaseFollows, PressPending
  <2> QED
    BY <2>2, <2>4 DEF KeyInv
<1> QED
  BY <1>1, <1>2, <1>3, <1>4, <1>5, <1>6 DEF Host

\* What is behind the skipped ones stays behind them.
LEMMA OneMore ==
  ASSUME NEW a \in Nat, NEW b \in Nat, NEW c \in Nat, a > b, c <= b + 1
  PROVE  a + 1 > c
OBVIOUS

LEMMA DeliverKeeps ==
  ASSUME KeyInv, Deliver
  PROVE  KeyInv'
<1>1. /\ air # <<>> /\ air' = Tail(air)
      /\ host_key' = IF host = "listening" THEN Head(air) ELSE host_key
      /\ ahead' = IF ahead > 0 THEN ahead - 1 ELSE 0
      /\ UNCHANGED <<shell, report_val, ccc, host>>
  BY DEF Deliver
<1>2. /\ air' \in Seq(Reports) /\ Head(air) \in Reports /\ Head(air) = air[1]
      /\ Len(air') = Len(air) - 1 /\ Len(air) \in Nat /\ Len(air) > 0
      /\ \A i \in 1 .. Len(air') : air'[i] = air[i + 1]
      /\ (air' = <<>> <=> Len(air') = 0)
  BY <1>1, Typed, TailReport
<1>3. TypeOK'
  <2>1. Len(air') <= Buffers
    BY <1>2, Typed
  <2>2. host_key' \in Reports
    BY <1>1, <1>2, Typed
  <2>3. ahead' \in 0 .. Buffers
    BY <1>1, Typed DEF KeyInv, TypeOK
  <2> QED
    BY <1>1, <1>2, <2>1, <2>2, <2>3 DEF KeyInv, TypeOK, Reports
<1>0. Skipped \in Nat /\ Skipped' \in Nat /\ Skipped <= Skipped' + 1
      /\ (host = "listening" => Skipped = 0)
      /\ (Skipped' = Skipped - 1 \/ Skipped' = 0)
  BY <1>1, <1>2, Typed DEF Skipped
<1>4. Alternates'
  <2> SUFFICES ASSUME Takes
               PROVE  /\ \A i \in 1 .. Len(air') :
                           i > Skipped' /\ i + 1 <= Len(air') /\ air'[i] # None =>
                             air'[i + 1] = None
                      /\ host_key' # None /\ air' # <<>> => air'[1] = None
    BY <1>1 DEF Alternates, Takes
  <2>1. \A i \in 1 .. Len(air) :
          i > Skipped /\ i + 1 <= Len(air) /\ air[i] # None => air[i + 1] = None
    BY DEF KeyInv, Alternates
  <2>2. ASSUME NEW i \in 1 .. Len(air'), i > Skipped', i + 1 <= Len(air'), air'[i] # None
        PROVE  air'[i + 1] = None
    <3>5. i \in Nat
      BY <1>2
    <3>4. i + 1 > Skipped
      BY <1>0, <2>2, <3>5, OneMore
    <3>1. i + 1 \in 1 .. Len(air') /\ i + 1 \in 1 .. Len(air) /\ (i + 1) + 1 <= Len(air)
          /\ i + 1 > Skipped
      BY <1>2, <2>2, <3>4
    <3>2. air'[i] = air[i + 1] /\ air'[i + 1] = air[(i + 1) + 1]
      BY <1>2, <2>2, <3>1
    <3> QED
      BY <2>1, <2>2, <3>1, <3>2
  <2>3. ASSUME host_key' # None, air' # <<>> PROVE air'[1] = None
    <3>1. host = "listening"
      BY <1>1, <2>3 DEF KeyInv, ReleaseFollows
    <3>2. air[1] # None /\ 1 \in 1 .. Len(air') /\ 1 \in 1 .. Len(air) /\ 1 + 1 <= Len(air)
          /\ 1 > Skipped
      BY <1>0, <1>1, <1>2, <2>3, <3>1
    <3>3. air[1 + 1] = None /\ air'[1] = air[1 + 1]
      BY <1>2, <2>1, <3>2
    <3> QED
      BY <3>3
  <2> QED
    BY <2>2, <2>3
<1>5. ReleaseFollows'
  <2>1. Takes /\ PressPending' => PressPending
    <3> SUFFICES ASSUME Takes, PressPending'
                 PROVE  Len(air) > Skipped /\ air[Len(air)] # None
      BY <1>0, <1>2 DEF PressPending
    <3>1. CASE Len(air') <= Skipped'
      <4>1. host_key' # None
        BY <3>1 DEF PressPending
      <4>2. host = "listening"
        BY <1>1, <4>1 DEF KeyInv, ReleaseFollows
      <4>3. Skipped' = 0
        BY <1>1, <4>2 DEF Skipped
      <4>4. Len(air) = 1 /\ Skipped = 0
        BY <1>0, <1>2, <3>1, <4>2, <4>3
      <4> QED
        BY <1>1, <1>2, <4>1, <4>2, <4>4
    <3>2. CASE Len(air') > Skipped'
      <4>1. air'[Len(air')] # None
        BY <1>0, <1>2, <3>2 DEF PressPending
      <4>2. Len(air') \in Nat /\ Len(air') > 0 /\ Len(air') + 1 = Len(air)
        BY <1>0, <1>2, <3>2
      <4>4. Len(air') \in 1 .. Len(air')
        BY <4>2
      <4>5. Len(air) > Skipped
        <5>1. Len(air') + 1 > Skipped
          BY <1>0, <3>2, <4>2, OneMore
        <5> QED
          BY <4>2, <5>1
      <4>3. air'[Len(air')] = air[Len(air') + 1]
        BY <1>2, <4>4
      <4> QED
        BY <4>1, <4>2, <4>3, <4>5
    <3> QED
      BY <1>0, <1>2, <3>1, <3>2
  <2>2. host # "listening" => host_key' = None
    BY <1>1 DEF KeyInv, ReleaseFollows
  <2>3. host # "gone"
    BY <1>1 DEF KeyInv, ReleaseFollows
  <2> QED
    BY <1>1, <2>1, <2>2, <2>3 DEF KeyInv, ReleaseFollows, Takes
<1> QED
  BY <1>3, <1>4, <1>5 DEF KeyInv

LEMMA EnqueueKeeps ==
  ASSUME KeyInv, Enqueue
  PROVE  KeyInv'
<1>1. /\ shell \in Waits /\ Len(air) < Buffers /\ air' = Append(air, report_val)
      /\ shell' = AfterNotify /\ UNCHANGED <<report_val, ccc, host, host_key, ahead>>
  BY DEF Enqueue
<1>2. /\ air' \in Seq(Reports) /\ Len(air') = Len(air) + 1 /\ Len(air) \in Nat
      /\ air'[Len(air) + 1] = report_val
      /\ \A i \in 1 .. Len(air) : air'[i] = air[i]
      /\ air' # <<>> /\ (air = <<>> <=> Len(air) = 0)
  BY <1>1, Typed, AppendReport
<1>3. /\ shell = "press_wait" => shell' = "pause"
      /\ shell = "release_wait" => shell' = "idle" /\ report_val = None
      /\ shell = "press_wait" \/ shell = "release_wait"
  BY <1>1 DEF AfterNotify, Waits, KeyInv, ReleaseFollows
<1>4. TypeOK'
  <2>1. Len(air') <= Buffers
    BY <1>1, <1>2, Typed
  <2>2. shell' \in {"idle", "pause"}
    BY <1>3
  <2> QED
    BY <1>1, <1>2, <2>1, <2>2 DEF KeyInv, TypeOK, Reports
<1>0. /\ Skipped \in Nat
      /\ IF host = "asking" /\ ~ccc THEN Skipped = Len(air) /\ Skipped' = Len(air')
         ELSE Skipped' = Skipped
  BY <1>1, Typed DEF Skipped
<1>5. Takes /\ PressPending => report_val = None
  <2>1. Takes /\ PressPending => shell # "press_wait"
    BY DEF KeyInv, ReleaseFollows
  <2> QED
    BY <1>3, <2>1
<1>6. Alternates'
  <2> SUFFICES ASSUME Takes
               PROVE  /\ \A i \in 1 .. Len(air') :
                           i > Skipped' /\ i + 1 <= Len(air') /\ air'[i] # None =>
                             air'[i + 1] = None
                      /\ host_key # None => air'[1] = None
    BY <1>1 DEF Alternates, Takes
  <2>1. ASSUME NEW i \in 1 .. Len(air'), i > Skipped', i + 1 <= Len(air'), air'[i] # None
        PROVE  air'[i + 1] = None
    <3>1. i \in 1 .. Len(air) /\ air'[i] = air[i] /\ i > Skipped
      BY <1>0, <1>2, <2>1
    <3>2. CASE i + 1 <= Len(air)
      <4>1. i + 1 \in 1 .. Len(air)
        BY <1>2, <3>1, <3>2
      <4>2. air[i + 1] = None
        BY <2>1, <3>1, <3>2 DEF KeyInv, Alternates
      <4> QED
        BY <1>2, <4>1, <4>2
    <3>3. CASE i + 1 = Len(air) + 1
      <4>1. i = Len(air) /\ air # <<>>
        BY <1>2, <3>1, <3>3
      <4>2. PressPending
        BY <1>0, <1>2, <2>1, <3>1, <4>1 DEF PressPending
      <4> QED
        BY <1>2, <1>5, <3>3, <4>2
    <3> QED
      BY <1>2, <2>1, <3>1, <3>2, <3>3
  <2>2. ASSUME host_key # None PROVE air'[1] = None
    <3>1. CASE air = <<>>
      <4>1. PressPending
        BY <1>0, <1>2, <2>2, <3>1 DEF PressPending
      <4> QED
        BY <1>2, <1>5, <3>1, <4>1
    <3>2. CASE air # <<>>
      <4>1. air[1] = None /\ 1 \in 1 .. Len(air)
        BY <1>2, <2>2, <3>2 DEF KeyInv, Alternates
      <4> QED
        BY <1>2, <4>1
    <3> QED
      BY <3>1, <3>2
  <2> QED
    BY <2>1, <2>2
<1>7. ReleaseFollows'
  <2>1. Takes /\ PressPending' => report_val # None /\ ~(host = "asking" /\ ~ccc)
    <3> SUFFICES ASSUME Takes, PressPending'
                 PROVE  report_val # None /\ ~(host = "asking" /\ ~ccc)
      OBVIOUS
    <3>1. CASE Len(air') <= Skipped'
      <4>1. host_key # None
        BY <1>1, <3>1 DEF PressPending
      <4>2. host = "listening"
        BY <4>1 DEF KeyInv, ReleaseFollows
      <4> QED
        BY <1>1, <1>2, <3>1, <4>2 DEF Skipped
    <3>2. CASE ~(Len(air') <= Skipped')
      BY <1>0, <1>2, <3>2 DEF PressPending
    <3> QED
      BY <3>1, <3>2
  <2>2. Takes /\ PressPending' => ccc /\ shell' = "pause"
    <3>1. Takes => host \notin {"left"}
      BY DEF Takes
    <3> QED
      BY <1>1, <1>3, <2>1, <3>1 DEF KeyInv, ReleaseFollows
  <2>3. host # "gone"
    BY <1>1 DEF KeyInv, ReleaseFollows
  <2>4. shell' \in {"idle", "pause"}
    BY <1>3
  <2> QED
    BY <1>1, <2>2, <2>3, <2>4 DEF KeyInv, ReleaseFollows, Takes, Waits
<1> QED
  BY <1>4, <1>6, <1>7 DEF KeyInv

LEMMA KeyStep ==
  ASSUME KeyInv, [Next]_vars
  PROVE  KeyInv'
<1>1. ASSUME UNCHANGED <<ccc, host, host_key, air, ahead>>, TypeOK', ReleaseFollows' PROVE KeyInv'
  BY <1>1 DEF KeyInv, Alternates, Takes, Skipped
<1>2. CASE Notify
  <2>1. /\ shell \in {"press", "release"} /\ UNCHANGED <<report_val, ccc, host, host_key, air, ahead>>
        /\ shell' = IF host = "gone" \/ ~ccc THEN AfterNotify
                    ELSE IF shell = "press" THEN "press_wait" ELSE "release_wait"
    BY <1>2 DEF Notify
  <2>2. TypeOK'
    BY <2>1 DEF KeyInv, TypeOK, AfterNotify, Waits
  <2>3. Takes /\ PressPending => ccc /\ shell = "release"
    BY <2>1 DEF KeyInv, ReleaseFollows
  <2>4. ReleaseFollows'
    BY <2>1, <2>3 DEF KeyInv, ReleaseFollows, PressPending, Takes, Skipped, AfterNotify, Waits
  <2> QED
    BY <1>1, <2>1, <2>2, <2>4
<1>3. CASE Pause
  <2>1. TypeOK'
    BY <1>3 DEF Pause, KeyInv, TypeOK
  <2>2. ReleaseFollows'
    BY <1>3 DEF Pause, KeyInv, ReleaseFollows, PressPending, Takes, Skipped, Waits
  <2> QED
    BY <1>1, <1>3, <2>1, <2>2 DEF Pause
<1>4. ASSUME NEW key \in Keys, Send(key) PROVE KeyInv'
  <2>1. TypeOK'
    BY <1>4 DEF Send, KeyInv, TypeOK
  <2>2. ReleaseFollows'
    BY <1>4 DEF Send, KeyInv, ReleaseFollows, PressPending, Takes, Skipped, Waits
  <2> QED
    BY <1>1, <1>4, <2>1, <2>2 DEF Send
<1>5. CASE UNCHANGED vars
  <2>1. UNCHANGED <<shell, report_val, ccc, host, host_key, air, ahead>>
    BY <1>5 DEF vars
  <2>2. TypeOK' /\ ReleaseFollows'
    BY <2>1 DEF KeyInv, TypeOK, ReleaseFollows, PressPending, Takes, Skipped
  <2> QED
    BY <1>1, <2>1, <2>2
<1> QED
  BY <1>2, <1>3, <1>4, <1>5, HostKeeps, DeliverKeeps, EnqueueKeeps DEF Next, Thread

LEMMA KeyAlways == Spec => []KeyInv
BY KeyInit, KeyStep, PTL DEF Spec

\* EVERY STATE HAS ITS TYPE: no more notifications are under way than the stack
\* has buffers for.
THEOREM KeyTyped == Spec => []TypeOK
<1>1. KeyInv => TypeOK
  BY DEF KeyInv
<1> QED
  BY <1>1, KeyAlways, PTL

\* A RELEASE IS ALWAYS COMING: when the host leaves, subscribes anew or loses the
\* link, or the stack has no buffer, no key is left pressed without a release in
\* the air or a do_send_key that is still to send it.
THEOREM ReleaseOwed == Spec => []ReleaseComing
<1>1. KeyInv => ReleaseComing
  <2> SUFFICES ASSUME KeyInv, host_key # None
               PROVE  \/ \E i \in 1 .. Len(air) : air[i] = None
                      \/ ccc /\ shell \in {"pause", "release", "release_wait"}
    BY DEF ReleaseComing
  <2>1. host = "listening"
    BY DEF KeyInv, ReleaseFollows
  <2>2. CASE air = <<>>
    <3>1. PressPending /\ Takes
      BY <2>1, <2>2 DEF PressPending, Takes, Skipped
    <3> QED
      BY <3>1 DEF KeyInv, ReleaseFollows
  <2>3. CASE air # <<>>
    <3>1. air[1] = None
      BY <2>1, <2>3 DEF KeyInv, Alternates, Takes
    <3>2. 1 \in 1 .. Len(air)
      BY <2>3, EmptySeq DEF KeyInv, TypeOK
    <3> QED
      BY <3>1, <3>2
  <2> QED
    BY <2>2, <2>3
<1> QED
  BY <1>1, KeyAlways, PTL

\* PRESSES ALTERNATE WITH RELEASES: the host never sees a key pressed while it
\* believes another one pressed, whenever the link and the subscription change.
THEOREM PressesAlternating == Spec => PressesAlternate
<1>1. KeyInv /\ [Next]_vars =>
        [host_key # None /\ host_key' # host_key => host_key' = None]_vars
  <2> SUFFICES ASSUME KeyInv, Next, host_key # None, host_key' # host_key
               PROVE  host_key' = None
    OBVIOUS
  <2>1. CASE Deliver
    <3>1. host = "listening" /\ air # <<>> /\ host_key' = Head(air)
      BY <2>1 DEF Deliver
    <3>2. air[1] = None /\ Head(air) = air[1]
      BY <3>1, Typed, TailReport DEF KeyInv, Alternates, Takes
    <3> QED
      BY <3>1, <3>2
  <2>2. CASE Host
    BY <2>2 DEF Host, Connect, Listen, Leave, Ask, InputCccChanged, Disconnect
  <2>3. CASE Thread \/ \E key \in Keys : Send(key)
    BY <2>3 DEF Thread, Notify, Enqueue, Pause, Send
  <2> QED
    BY <2>1, <2>2, <2>3 DEF Next
<1> QED
  BY <1>1, KeyAlways, PTL DEF Spec, PressesAlternate
=============================================================================
