---------------------------- MODULE EvtLoopProofs ---------------------------
(***************************************************************************)
(* Proofs about EvtLoop, for any number of senders and of events.          *)
(***************************************************************************)
EXTENDS EvtLoop, SequenceTheorems, TLAPS

LoopInv == TypeOK /\ NoLostWakeup /\ ReadNeverBlocks

\* The event loop starts with an empty list and an eventfd of 0.
LEMMA LoopInit == Init => LoopInv
BY DEF Init, LoopInv, TypeOK, NoLostWakeup, ReadNeverBlocks, NoMsg

\* The first event of a list of events, and what is left of the list.
LEMMA TakeType ==
  ASSUME TypeOK, evt_list # <<>>
  PROVE  Head(evt_list) \in Types /\ Tail(evt_list) \in Seq(Types)
<1>1. evt_list \in Seq(Types)
  BY DEF TypeOK
<1> QED
  BY <1>1, HeadTailProperties

\* The list with one more event.
LEMMA AppendType ==
  ASSUME TypeOK, NEW t \in Types, AppendEvt(t)
  PROVE  evt_list' \in Seq(Types)
<1>1. evt_list \in Seq(Types)
  BY DEF TypeOK
<1>2. Append(evt_list, t) \in Seq(Types)
  BY <1>1, AppendProperties
<1> QED
  BY <1>2 DEF AppendEvt

\* Neither event is the absence of one.
LEMMA EventTypes ==
  /\ "EVT_WIFI_STA_START" \in Types /\ "EVT_WIFI_CONNECTED" \in Types
  /\ NoMsg \notin Types
BY DEF Types, NoMsg

\* The list holds events and the counter is a natural number, whatever runs.
LEMMA LoopType ==
  ASSUME TypeOK, [Next]_vars
  PROVE  TypeOK'
<1>1. CASE UNCHANGED vars
  BY <1>1 DEF vars, TypeOK
<1>2. CASE Boot
  <2>1. evt_list' \in Seq(Types)
    BY <1>2, EventTypes, AppendType DEF Boot
  <2> QED
    BY <1>2, <2>1 DEF Boot, TypeOK
<1>3. CASE BootSignal
  BY <1>3 DEF BootSignal, TypeOK
<1>4. CASE Poll \/ Sleep
  BY <1>4 DEF Poll, Sleep, TypeOK
<1>5. CASE Read
  BY <1>5 DEF Read, TypeOK
<1>6. CASE Take
  <2>1. msg' \in Types /\ evt_list' \in Seq(Types)
    BY <1>6, TakeType DEF Take
  <2> QED
    BY <1>6, <2>1 DEF Take, TypeOK
<1>7. CASE TakeNone
  BY <1>7 DEF TakeNone, TypeOK
<1>8. CASE Handle
  <2>1. msg \in Types
    BY <1>8, EventTypes DEF Handle, StaTryconnect, BleRcInit
  <2>2. handled' \in Seq(Types)
    <3>1. handled \in Seq(Types)
      BY DEF TypeOK
    <3>2. Append(handled, msg) \in Seq(Types)
      BY <2>1, <3>1, AppendProperties
    <3> QED
      BY <1>8, <3>2 DEF Handle
  <2>3. wifi' \in {"off", "connecting", "up", "down"} /\ ble' \in {"off", "on"}
    BY <1>8 DEF Handle, StaTryconnect, BleRcInit, TypeOK
  <2> QED
    BY <1>8, <2>2, <2>3 DEF Handle, TypeOK
<1>9. CASE DisconnectResult \/ Reassociate
  BY <1>9 DEF DisconnectResult, Reassociate, TypeOK
<1>10. ASSUME NEW s \in Senders, ConnectResult(s) PROVE TypeOK'
  <2>1. evt_list' \in Seq(Types)
    BY <1>10, EventTypes, AppendType DEF ConnectResult
  <2>2. signal' \in [Senders -> BOOLEAN]
    BY <1>10 DEF ConnectResult, TypeOK
  <2> QED
    BY <1>10, <2>1, <2>2 DEF ConnectResult, TypeOK
<1>11. ASSUME NEW s \in Senders, Signal(s) PROVE TypeOK'
  BY <1>11 DEF Signal, TypeOK
<1> QED
  BY <1>1, <1>2, <1>3, <1>4, <1>5, <1>6, <1>7, <1>8, <1>9, <1>10, <1>11
     DEF Next, MainThread, Network

\* A thread that appends still has to signal; only the main thread, on its way
\* to the list, takes the counter.
LEMMA WakeupStep ==
  ASSUME LoopInv, [Next]_vars
  PROVE  NoLostWakeup'
<1> USE DEF LoopInv, TypeOK, NoLostWakeup
<1>1. CASE UNCHANGED vars
  BY <1>1 DEF vars
<1>2. CASE Boot \/ BootSignal
  BY <1>2 DEF Boot, BootSignal
<1>3. CASE Poll \/ Sleep \/ Read
  BY <1>3 DEF Poll, Sleep, Read
<1>4. CASE Take \/ TakeNone \/ Handle
  BY <1>4 DEF Take, TakeNone, Handle
<1>5. CASE DisconnectResult \/ Reassociate
  BY <1>5 DEF DisconnectResult, Reassociate
<1>6. ASSUME NEW s \in Senders, ConnectResult(s) PROVE NoLostWakeup'
  <2>1. signal'[s]
    BY <1>6 DEF ConnectResult
  <2> QED
    BY <2>1
<1>7. ASSUME NEW s \in Senders, Signal(s) PROVE NoLostWakeup'
  BY <1>7 DEF Signal
<1> QED
  BY <1>1, <1>2, <1>3, <1>4, <1>5, <1>6, <1>7 DEF Next, MainThread, Network

\* Nobody takes the counter between the poll that saw it positive and the read.
LEMMA ReadStep ==
  ASSUME LoopInv, [Next]_vars
  PROVE  ReadNeverBlocks'
BY DEF LoopInv, TypeOK, ReadNeverBlocks, Next, MainThread, Network, Boot, BootSignal,
   Poll, Sleep, Read, Take, TakeNone, Handle, ConnectResult, DisconnectResult,
   Reassociate, Signal, vars

\* Together they are an inductive invariant.
LEMMA LoopStep == LoopInv /\ [Next]_vars => LoopInv'
BY LoopType, WakeupStep, ReadStep DEF LoopInv

\* The list holds events and nothing else, however the threads interleave.
THEOREM LoopTyped == Spec => []TypeOK
<1>1. LoopInv => TypeOK
  BY DEF LoopInv
<1> QED
  BY LoopInit, LoopStep, <1>1, PTL DEF Spec

\* No event waits in the list without something that makes the main thread look.
THEOREM NoWakeupLost == Spec => []NoLostWakeup
<1>1. LoopInv => NoLostWakeup
  BY DEF LoopInv
<1> QED
  BY LoopInit, LoopStep, <1>1, PTL DEF Spec

\* The blocking eventfd_read never blocks the main thread.
THEOREM ReadDoesNotBlock == Spec => []ReadNeverBlocks
<1>1. LoopInv => ReadNeverBlocks
  BY DEF LoopInv
<1> QED
  BY LoopInit, LoopStep, <1>1, PTL DEF Spec

-----------------------------------------------------------------------------
(* BringUpComing, by induction with what it rests on: an event is in hand    *)
(* only inside its handler.                                                  *)

InHandOnly == msg # NoMsg => main = "handle"

Sent == \E i \in 1 .. Len(evt_list) : evt_list[i] = "EVT_WIFI_CONNECTED"

\* An event behind others stays in the list, and the one appended is in it.
LEMMA AppendKeepsSent ==
  ASSUME TypeOK, NEW t \in Types, AppendEvt(t), Sent \/ t = "EVT_WIFI_CONNECTED"
  PROVE  Sent'
<1>1. evt_list \in Seq(Types) /\ Len(evt_list) \in Nat
  BY DEF TypeOK
<1>2. /\ Len(evt_list') = Len(evt_list) + 1
      /\ \A i \in 1 .. Len(evt_list) : evt_list'[i] = evt_list[i]
      /\ evt_list'[Len(evt_list) + 1] = t
  BY <1>1, AppendProperties DEF AppendEvt
<1>3. CASE Sent
  <2>1. PICK i \in 1 .. Len(evt_list) : evt_list[i] = "EVT_WIFI_CONNECTED"
    BY <1>3 DEF Sent
  <2>2. i \in 1 .. Len(evt_list')
    BY <1>1, <1>2
  <2> QED
    BY <1>2, <2>1, <2>2 DEF Sent
<1>4. CASE t = "EVT_WIFI_CONNECTED"
  <2>1. Len(evt_list) + 1 \in 1 .. Len(evt_list')
    BY <1>1, <1>2
  <2> QED
    BY <1>2, <1>4, <2>1 DEF Sent
<1> QED
  BY <1>3, <1>4

\* The event that is looked for is taken itself, or one before it is.
LEMMA TakeKeepsSent ==
  ASSUME TypeOK, Take, Sent
  PROVE  msg' = "EVT_WIFI_CONNECTED" \/ Sent'
<1>1. evt_list \in Seq(Types) /\ Len(evt_list) \in Nat /\ evt_list # <<>>
  BY DEF TypeOK, Take
<1>2. /\ Head(evt_list) = evt_list[1] /\ Len(Tail(evt_list)) = Len(evt_list) - 1
      /\ \A i \in 1 .. Len(Tail(evt_list)) : Tail(evt_list)[i] = evt_list[i + 1]
  BY <1>1, HeadTailProperties
<1>3. PICK i \in 1 .. Len(evt_list) : evt_list[i] = "EVT_WIFI_CONNECTED"
  BY DEF Sent
<1>4. CASE i = 1
  BY <1>2, <1>3, <1>4 DEF Take
<1>5. CASE i # 1
  <2>1. i - 1 \in 1 .. Len(Tail(evt_list)) /\ (i - 1) + 1 = i
    BY <1>1, <1>2, <1>5
  <2>2. Tail(evt_list)[i - 1] = "EVT_WIFI_CONNECTED"
    BY <1>2, <1>3, <2>1
  <2> QED
    BY <2>1, <2>2 DEF Take, Sent
<1> QED
  BY <1>4, <1>5

\* A step that connects the station appends its event; one that takes an event of this
\* kind from the list has it in hand; one that lets it go has run ble_rc_init.
LEMMA BringUpStep ==
  ASSUME TypeOK, InHandOnly, BringUpComing, [Next]_vars
  PROVE  InHandOnly' /\ BringUpComing'
<1> USE DEF InHandOnly
<1>0. BringUpComing <=>
        (FALSE \notin BtOutcomes /\ wifi = "up" /\ ble = "off" =>
           msg = "EVT_WIFI_CONNECTED" \/ Sent)
  BY DEF BringUpComing, Sent
<1>a. BringUpComing' <=>
        (FALSE \notin BtOutcomes /\ wifi' = "up" /\ ble' = "off" =>
           msg' = "EVT_WIFI_CONNECTED" \/ Sent')
  BY DEF BringUpComing, Sent
<1>1. CASE UNCHANGED <<evt_list, msg, main, wifi, ble>>
  BY <1>0, <1>1, <1>a DEF Sent
<1>2. CASE Boot
  <2>1. Sent => Sent'
    BY <1>2, AppendKeepsSent, EventTypes DEF Boot
  <2> QED
    BY <1>0, <1>2, <1>a, <2>1 DEF Boot
<1>3. CASE BootSignal \/ Poll \/ Sleep \/ Read \/ TakeNone
  <2>1. UNCHANGED <<evt_list, msg, wifi, ble>> /\ main # "handle"
    BY <1>3 DEF BootSignal, Poll, Sleep, Read, TakeNone
  <2> QED
    BY <1>0, <1>a, <2>1 DEF Sent
<1>4. CASE Take
  <2>1. msg = NoMsg /\ NoMsg # "EVT_WIFI_CONNECTED"
    BY <1>4, EventTypes DEF Take
  <2>2. Sent => msg' = "EVT_WIFI_CONNECTED" \/ Sent'
    BY <1>4, TakeKeepsSent
  <2> QED
    BY <1>0, <1>4, <1>a, <2>1, <2>2 DEF Take
<1>5. CASE Handle
  <2>1. msg' = NoMsg /\ UNCHANGED evt_list
    BY <1>5 DEF Handle
  <2>2. CASE StaTryconnect
    BY <1>a, <2>1, <2>2 DEF StaTryconnect
  <2>3. CASE BleRcInit
    <3>1. FALSE \notin BtOutcomes => ble' = "on"
      BY <2>3, EvtAssumption DEF BleRcInit
    <3> QED
      BY <1>a, <2>1, <3>1
  <2> QED
    BY <1>5, <2>2, <2>3 DEF Handle
<1>6. CASE DisconnectResult \/ Reassociate
  BY <1>6, <1>a DEF DisconnectResult, Reassociate
<1>7. ASSUME NEW s \in Senders, ConnectResult(s) PROVE InHandOnly' /\ BringUpComing'
  <2>1. Sent'
    BY <1>7, AppendKeepsSent, EventTypes DEF ConnectResult
  <2> QED
    BY <1>7, <1>a, <2>1 DEF ConnectResult
<1>8. ASSUME NEW s \in Senders, Signal(s) PROVE InHandOnly' /\ BringUpComing'
  BY <1>1, <1>8 DEF Signal
<1>9. CASE UNCHANGED vars
  BY <1>1, <1>9 DEF vars
<1> QED
  BY <1>2, <1>3, <1>4, <1>5, <1>6, <1>7, <1>8, <1>9 DEF Next, MainThread, Network

\* A station that is connected brings the remote control up: with any number of threads
\* that send and of events before it, what will do so is in the list or in hand.
THEOREM BringUpOwed == Spec => []BringUpComing
<1>1. Init => InHandOnly /\ BringUpComing
  BY DEF Init, InHandOnly, BringUpComing
<1>2. TypeOK /\ InHandOnly /\ BringUpComing /\ [Next]_vars => InHandOnly' /\ BringUpComing'
  BY BringUpStep
<1> QED
  BY <1>1, <1>2, LoopTyped, PTL DEF Spec

-----------------------------------------------------------------------------
(* The loop implements the queue of EvtQueue, without its liveness. *)

\* The events sent and not handled: the one in hand, then the list.
Pending == InHand \o evt_list

\* Appending to the list appends to what is pending.
LEMMA AppendPending ==
  ASSUME TypeOK, NEW t \in Types, AppendEvt(t), InHand' = InHand, UNCHANGED handled
  PROVE  Queue!Send(t)
<1>1. InHand \in Seq(Types \cup {NoMsg})
  <2>1. <<msg>> \in Seq(Types \cup {NoMsg}) /\ <<>> \in Seq(Types \cup {NoMsg})
    BY DEF TypeOK
  <2> QED
    BY <2>1 DEF InHand
<1>2. InHand \o Append(evt_list, t) = Append(InHand \o evt_list, t)
  BY <1>1 DEF TypeOK
<1> QED
  BY <1>2 DEF Queue!Send, AppendEvt

\* Each step of the program handles the first pending event, sends one, or is
\* invisible.
LEMMA QueueStep ==
  ASSUME LoopInv, [Next]_vars
  PROVE  [Queue!Next]_(Queue!vars)
<1> USE DEF LoopInv, TypeOK
<1>1. CASE Boot
  <2>1. InHand' = InHand
    BY <1>1 DEF Boot, InHand
  <2> QED
    BY <1>1, <2>1, AppendPending DEF Boot, Queue!Next, Types
<1>2. ASSUME NEW s \in Senders, ConnectResult(s) PROVE Queue!Next
  <2>1. InHand' = InHand
    BY <1>2 DEF ConnectResult, InHand
  <2> QED
    BY <1>2, <2>1, AppendPending DEF ConnectResult, Queue!Next, Types
<1>3. CASE Take
  <2>1. InHand = <<>> /\ InHand' = <<Head(evt_list)>>
    BY <1>3 DEF Take, InHand
  <2>2. <<>> \o evt_list = <<Head(evt_list)>> \o Tail(evt_list)
    BY <1>3 DEF Take
  <2> QED
    BY <1>3, <2>1, <2>2 DEF Take, Queue!vars
<1>4. CASE Handle
  <2>1. InHand = <<msg>> /\ InHand' = <<>>
    BY <1>4 DEF Handle, InHand
  <2>2. Pending # <<>> /\ Head(Pending) = msg /\ Tail(Pending) = evt_list
    BY <2>1 DEF Pending
  <2>3. Pending' = evt_list
    BY <1>4, <2>1 DEF Handle, Pending
  <2> QED
    BY <1>4, <2>2, <2>3 DEF Handle, Queue!Next, Queue!Handle, Pending
<1>5. CASE BootSignal \/ Poll \/ Sleep \/ Read \/ TakeNone
  BY <1>5 DEF BootSignal, Poll, Sleep, Read, TakeNone, InHand, Queue!vars
<1>6. CASE DisconnectResult \/ Reassociate \/ \E s \in Senders : Signal(s)
  BY <1>6 DEF DisconnectResult, Reassociate, Signal, InHand, Queue!vars
<1>7. CASE UNCHANGED vars
  BY <1>7 DEF vars, InHand, Queue!vars
<1> QED
  BY <1>1, <1>2, <1>3, <1>4, <1>5, <1>6, <1>7 DEF Next, MainThread, Network

\* Whatever the threads do, events are handled once and in the order in which
\* evt_send appended them.
THEOREM QueueRefined == Spec => Queue!Init /\ [][Queue!Next]_(Queue!vars)
<1>1. Init => Queue!Init
  BY DEF Init, Queue!Init, InHand
<1> QED
  BY <1>1, LoopInit, LoopStep, QueueStep, PTL DEF Spec
=============================================================================
