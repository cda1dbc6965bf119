------------------------------ MODULE EvtLoop -------------------------------
(***************************************************************************)
(* The event loop of main.c: evt_send, poll_loop and evt_handle, with what *)
(* the handlers of the events start: the Wi-Fi station (sta.c) and the     *)
(* Bluetooth remote control (ble_rc_init).                                 *)
(*                                                                         *)
(* The main thread sends EVT_WIFI_STA_START to itself and then polls the   *)
(* eventfd. Senders are the threads in which the network stack runs        *)
(* wifi_event_handler; they call evt_send. A list operation under          *)
(* evt_list_lock is one step; the write of the eventfd that follows it is  *)
(* another. The socket of poll_loop is never opened (main.c:118-132), and  *)
(* the timer thread is never started (main.c:134).                         *)
(***************************************************************************)
EXTENDS Naturals, Sequences

CONSTANTS
  Senders,      \* threads that run wifi_event_handler
  MaxEvents,    \* bound: events sent before the network falls silent
  BtOutcomes    \* whether bt_enable may succeed (TRUE), fail (FALSE)

ASSUME EvtAssumption == MaxEvents \in Nat /\ BtOutcomes \in SUBSET BOOLEAN

Types == {"EVT_WIFI_STA_START", "EVT_WIFI_CONNECTED"}
NoMsg == "none"

VARIABLES
  evt_list,     \* the events under evt_list_lock
  eventfd,      \* the counter of the eventfd
  signal,       \* signal[s]: s has appended an event and not yet written the eventfd
  main, msg,    \* the main thread and the event it has taken from the list
  wifi, ble,    \* the station and the remote control
  handled       \* history: the events handled, in order

vars == <<evt_list, eventfd, signal, main, msg, wifi, ble, handled>>

TypeOK ==
  /\ evt_list \in Seq(Types)
  /\ eventfd \in Nat
  /\ signal \in [Senders -> BOOLEAN]
  /\ main \in {"boot", "signal", "poll", "read", "take", "handle", "sleep"}
  /\ msg \in Types \cup {NoMsg}
  /\ wifi \in {"off", "connecting", "up", "down"}
  /\ ble \in {"off", "on"}
  /\ handled \in Seq(Types)

Init ==
  /\ evt_list = <<>> /\ eventfd = 0
  /\ signal = [s \in Senders |-> FALSE]
  /\ main = "boot" /\ msg = NoMsg
  /\ wifi = "off" /\ ble = "off"
  /\ handled = <<>>

-----------------------------------------------------------------------------
(* evt_send *)

\* sys_slist_append under the lock.
AppendEvt(t) == evt_list' = Append(evt_list, t)

\* Mutation: the eventfd is written only while the main thread is in poll.
SignalInPoll(s) ==
  /\ signal[s]
  /\ signal' = [signal EXCEPT ![s] = FALSE]
  /\ eventfd' = IF main = "poll" THEN eventfd + 1 ELSE eventfd
  /\ UNCHANGED <<evt_list, main, msg, wifi, ble, handled>>

\* eventfd_write(fd, 1)
Signal(s) ==
  /\ signal[s]
  /\ signal' = [signal EXCEPT ![s] = FALSE]
  /\ eventfd' = eventfd + 1
  /\ UNCHANGED <<evt_list, main, msg, wifi, ble, handled>>

-----------------------------------------------------------------------------
(* The network: wifi_event_handler and the driver that calls it. *)

\* Mutation: the status is tested the wrong way round.
ConnectResultInverted(s) ==
  /\ wifi = "connecting" /\ ~signal[s]
  /\ Len(evt_list) + Len(handled) < MaxEvents
  /\ \/ /\ wifi' = "down"
        /\ AppendEvt("EVT_WIFI_CONNECTED")
        /\ signal' = [signal EXCEPT ![s] = TRUE]
     \/ wifi' = "up" /\ UNCHANGED <<evt_list, signal>>
  /\ UNCHANGED <<eventfd, main, msg, ble, handled>>

\* NET_EVENT_WIFI_CONNECT_RESULT; its status is not looked at.
ConnectResult(s) ==
  /\ wifi = "connecting" /\ ~signal[s]
  /\ Len(evt_list) + Len(handled) < MaxEvents
  /\ wifi' \in {"up", "down"}
  /\ AppendEvt("EVT_WIFI_CONNECTED")
  /\ signal' = [signal EXCEPT ![s] = TRUE]
  /\ UNCHANGED <<eventfd, main, msg, ble, handled>>

\* NET_EVENT_WIFI_DISCONNECT_RESULT is only logged.
DisconnectResult ==
  /\ wifi \in {"connecting", "up"}
  /\ wifi' = "down"
  /\ UNCHANGED <<evt_list, eventfd, signal, main, msg, ble, handled>>

\* The driver, or the Wi-Fi shell, tries again.
Reassociate ==
  /\ wifi = "down"
  /\ wifi' = "connecting"
  /\ UNCHANGED <<evt_list, eventfd, signal, main, msg, ble, handled>>

-----------------------------------------------------------------------------
(* The main thread. *)

\* main up to evt_send's append, and then its eventfd_write.
Boot ==
  /\ main = "boot"
  /\ AppendEvt("EVT_WIFI_STA_START")
  /\ main' = "signal"
  /\ UNCHANGED <<eventfd, signal, msg, wifi, ble, handled>>

BootSignal ==
  /\ main = "signal"
  /\ eventfd' = eventfd + 1
  /\ main' = "poll"
  /\ UNCHANGED <<evt_list, signal, msg, wifi, ble, handled>>

\* Mutation: poll_loop goes on to the read after a timeout of poll.
PollFallsThrough ==
  /\ main = "poll"
  /\ main' = "read"
  /\ UNCHANGED <<evt_list, eventfd, signal, msg, wifi, ble, handled>>

\* poll returns: the eventfd is readable, or the 30 s are over.
Poll ==
  /\ main = "poll"
  /\ main' = IF eventfd > 0 THEN "read" ELSE "sleep"
  /\ UNCHANGED <<evt_list, eventfd, signal, msg, wifi, ble, handled>>

\* k_sleep(K_MSEC(250)) ends.
Sleep ==
  /\ main = "sleep"
  /\ main' = "poll"
  /\ UNCHANGED <<evt_list, eventfd, signal, msg, wifi, ble, handled>>

\* eventfd_read: blocks while the counter is 0, else takes all of it.
Read ==
  /\ main = "read" /\ eventfd > 0
  /\ eventfd' = 0
  /\ main' = "take"
  /\ UNCHANGED <<evt_list, signal, msg, wifi, ble, handled>>

\* sys_slist_get in the loop of evt_handle.
Take ==
  /\ main = "take" /\ evt_list # <<>>
  /\ msg' = Head(evt_list)
  /\ evt_list' = Tail(evt_list)
  /\ main' = "handle"
  /\ UNCHANGED <<eventfd, signal, wifi, ble, handled>>

\* The list is empty: evt_handle returns, and main sleeps.
TakeNone ==
  /\ main = "take" /\ evt_list = <<>>
  /\ main' = "sleep"
  /\ UNCHANGED <<evt_list, eventfd, signal, msg, wifi, ble, handled>>

\* sta_tryconnect: the request to connect may fail, which is only logged.
StaTryconnect ==
  /\ msg = "EVT_WIFI_STA_START"
  /\ wifi' \in {"connecting", "down"}
  /\ UNCHANGED ble

\* ble_rc_init: a later call finds the Bluetooth host enabled already.
BleRcInit ==
  /\ msg = "EVT_WIFI_CONNECTED"
  /\ \E ok \in BtOutcomes : ble' = IF ok THEN "on" ELSE ble
  /\ UNCHANGED wifi

\* Mutation: one event is handled per wakeup.
HandleOne ==
  /\ StaTryconnect \/ BleRcInit
  /\ handled' = Append(handled, msg)
  /\ msg' = NoMsg
  /\ main' = "sleep"
  /\ UNCHANGED <<evt_list, eventfd, signal>>

\* The handler of the event, and k_free of its message.
Handle ==
  /\ main = "handle"
  /\ StaTryconnect \/ BleRcInit
  /\ handled' = Append(handled, msg)
  /\ msg' = NoMsg
  /\ main' = "take"
  /\ UNCHANGED <<evt_list, eventfd, signal>>

MainThread ==
  Boot \/ BootSignal \/ Poll \/ Sleep \/ Read \/ Take \/ TakeNone \/ Handle

Network == DisconnectResult \/ Reassociate \/ \E s \in Senders : ConnectResult(s)

Next == MainThread \/ Network \/ \E s \in Senders : Signal(s)

\* Threads that can run do run; the network does what it likes.
Fairness == WF_vars(MainThread) /\ \A s \in Senders : WF_vars(Signal(s))

Spec == Init /\ [][Next]_vars
FairSpec == Spec /\ Fairness

-----------------------------------------------------------------------------
(* Properties. *)

\* No event is forgotten in the list: while it is not empty the eventfd is
\* readable, will be written, or the main thread is on its way to the list
\* (evt_send appends first and signals then; poll_loop reads the counter first
\* and empties the list then).
NoLostWakeup ==
  evt_list # <<>> =>
    \/ eventfd > 0
    \/ main \in {"signal", "take", "handle"}
    \/ \E s \in Senders : signal[s]

\* A station that is connected while the remote control is not up has its event in the
\* list or in hand, so that what NoLostWakeup says of the list brings it up: a
\* disconnection, an event of another thread or a second connection never take the
\* last such event away.
BringUpComing ==
  FALSE \notin BtOutcomes /\ wifi = "up" /\ ble = "off" =>
    \/ msg = "EVT_WIFI_CONNECTED"
    \/ \E i \in 1 .. Len(evt_list) : evt_list[i] = "EVT_WIFI_CONNECTED"

\* The blocking eventfd_read of poll_loop never waits for a writer, so the main
\* thread only ever waits in poll.
ReadNeverBlocks == main = "read" => eventfd > 0

InHand == IF main = "handle" THEN <<msg>> ELSE <<>>

Queue == INSTANCE EvtQueue WITH pending <- InHand \o evt_list, done <- handled

\* evt_send and the loop deliver each event once, in order and eventually.
DeliversEvents == Queue!Spec

\* Where bt_enable does not fail, a station that gets connected brings the remote
\* control up. (A bt_enable that fails leaves it off: ble_rc_init returns, and main
\* tries again only when another EVT_WIFI_CONNECTED arrives.)
BleComesUp == FALSE \notin BtOutcomes => (wifi = "up" ~> ble = "on")
=============================================================================
