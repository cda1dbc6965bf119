------------------------------- MODULE BleAdv -------------------------------
(***************************************************************************)
(* Advertising and link state of the BLE remote control (src/src/ble_rc.c) *)
(* after ble_rc_init has succeeded once.                                   *)
(*                                                                         *)
(* Four kinds of threads share the static variables of ble_rc.c:           *)
(*   - Callers: the shell thread and the bt_ck thread, which run           *)
(*     try_advertising_start and cmd_delete_paired one statement at a      *)
(*     time (they are preemptible);                                        *)
(*   - wq, the system work queue, which runs adv_work and                  *)
(*     adv_mode_switch_work from one blocking call to the next;            *)
(*   - rx, the Bluetooth receive thread, which runs the conn_callbacks;    *)
(*   - main, which runs ble_rc_init again whenever Wi-Fi reconnects.       *)
(* adv, target, link and bonds are the state of the Zephyr host and of the *)
(* controller; delayed, canceling and queue are the k_work flags of        *)
(* adv_mode_switch_work and the content of the system work queue.          *)
(***************************************************************************)
EXTENDS Naturals, FiniteSets

CONSTANTS
  Callers,      \* threads that call try_advertising_start, cmd_delete_paired
  Commands,     \* Commands[c]: the calls thread c may make
  Peers,        \* hosts that may connect to the remote control
  NoAddr,       \* BT_ADDR_LE_NONE
  MaxPaired,    \* CONFIG_BT_MAX_PAIRED
  HciOutcomes,  \* whether an HCI command may succeed (TRUE), fail (FALSE), and a
                \* connection with it
  Prompt        \* TRUE: ready code runs before a 100 ms sleep started later ends

Command == [op : {"adv", "delete"}, wakeup : BOOLEAN, timed : BOOLEAN]
NoCommand == [op |-> "none", wakeup |-> FALSE, timed |-> FALSE]

Workq == "workq"    \* names of the two timeouts that belong to no caller:
Timer == "timer"    \* the handler's k_sleep, the timer of adv_mode_switch_work

ASSUME ConstantsAssumption ==
  /\ Commands \in [Callers -> SUBSET Command]
  /\ NoAddr \notin Peers
  /\ MaxPaired \in Nat
  /\ HciOutcomes \in SUBSET BOOLEAN
  /\ Prompt \in BOOLEAN
  /\ Workq \notin Callers /\ Timer \notin Callers

VARIABLES
  g_btrc_st, is_adv_running, g_wakeup_adv_mode, last_paired,  \* ble_rc.c
  delayed, canceling, queue, wq,        \* the work items and their thread
  adv, target, link, bonds, rx,         \* Bluetooth host and controller
  pc, cmd,                              \* the callers
  owed      \* history: advertising was asked for and not called off since

app  == <<g_btrc_st, is_adv_running, g_wakeup_adv_mode, last_paired>>
work == <<delayed, canceling, queue, wq>>
bt   == <<adv, target, link, bonds, rx>>
vars == <<app, work, bt, pc, cmd, owed>>

Addr    == Peers \cup {NoAddr}
Steps   == {"idle", "mode", "stop", "stopped", "sleep", "forget", "bonds",
            "check", "submit", "rearm", "clear"}
InSwitch == {"stopped", "sleep", "resume"}   \* wq inside adv_mode_switch_handler

TypeOK ==
  /\ g_btrc_st \in {"DISCONNECTE", "CONNECTED", "SECURITY_LV_OK"}
  /\ is_adv_running \in BOOLEAN
  /\ g_wakeup_adv_mode \in BOOLEAN
  /\ last_paired \in Addr
  /\ delayed \in BOOLEAN
  /\ canceling \in BOOLEAN
  /\ queue \in SUBSET {"adv_work", "switch_work"}
  /\ wq \in {"idle", "started"} \cup InSwitch
  /\ adv \in {"off", "pair", "direct", "wakeup"}
  /\ target \in Addr
  /\ link \in Addr
  /\ bonds \in SUBSET Peers
  /\ rx \in {"idle", "connected"}
  /\ pc \in [Callers -> Steps]
  /\ cmd \in [Callers -> Command \cup {NoCommand}]
  /\ owed \in BOOLEAN

Init ==
  /\ g_btrc_st = "DISCONNECTE"
  /\ is_adv_running = FALSE
  /\ g_wakeup_adv_mode = FALSE
  /\ last_paired = NoAddr
  /\ delayed = FALSE /\ canceling = FALSE
  /\ queue = {} /\ wq = "idle"
  /\ adv = "off" /\ target = NoAddr /\ link = NoAddr
  /\ bonds = {} /\ rx = "idle"
  /\ pc = [c \in Callers |-> "idle"]
  /\ cmd = [c \in Callers |-> NoCommand]
  /\ owed = FALSE

-----------------------------------------------------------------------------
(* The kernel's work items and the host's advertiser, as ble_rc.c uses them. *)

\* k_work_cancel_delayable: disarm, dequeue; a running handler goes on, marked.
CancelSwitchWork ==
  /\ delayed' = FALSE
  /\ queue' = queue \ {"switch_work"}
  /\ canceling' = (wq \in InSwitch)

\* bt_le_adv_stop, which cannot fail when nothing is advertised.
AdvStop(ok) ==
  /\ ok \in HciOutcomes \/ (ok /\ adv = "off")
  /\ ok \/ adv # "off"
  /\ IF ok THEN adv' = "off" /\ target' = NoAddr ELSE UNCHANGED <<adv, target>>

\* bt_foreach_bond(.., bond_find, ..): the last bond visited stays.
LastBond(default) == IF bonds = {} THEN {default} ELSE bonds

AdvKind ==
  CASE g_wakeup_adv_mode -> "wakeup"
    [] ~g_wakeup_adv_mode /\ last_paired = NoAddr -> "pair"
    [] OTHER -> "direct"

\* bt_le_adv_start refuses a second advertiser, and a connectable one while
\* the only connection object is in use.
Accepts(kind) == adv = "off" /\ (kind = "wakeup" \/ link = NoAddr)

-----------------------------------------------------------------------------
(* try_advertising_start and cmd_delete_paired, run by a caller. *)

GoTo(c, step) == pc' = [pc EXCEPT ![c] = step]

Return(c) ==
  /\ GoTo(c, "idle")
  /\ cmd' = [cmd EXCEPT ![c] = NoCommand]

\* Entry of try_advertising_start: cancel a pending mode switch.
TryStart(c) ==
  /\ pc[c] = "idle"
  /\ \E k \in Commands[c] :
       /\ k.op = "adv"
       /\ cmd' = [cmd EXCEPT ![c] = k]
  /\ CancelSwitchWork
  /\ GoTo(c, "mode")
  /\ owed' = TRUE
  /\ UNCHANGED <<app, wq, bt>>

SetMode(c) ==
  /\ pc[c] = "mode"
  /\ g_wakeup_adv_mode' = cmd[c].wakeup
  /\ GoTo(c, "stop")
  /\ UNCHANGED <<g_btrc_st, is_adv_running, last_paired, work, bt, cmd, owed>>

\* Entry of cmd_delete_paired: bt_unpair of the last paired address.
DeletePaired(c) ==
  /\ pc[c] = "idle"
  /\ \E k \in Commands[c] :
       /\ k.op = "delete"
       /\ cmd' = [cmd EXCEPT ![c] = k]
  /\ bonds' = bonds \ {last_paired}
  /\ GoTo(c, "stop")
  /\ UNCHANGED <<app, work, adv, target, link, rx, owed>>

AfterStop(c) == IF cmd[c].op = "delete" THEN "clear" ELSE "sleep"

\* advertising_stop up to the return of bt_le_adv_stop.
Stop(c) ==
  /\ pc[c] = "stop"
  /\ \/ /\ ~is_adv_running
        /\ GoTo(c, AfterStop(c))
        /\ UNCHANGED <<adv, target, owed>>
     \/ /\ is_adv_running
        /\ AdvStop(TRUE)
        /\ GoTo(c, "stopped")
        /\ owed' = (owed /\ cmd[c].op = "adv")
     \/ /\ is_adv_running
        /\ AdvStop(FALSE)
        /\ GoTo(c, AfterStop(c))
        /\ UNCHANGED owed
  /\ UNCHANGED <<app, work, link, bonds, rx, cmd>>

\* The rest of advertising_stop.
Stopped(c) ==
  /\ pc[c] = "stopped"
  /\ is_adv_running' = FALSE
  /\ GoTo(c, AfterStop(c))
  /\ UNCHANGED <<g_btrc_st, g_wakeup_adv_mode, last_paired, work, bt, cmd, owed>>

\* advertising_start, statement by statement.
Forget(c) ==
  /\ pc[c] = "forget"
  /\ last_paired' = NoAddr
  /\ GoTo(c, "bonds")
  /\ UNCHANGED <<g_btrc_st, is_adv_running, g_wakeup_adv_mode, work, bt, cmd, owed>>

FindBond(c) ==
  /\ pc[c] = "bonds"
  /\ last_paired' \in LastBond(last_paired)
  /\ GoTo(c, "check")
  /\ UNCHANGED <<g_btrc_st, is_adv_running, g_wakeup_adv_mode, work, bt, cmd, owed>>

CheckRunning(c) ==
  /\ pc[c] = "check"
  /\ GoTo(c, IF is_adv_running THEN "rearm" ELSE "submit")
  /\ UNCHANGED <<app, work, bt, cmd, owed>>

Submit(c) ==
  /\ pc[c] = "submit"
  /\ queue' = queue \cup {"adv_work"}
  /\ GoTo(c, "rearm")
  /\ UNCHANGED <<app, delayed, canceling, wq, bt, cmd, owed>>

\* Mutation: the timer is re-armed only when nothing has to be submitted.
RearmLost(c) ==
  /\ pc[c] = "rearm"
  /\ delayed' = (delayed \/ (cmd[c].timed /\ ~is_adv_running))
  /\ Return(c)
  /\ UNCHANGED <<app, canceling, queue, wq, bt, owed>>

\* The end of try_advertising_start: k_work_reschedule when time_s is not 0.
Rearm(c) ==
  /\ pc[c] = "rearm"
  /\ delayed' = (delayed \/ cmd[c].timed)
  /\ Return(c)
  /\ UNCHANGED <<app, canceling, queue, wq, bt, owed>>

\* The end of cmd_delete_paired.
ClearLast(c) ==
  /\ pc[c] = "clear"
  /\ last_paired' = NoAddr
  /\ Return(c)
  /\ UNCHANGED <<g_btrc_st, is_adv_running, g_wakeup_adv_mode, work, bt, owed>>

Caller(c) ==
  \/ TryStart(c) \/ SetMode(c) \/ DeletePaired(c) \/ Stop(c) \/ Stopped(c)
  \/ Forget(c) \/ FindBond(c) \/ CheckRunning(c) \/ Submit(c) \/ Rearm(c)
  \/ ClearLast(c)

-----------------------------------------------------------------------------
(* The system work queue. *)

Take(item) == wq = "idle" /\ item \in queue /\ queue' = queue \ {item}

\* advertising_continue finds the flag set and does nothing.
AdvWorkSkips ==
  /\ Take("adv_work")
  /\ is_adv_running
  /\ UNCHANGED <<app, delayed, canceling, wq, bt, pc, cmd, owed>>

\* advertising_continue up to the return of a successful bt_le_adv_start. It
\* waits for the controller: a caller about to clear the flag does so meanwhile
\* (Prompt).
AdvWorkStarts ==
  /\ Take("adv_work")
  /\ Prompt => \A c \in Callers : pc[c] # "stopped"
  /\ ~is_adv_running
  /\ TRUE \in HciOutcomes
  /\ Accepts(AdvKind)
  /\ adv' = AdvKind
  /\ target' = IF AdvKind = "direct" THEN last_paired ELSE NoAddr
  /\ wq' = "started"
  /\ UNCHANGED <<app, delayed, canceling, link, bonds, rx, pc, cmd, owed>>

\* bt_le_adv_start returns an error: advertising_continue logs it and returns.
AdvWorkFails ==
  /\ Take("adv_work")
  /\ ~is_adv_running
  /\ \/ ~Accepts(AdvKind) /\ UNCHANGED owed
     \/ FALSE \in HciOutcomes /\ owed' = FALSE
  /\ UNCHANGED <<app, delayed, canceling, wq, bt, pc, cmd>>

\* Mutation: the handler does not record that it advertises.
AdvWorkEndsSilently ==
  /\ wq = "started"
  /\ wq' = "idle"
  /\ UNCHANGED <<app, delayed, canceling, queue, bt, pc, cmd, owed>>

\* The last statement of advertising_continue.
AdvWorkEnds ==
  /\ wq = "started"
  /\ wq' = "idle"
  /\ is_adv_running' = TRUE
  /\ UNCHANGED <<g_btrc_st, g_wakeup_adv_mode, last_paired, delayed, canceling,
                 queue, bt, pc, cmd, owed>>

\* adv_mode_switch_handler: its call of advertising_stop.
SwitchStops ==
  /\ Take("switch_work")
  /\ \/ ~is_adv_running /\ wq' = "sleep" /\ UNCHANGED <<adv, target>>
     \/ is_adv_running /\ AdvStop(TRUE) /\ wq' = "stopped"
     \/ is_adv_running /\ AdvStop(FALSE) /\ wq' = "sleep"
  /\ UNCHANGED <<app, delayed, canceling, link, bonds, rx, pc, cmd, owed>>

\* Mutation: advertising_stop leaves the flag set.
SwitchStoppedKeepsFlag ==
  /\ wq = "stopped"
  /\ wq' = "sleep"
  /\ UNCHANGED <<app, delayed, canceling, queue, bt, pc, cmd, owed>>

SwitchStopped ==
  /\ wq = "stopped"
  /\ wq' = "sleep"
  /\ is_adv_running' = FALSE
  /\ UNCHANGED <<g_btrc_st, g_wakeup_adv_mode, last_paired, delayed, canceling,
                 queue, bt, pc, cmd, owed>>

\* Mutation: advertising_start does not forget the address that it had.
SwitchResumesRemembers ==
  /\ wq = "resume"
  /\ wq' = "idle"
  /\ canceling' = FALSE
  /\ g_wakeup_adv_mode' = FALSE
  /\ \/ /\ g_btrc_st = "DISCONNECTE"
        /\ last_paired' \in LastBond(last_paired)
        /\ queue' = IF is_adv_running THEN queue ELSE queue \cup {"adv_work"}
     \/ /\ g_btrc_st # "DISCONNECTE"
        /\ UNCHANGED <<last_paired, queue>>
  /\ UNCHANGED <<g_btrc_st, is_adv_running, delayed, bt, pc, cmd, owed>>

\* adv_mode_switch_handler after its k_sleep, advertising_start included.
SwitchResumes ==
  /\ wq = "resume"
  /\ wq' = "idle"
  /\ canceling' = FALSE
  /\ g_wakeup_adv_mode' = FALSE
  /\ \/ /\ g_btrc_st = "DISCONNECTE"
        /\ last_paired' \in LastBond(NoAddr)
        /\ queue' = IF is_adv_running THEN queue ELSE queue \cup {"adv_work"}
     \/ /\ g_btrc_st # "DISCONNECTE"
        /\ UNCHANGED <<last_paired, queue>>
  /\ UNCHANGED <<g_btrc_st, is_adv_running, delayed, bt, pc, cmd, owed>>

WorkQueue ==
  \/ AdvWorkSkips \/ AdvWorkStarts \/ AdvWorkFails \/ AdvWorkEnds
  \/ SwitchStops \/ SwitchStopped \/ SwitchResumes

-----------------------------------------------------------------------------
(* Time: the two k_sleep(K_MSEC(100)) and the timer of adv_mode_switch_work. *)

\* Every thread waits: nothing is ready to run.
CpuIdle ==
  /\ wq = "sleep" \/ (wq = "idle" /\ queue = {})
  /\ rx = "idle"
  /\ \A c \in Callers : pc[c] \in {"idle", "sleep"}

Waiting ==
  {c \in Callers : pc[c] = "sleep"}
    \cup (IF wq = "sleep" THEN {Workq} ELSE {})
    \cup (IF delayed THEN {Timer} ELSE {})

\* The timeouts in S end together. A timer that ends while its work item is
\* being cancelled is dropped by the kernel.
Elapse(S) ==
  /\ S # {}
  /\ Prompt => CpuIdle
  /\ pc' = [c \in Callers |-> IF c \in S THEN "forget" ELSE pc[c]]
  /\ wq' = IF Workq \in S THEN "resume" ELSE wq
  /\ delayed' = (delayed /\ Timer \notin S)
  /\ queue' = IF Timer \in S /\ ~canceling THEN queue \cup {"switch_work"} ELSE queue
  /\ UNCHANGED <<app, canceling, bt, cmd, owed>>

Time == \E S \in SUBSET Waiting : Elapse(S)

-----------------------------------------------------------------------------
(* The connection callbacks. *)

\* connected(conn, 0) up to the calls that may block: the connectable
\* advertiser ends with the connection.
Connected(p) ==
  /\ rx = "idle" /\ link = NoAddr
  /\ adv = "pair" \/ (adv = "direct" /\ target = p)
  /\ rx' = "connected"
  /\ link' = p
  /\ adv' = "off" /\ target' = NoAddr
  /\ is_adv_running' = FALSE
  /\ last_paired' = p
  /\ UNCHANGED <<g_btrc_st, g_wakeup_adv_mode, work, bonds, pc, cmd, owed>>

\* The last statement of connected.
ConnectedEnds ==
  /\ rx = "connected"
  /\ rx' = "idle"
  /\ g_btrc_st' = "CONNECTED"
  /\ UNCHANGED <<is_adv_running, g_wakeup_adv_mode, last_paired, work, adv, target,
                 link, bonds, pc, cmd, owed>>

\* connected(conn, BT_HCI_ERR_ADV_TIMEOUT): 1.28 s of directed advertising
\* have passed, so the thread that started it has run since (Prompt).
DirectedTimeout ==
  /\ rx = "idle" /\ adv = "direct"
  /\ Prompt => wq # "started"
  /\ adv' = "off" /\ target' = NoAddr
  /\ is_adv_running' = FALSE
  /\ last_paired' = target
  /\ delayed' = TRUE
  /\ owed' = TRUE
  /\ UNCHANGED <<g_btrc_st, g_wakeup_adv_mode, canceling, queue, wq, link, bonds,
                 rx, pc, cmd>>

\* connected with another error: the advertiser has ended for a connection that was
\* not established, which takes some connection intervals (Prompt), and nothing is
\* scheduled.
ConnectFails(p) ==
  /\ rx = "idle" /\ link = NoAddr
  /\ FALSE \in HciOutcomes
  /\ Prompt => wq # "started"
  /\ adv = "pair" \/ (adv = "direct" /\ target = p)
  /\ adv' = "off" /\ target' = NoAddr
  /\ is_adv_running' = FALSE
  /\ last_paired' = p
  /\ owed' = FALSE
  /\ UNCHANGED <<g_btrc_st, g_wakeup_adv_mode, work, link, bonds, rx, pc, cmd>>

\* disconnected. A link lasts some connection intervals at least (Prompt).
Disconnected ==
  /\ rx = "idle" /\ link # NoAddr
  /\ Prompt => wq # "started"
  /\ link' = NoAddr
  /\ g_btrc_st' = "DISCONNECTE"
  /\ delayed' = TRUE
  /\ owed' = TRUE
  /\ UNCHANGED <<is_adv_running, g_wakeup_adv_mode, last_paired, canceling, queue, wq,
                 adv, target, bonds, rx, pc, cmd>>

\* Mutation: the bond is stored under the address ble_rc.c remembers.
SecurityBondsLast ==
  /\ rx = "idle" /\ link # NoAddr
  /\ link \in bonds \/ Cardinality(bonds) < MaxPaired
  /\ g_btrc_st' = "SECURITY_LV_OK"
  /\ bonds' = bonds \cup {last_paired}
  /\ UNCHANGED <<is_adv_running, g_wakeup_adv_mode, last_paired, work, adv, target,
                 link, rx, pc, cmd, owed>>

\* security_changed_cb without error; a new peer is bonded when there is room.
SecurityChanged ==
  /\ rx = "idle" /\ link # NoAddr
  /\ link \in bonds \/ Cardinality(bonds) < MaxPaired
  /\ g_btrc_st' = "SECURITY_LV_OK"
  /\ bonds' = bonds \cup {link}
  /\ UNCHANGED <<is_adv_running, g_wakeup_adv_mode, last_paired, work, adv, target,
                 link, rx, pc, cmd, owed>>

\* ble_rc_init once more, on a later EVT_WIFI_CONNECTED: it clears the last
\* paired address and returns when bt_enable reports -EALREADY.
Reinit ==
  /\ last_paired # NoAddr
  /\ last_paired' = NoAddr
  /\ UNCHANGED <<g_btrc_st, is_adv_running, g_wakeup_adv_mode, work, bt, pc, cmd, owed>>

Callbacks ==
  \/ \E p \in Peers : Connected(p) \/ ConnectFails(p)
  \/ ConnectedEnds \/ DirectedTimeout \/ Disconnected \/ SecurityChanged

-----------------------------------------------------------------------------
Next ==
  \/ \E c \in Callers : Caller(c)
  \/ WorkQueue
  \/ Time
  \/ Callbacks
  \/ Reinit

Spec == Init /\ [][Next]_vars

-----------------------------------------------------------------------------
(* Fairness: the kernel runs every ready thread, the work queue is a FIFO,   *)
(* the host's calls return, timeouts end and the controller gives directed   *)
(* advertising up. Users, peers and Wi-Fi may do nothing for ever. Time is   *)
(* strongly fair because under Prompt a timeout ends only at the moments at  *)
(* which the processor is idle.                                              *)

Running(c) ==
  \/ SetMode(c) \/ Stop(c) \/ Stopped(c) \/ Forget(c) \/ FindBond(c)
  \/ CheckRunning(c) \/ Submit(c) \/ Rearm(c) \/ ClearLast(c)

Fairness ==
  /\ \A c \in Callers : WF_vars(Running(c))
  /\ WF_vars(WorkQueue)
  /\ SF_vars(SwitchStops)
  /\ WF_vars(ConnectedEnds) /\ WF_vars(DirectedTimeout)
  /\ \A t \in Callers \cup {Workq, Timer} :
       SF_vars(\E S \in SUBSET Waiting : t \in S /\ Elapse(S))

FairSpec == Spec /\ Fairness

-----------------------------------------------------------------------------
(* Properties. *)

\* No call leaves wakeup mode without a timer (start_wakeup 0 would).
TimedWakeups ==
  \A c \in Callers : \A k \in Commands[c] : k.op = "adv" /\ k.wakeup => k.timed

\* Caller c is still going to write g_wakeup_adv_mode, or to arm the timer.
Resets(c) ==
  /\ cmd[c].op = "adv"
  /\ pc[c] = "mode" \/ (cmd[c].timed /\ pc[c] \notin {"idle", "clear"})

\* A write of g_wakeup_adv_mode, by a caller or by the handler, is on its way.
ResetPending ==
  \/ delayed
  \/ "switch_work" \in queue
  \/ wq \in InSwitch
  \/ \E c \in Callers : Resets(c)

\* Wakeup advertising is not connectable, so the remote control is lost to its
\* host if the mode stays: whatever cancels adv_mode_switch_work in
\* try_advertising_start, in whatever order the shell, bt_ck and the handler
\* run, a reset of the mode remains on its way.
WakeupBounded == TimedWakeups /\ g_wakeup_adv_mode => ResetPending

\* Every call arms the timer (start_adv 0 would not), and the controller obeys.
TimedCalls == \A c \in Callers : \A k \in Commands[c] : k.op = "adv" => k.timed
Obedient   == FALSE \notin HciOutcomes

\* What holds of the mode holds of the radio, which lags behind it: as long as an
\* advertiser is on the air that no host can connect to, what ends it is on its way,
\* although advertising_start leaves alone whatever advertiser it finds.
WakeupLeavesAir == TimedCalls /\ Obedient /\ adv = "wakeup" => ResetPending

\* Work that will reach advertising_continue.
AdvPending ==
  \/ delayed \/ queue # {} \/ wq # "idle"
  \/ \E c \in Callers : cmd[c].op = "adv" /\ pc[c] # "idle"

\* Once advertising was asked for (a call, a disconnection, a timeout of
\* directed advertising) the remote control is connected, on the air, or about
\* to be, until bt_le_adv_start fails, a connection is not established or the bond
\* is deleted: no race over is_adv_running makes every party believe that another
\* one advertises.
NotStranded == owed /\ link = NoAddr => adv # "off" \/ AdvPending

\* When nothing runs, an advertiser on the air is known to advertising_stop,
\* so that the next call can stop it.
NoOrphan == CpuIdle /\ adv # "off" => is_adv_running

\* Wakeup mode ends by itself: it leads to pairing mode unless a new call of
\* try_advertising_start begins.
WakeupEnds ==
  g_wakeup_adv_mode ~> (~g_wakeup_adv_mode \/ \E c \in Callers : cmd[c].op = "adv")

\* With a controller that obeys, the armed adv_mode_switch_work leads to a
\* connection or to connectable advertising, unless a thread makes another call
\* meanwhile. After a bt_le_adv_start that fails nothing is scheduled.
Reconnectable ==
  Obedient =>
    (delayed ~> (adv \in {"pair", "direct"} \/ link # NoAddr
                   \/ \E c \in Callers : cmd[c].op # "none"))

\* Directed advertising to a host that was deleted meanwhile, for cmd_delete_paired
\* may overlap adv_work, leads to pairing mode or to a connection, unless a thread
\* makes another call: the remote control does not call a deleted host for ever,
\* with a controller that obeys.
DeletedLetGo ==
  Obedient =>
    ((adv = "direct" /\ target \notin bonds)
       ~> (adv = "pair" \/ link # NoAddr \/ \E c \in Callers : cmd[c].op # "none"))

\* start_wakeup, "Send wakeup adv" (ble_rc.c:826): advertising_start leaves the
\* advertiser alone only when it is the wakeup advertiser.
WakeupSent ==
  \A c \in Callers :
    pc[c] = "check" /\ cmd[c].wakeup /\ is_adv_running => adv = "wakeup"
=============================================================================
