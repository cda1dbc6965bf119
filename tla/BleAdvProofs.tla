---------------------------- MODULE BleAdvProofs ----------------------------
(***************************************************************************)
(* Proofs about BleAdv, for any number of calling threads and peers.       *)
(***************************************************************************)
EXTENDS BleAdv, TLAPS

-----------------------------------------------------------------------------
\* The static variables of ble_rc.c, the work items and the threads keep their
\* types: in particular only addresses of peers are ever bonded.
LEMMA TypeInit == Init => TypeOK
BY ConstantsAssumption DEF Init, TypeOK, Addr, Steps, InSwitch

\* The arguments of every call of try_advertising_start are Booleans.
LEMMA CommandFields ==
  ASSUME NEW k \in Command \cup {NoCommand}
  PROVE  k.wakeup \in BOOLEAN /\ k.timed \in BOOLEAN
<1>1. CASE k \in Command
  BY <1>1 DEF Command
<1>2. CASE k = NoCommand
  BY <1>2 DEF NoCommand
<1> QED
  BY <1>1, <1>2

\* Every statement of try_advertising_start and cmd_delete_paired keeps them.
LEMMA TypeCaller ==
  ASSUME TypeOK, NEW c \in Callers, Caller(c)
  PROVE  TypeOK'
<1> USE ConstantsAssumption DEF TypeOK, app, work, bt, GoTo, Return, Steps
<1>0. Commands[c] \subseteq Command
  BY ConstantsAssumption
<1>1. CASE TryStart(c)
  <2>1. cmd' \in [Callers -> Command \cup {NoCommand}]
    BY <1>0, <1>1 DEF TryStart
  <2>2. canceling' \in BOOLEAN
    BY <1>1 DEF TryStart, CancelSwitchWork
  <2> QED
    BY <1>1, <2>1, <2>2 DEF TryStart, CancelSwitchWork
<1>2. CASE SetMode(c)
  BY <1>2, CommandFields DEF SetMode
<1>3. CASE DeletePaired(c)
  <2>1. cmd' \in [Callers -> Command \cup {NoCommand}]
    BY <1>0, <1>3 DEF DeletePaired
  <2> QED
    BY <1>3, <2>1 DEF DeletePaired
<1>4. CASE Stop(c)
  <2>1. owed' \in BOOLEAN
    BY <1>4 DEF Stop
  <2>2. adv' \in {"off", "pair", "direct", "wakeup"} /\ target' \in Addr
    BY <1>4 DEF Stop, AdvStop, Addr
  <2>3. pc' \in [Callers -> Steps]
    BY <1>4 DEF Stop, AfterStop
  <2>4. UNCHANGED <<app, work, link, bonds, rx, cmd>>
    BY <1>4 DEF Stop
  <2> QED
    BY <2>1, <2>2, <2>3, <2>4
<1>5. CASE Stopped(c)
  BY <1>5 DEF Stopped, AfterStop
<1>6. CASE Forget(c)
  BY <1>6 DEF Forget, Addr
<1>7. CASE FindBond(c)
  BY <1>7 DEF FindBond, LastBond, Addr
<1>8. CASE CheckRunning(c)
  BY <1>8 DEF CheckRunning
<1>9. CASE Submit(c)
  BY <1>9 DEF Submit
<1>10. CASE Rearm(c)
  <2>1. delayed' \in BOOLEAN
    BY <1>10 DEF Rearm
  <2> QED
    BY <1>10, <2>1 DEF Rearm
<1>11. CASE ClearLast(c)
  BY <1>11 DEF ClearLast, Addr
<1> QED
  BY <1>1, <1>2, <1>3, <1>4, <1>5, <1>6, <1>7, <1>8, <1>9, <1>10, <1>11 DEF Caller

\* So does every stretch of code that the system work queue runs.
LEMMA TypeWorkQueue ==
  ASSUME TypeOK, WorkQueue
  PROVE  TypeOK'
<1> USE ConstantsAssumption DEF TypeOK, app, work, bt, Take, InSwitch
<1>1. CASE AdvWorkSkips
  BY <1>1 DEF AdvWorkSkips
<1>2. CASE AdvWorkStarts
  BY <1>2 DEF AdvWorkStarts, AdvKind, Addr
<1>3. CASE AdvWorkFails
  BY <1>3 DEF AdvWorkFails
<1>4. CASE AdvWorkEnds
  BY <1>4 DEF AdvWorkEnds
<1>5. CASE SwitchStops
  <2>1. adv' \in {"off", "pair", "direct", "wakeup"} /\ target' \in Addr
    BY <1>5 DEF SwitchStops, AdvStop, Addr
  <2>2. wq' \in InSwitch
    BY <1>5 DEF SwitchStops
  <2>3. queue' \in SUBSET {"adv_work", "switch_work"}
    BY <1>5 DEF SwitchStops
  <2> QED
    BY <1>5, <2>1, <2>2, <2>3 DEF SwitchStops
<1>6. CASE SwitchStopped
  BY <1>6 DEF SwitchStopped
<1>7. CASE SwitchResumes
  BY <1>7 DEF SwitchResumes, LastBond, Addr
<1> QED
  BY <1>1, <1>2, <1>3, <1>4, <1>5, <1>6, <1>7 DEF WorkQueue

\* So do the end of timeouts, the connection callbacks and ble_rc_init.
LEMMA TypeEvents ==
  ASSUME TypeOK, Time \/ Callbacks \/ Reinit
  PROVE  TypeOK'
<1> USE ConstantsAssumption DEF TypeOK, app, work, bt, Addr
<1>1. CASE Time
  BY <1>1 DEF Time, Elapse, Steps, InSwitch
<1>2. CASE \E p \in Peers : Connected(p)
  BY <1>2 DEF Connected
<1>8. CASE \E p \in Peers : ConnectFails(p)
  BY <1>8 DEF ConnectFails
<1>3. CASE ConnectedEnds
  BY <1>3 DEF ConnectedEnds
<1>4. CASE DirectedTimeout
  BY <1>4 DEF DirectedTimeout
<1>5. CASE Disconnected
  BY <1>5 DEF Disconnected
<1>6. CASE SecurityChanged
  BY <1>6 DEF SecurityChanged
<1>7. CASE Reinit
  BY <1>7 DEF Reinit
<1> QED
  BY <1>1, <1>2, <1>3, <1>4, <1>5, <1>6, <1>7, <1>8 DEF Callbacks

\* Hence every step does.
LEMMA TypeStep ==
  ASSUME TypeOK, [Next]_vars
  PROVE  TypeOK'
<1>1. CASE UNCHANGED vars
  BY <1>1 DEF TypeOK, vars, app, work, bt
<1> QED
  BY <1>1, TypeCaller, TypeWorkQueue, TypeEvents DEF Next

\* No interleaving of the threads takes a variable out of its type.
THEOREM TypeCorrect == Spec => []TypeOK
<1>1. TypeOK /\ [Next]_vars => TypeOK'
  BY TypeStep
<1> QED
  BY <1>1, TypeInit, PTL DEF Spec

-----------------------------------------------------------------------------
(* WakeupBounded, by induction with what it rests on: a cancellation mark    *)
(* does not outlive the handler it belongs to (otherwise the kernel would    *)
(* drop the expiry that ends the mode), and a caller between two statements  *)
(* runs a command it may run.                                                *)

CancelEnds == canceling => wq \in InSwitch

CallsKnown ==
  \A c \in Callers :
    pc[c] # "idle" => /\ cmd[c] \in Commands[c]
                      /\ pc[c] = "mode" => cmd[c].op = "adv"

WakeupInv == TypeOK /\ CancelEnds /\ CallsKnown /\ WakeupBounded

\* k_work_cancel_delayable marks only a handler that runs, and the end of the
\* handler takes the mark away.
LEMMA CancelStep ==
  ASSUME TypeOK, CancelEnds, [Next]_vars
  PROVE  CancelEnds'
<1> USE DEF CancelEnds, app, work, bt, InSwitch
<1>1. CASE UNCHANGED vars
  BY <1>1 DEF vars
<1>2. CASE \E c \in Callers : Caller(c)
  BY <1>2 DEF Caller, TryStart, CancelSwitchWork, SetMode, DeletePaired, Stop, Stopped,
     Forget, FindBond, CheckRunning, Submit, Rearm, ClearLast
<1>3. CASE WorkQueue
  BY <1>3 DEF WorkQueue, Take, AdvWorkSkips, AdvWorkStarts, AdvWorkFails, AdvWorkEnds,
     SwitchStops, SwitchStopped, SwitchResumes
<1>4. CASE Time
  BY <1>4 DEF Time, Elapse
<1>5. CASE Callbacks \/ Reinit
  BY <1>5 DEF Callbacks, Connected, ConnectedEnds, DirectedTimeout, ConnectFails, Disconnected,
     SecurityChanged, Reinit
<1> QED
  BY <1>1, <1>2, <1>3, <1>4, <1>5 DEF Next

\* The threads are left alone by everything but their own steps and the end of
\* their sleep.
LEMMA ThreadsUnchanged ==
  ASSUME WorkQueue \/ Callbacks \/ Reinit
  PROVE  UNCHANGED <<pc, cmd>>
BY DEF WorkQueue, Take, AdvWorkSkips, AdvWorkStarts, AdvWorkFails, AdvWorkEnds,
   SwitchStops, SwitchStopped, SwitchResumes, Callbacks, Connected, ConnectedEnds,
   DirectedTimeout, ConnectFails, Disconnected, SecurityChanged, Reinit

\* The callers whose sleep ends are those that sleep.
LEMMA SleepersWake ==
  ASSUME NEW S \in SUBSET Waiting
  PROVE  \A c \in Callers : c \in S => pc[c] = "sleep"
BY ConstantsAssumption DEF Waiting

\* A caller between two statements runs one of its commands, and is about to
\* write g_wakeup_adv_mode only in try_advertising_start.
LEMMA CallsStep ==
  ASSUME TypeOK, CallsKnown, [Next]_vars
  PROVE  CallsKnown'
<1> USE DEF TypeOK, CallsKnown
<1>1. CASE UNCHANGED vars
  BY <1>1 DEF vars
<1>2. ASSUME NEW c \in Callers, Caller(c) PROVE CallsKnown'
  <2> USE DEF GoTo, Return
  <2>1. CASE TryStart(c) \/ DeletePaired(c)
    BY <2>1 DEF TryStart, DeletePaired
  <2>2. CASE Stop(c) \/ Stopped(c)
    BY <2>2 DEF Stop, Stopped, AfterStop
  <2>3. CASE SetMode(c) \/ Forget(c) \/ FindBond(c) \/ CheckRunning(c) \/ Submit(c)
    BY <2>3 DEF SetMode, Forget, FindBond, CheckRunning, Submit
  <2>4. CASE Rearm(c) \/ ClearLast(c)
    BY <2>4 DEF Rearm, ClearLast
  <2> QED
    BY <1>2, <2>1, <2>2, <2>3, <2>4 DEF Caller
<1>3. CASE WorkQueue \/ Callbacks \/ Reinit
  BY <1>3, ThreadsUnchanged
<1>4. CASE Time
  BY <1>4, SleepersWake DEF Time, Elapse
<1> QED
  BY <1>1, <1>2, <1>3, <1>4 DEF Next

\* Whatever a caller does next, a write of g_wakeup_adv_mode stays on its way
\* as long as the mode is wakeup.
LEMMA WakeupCaller ==
  ASSUME TypeOK, CallsKnown, WakeupBounded, NEW c \in Callers, Caller(c)
  PROVE  WakeupBounded'
<1> USE DEF TypeOK, WakeupBounded, ResetPending, Resets, GoTo
<1>1. CASE TryStart(c)
  <2>1. Resets(c)'
    BY <1>1 DEF TryStart
  <2> QED
    BY <2>1
<1>2. CASE SetMode(c)
  <2>1. TimedWakeups /\ g_wakeup_adv_mode' => Resets(c)'
    BY <1>2 DEF SetMode, TimedWakeups, CallsKnown
  <2> QED
    BY <2>1
<1>3. CASE DeletePaired(c)
  <2>1. \A d \in Callers : Resets(d) => Resets(d)'
    BY <1>3 DEF DeletePaired
  <2> QED
    BY <1>3, <2>1 DEF DeletePaired, app, work
<1>4. CASE Stop(c) \/ Stopped(c)
  <2>1. \A d \in Callers : Resets(d) => Resets(d)'
    BY <1>4 DEF Stop, Stopped, AfterStop
  <2> QED
    BY <1>4, <2>1 DEF Stop, Stopped, app, work
<1>5. CASE Forget(c) \/ FindBond(c) \/ CheckRunning(c) \/ Submit(c)
  <2>1. \A d \in Callers : Resets(d) => Resets(d)'
    BY <1>5 DEF Forget, FindBond, CheckRunning, Submit
  <2> QED
    BY <1>5, <2>1 DEF Forget, FindBond, CheckRunning, Submit, app, work
<1>6. CASE Rearm(c)
  <2>1. delayed' \/ \A d \in Callers : Resets(d) => Resets(d)'
    BY <1>6 DEF Rearm, Return
  <2> QED
    BY <1>6, <2>1 DEF Rearm, app
<1>7. CASE ClearLast(c)
  <2>1. \A d \in Callers : Resets(d) => Resets(d)'
    BY <1>7 DEF ClearLast, Return
  <2> QED
    BY <1>7, <2>1 DEF ClearLast, work
<1> QED
  BY <1>1, <1>2, <1>3, <1>4, <1>5, <1>6, <1>7 DEF Caller

\* The handler clears the mode before it ends, and the other work leaves the
\* pending write alone.
LEMMA WakeupWorkQueue ==
  ASSUME TypeOK, WakeupBounded, WorkQueue
  PROVE  WakeupBounded'
<1> USE DEF TypeOK, WakeupBounded, ResetPending, Resets, InSwitch, Take
<1>1. CASE SwitchResumes
  BY <1>1 DEF SwitchResumes
<1>2. CASE SwitchStops \/ SwitchStopped
  BY <1>2 DEF SwitchStops, SwitchStopped
<1>3. CASE AdvWorkSkips \/ AdvWorkStarts \/ AdvWorkFails \/ AdvWorkEnds
  <2>1. UNCHANGED <<g_wakeup_adv_mode, delayed, pc, cmd>>
    BY <1>3 DEF AdvWorkSkips, AdvWorkStarts, AdvWorkFails, AdvWorkEnds, app
  <2>2. wq \notin InSwitch /\ ("switch_work" \in queue => "switch_work" \in queue')
    BY <1>3 DEF AdvWorkSkips, AdvWorkStarts, AdvWorkFails, AdvWorkEnds
  <2> QED
    BY <2>1, <2>2
<1> QED
  BY <1>1, <1>2, <1>3 DEF WorkQueue

\* When the timer of adv_mode_switch_work ends its handler is queued, or is
\* running already; the ends of the sleeps leave the pending write alone.
LEMMA WakeupTime ==
  ASSUME TypeOK, CancelEnds, WakeupBounded, Time
  PROVE  WakeupBounded'
<1> USE DEF TypeOK, WakeupBounded, ResetPending, InSwitch
<1> PICK S \in SUBSET Waiting : Elapse(S)
  BY DEF Time
<1>1. UNCHANGED g_wakeup_adv_mode
  BY DEF Elapse, app
<1>2. \A d \in Callers : Resets(d) => Resets(d)'
  BY SleepersWake DEF Elapse, Resets
<1>3. wq \in InSwitch => wq' \in InSwitch
  BY DEF Elapse
<1>4. "switch_work" \in queue => "switch_work" \in queue'
  BY DEF Elapse
<1>5. delayed => delayed' \/ "switch_work" \in queue' \/ wq' \in InSwitch
  BY <1>3 DEF Elapse, CancelEnds
<1> QED
  BY <1>1, <1>2, <1>3, <1>4, <1>5

\* The callbacks only ever arm the timer.
LEMMA WakeupEvents ==
  ASSUME TypeOK, WakeupBounded, Callbacks \/ Reinit
  PROVE  WakeupBounded'
<1>1. UNCHANGED <<g_wakeup_adv_mode, queue, wq, pc, cmd>>
  BY DEF Callbacks, Connected, ConnectedEnds, DirectedTimeout, ConnectFails, Disconnected,
     SecurityChanged, Reinit, work
<1>2. delayed => delayed'
  BY DEF Callbacks, Connected, ConnectedEnds, DirectedTimeout, ConnectFails, Disconnected,
     SecurityChanged, Reinit, work
<1> QED
  BY <1>1, <1>2 DEF WakeupBounded, ResetPending, Resets, InSwitch

\* Hence every step keeps the pending write.
LEMMA WakeupStep ==
  ASSUME WakeupInv, [Next]_vars
  PROVE  WakeupBounded'
<1>1. CASE UNCHANGED vars
  <2>1. UNCHANGED <<g_wakeup_adv_mode, delayed, queue, wq, pc, cmd>>
    BY <1>1 DEF vars, app, work
  <2> QED
    BY <2>1 DEF WakeupInv, WakeupBounded, ResetPending, Resets, InSwitch
<1>2. CASE \E c \in Callers : Caller(c)
  BY <1>2, WakeupCaller DEF WakeupInv
<1>3. CASE WorkQueue
  BY <1>3, WakeupWorkQueue DEF WakeupInv
<1>4. CASE Time
  BY <1>4, WakeupTime DEF WakeupInv
<1>5. CASE Callbacks \/ Reinit
  BY <1>5, WakeupEvents DEF WakeupInv
<1> QED
  BY <1>1, <1>2, <1>3, <1>4, <1>5 DEF Next

\* When every start_wakeup carries a time, wakeup advertising always ends:
\* at any moment of any interleaving a write of g_wakeup_adv_mode is on its way.
THEOREM WakeupAlwaysBounded == Spec => []WakeupBounded
<1>1. Init => WakeupInv
  BY TypeInit DEF Init, WakeupInv, CancelEnds, CallsKnown, WakeupBounded
<1>2. WakeupInv /\ [Next]_vars => WakeupInv'
  <2> SUFFICES ASSUME WakeupInv, [Next]_vars PROVE WakeupInv'
    OBVIOUS
  <2>1. TypeOK' /\ CancelEnds' /\ CallsKnown'
    BY TypeStep, CancelStep, CallsStep DEF WakeupInv
  <2>2. WakeupBounded'
    BY WakeupStep
  <2> QED
    BY <2>1, <2>2 DEF WakeupInv
<1>3. WakeupInv => WakeupBounded
  BY DEF WakeupInv
<1> QED
  BY <1>1, <1>2, <1>3, PTL DEF Spec
-----------------------------------------------------------------------------
(* NoOrphan and NotStranded: the races over is_adv_running do no lasting     *)
(* harm, under the assumption about time that the source makes with its      *)
(* sleeps of 100 ms (Prompt).                                                *)

\* The flag and the advertiser. Only adv_work sets the flag, on its own thread
\* and after it started an advertiser; a thread that has stopped the advertiser
\* and not yet cleared the flag finds none on the air.
FlagFollows ==
  /\ adv # "off" => is_adv_running \/ wq = "started"
  /\ wq = "started" => ~is_adv_running
  /\ wq = "stopped" => adv = "off"
  /\ \A c \in Callers : pc[c] = "stopped" => adv = "off" /\ wq # "started"

\* The link and the callbacks: what advertising_continue has started ends, before
\* it sets the flag, only by a connection, and g_btrc_st lags behind the link.
LinkFollows ==
  /\ wq = "started" => adv # "off" \/ link # NoAddr
  /\ rx = "connected" => link # NoAddr
  /\ g_btrc_st # "DISCONNECTE" => link # NoAddr

\* While the handler sleeps, a set flag is that of an advertiser on the air, or
\* of one just stopped by a caller.
SleepFollows ==
  wq \in {"sleep", "resume"} /\ is_adv_running =>
    adv # "off" \/ \E c \in Callers : pc[c] = "stopped"

\* The steps of try_advertising_start that come before the flag is clear, and
\* those before adv_work is submitted.
UntilClear  == {"mode", "stop", "stopped"}
UntilSubmit == UntilClear \cup {"sleep", "forget", "bonds", "check", "submit"}

\* Caller c runs try_advertising_start and is at a step in S.
At(c, S) == cmd[c].op = "adv" /\ pc[c] \in S

\* The remote control is silent though it should not be.
Silent == owed /\ link = NoAddr /\ adv = "off"

\* With the flag clear, any work that leads to advertising_continue will do.
ClearCarriesOn ==
  Silent /\ ~is_adv_running =>
    \/ delayed \/ queue # {} \/ wq \in InSwitch
    \/ \E c \in Callers : At(c, UntilSubmit)

\* With the flag set although nothing is on the air, it must be work that clears
\* the flag first.
SetCarriesOn ==
  Silent /\ is_adv_running =>
    \/ delayed \/ "switch_work" \in queue \/ wq = "stopped"
    \/ \E c \in Callers : At(c, UntilClear)

RaceInv ==
  /\ TypeOK /\ CancelEnds
  /\ FlagFollows /\ LinkFollows /\ SleepFollows
  /\ ClearCarriesOn /\ SetCarriesOn

-----------------------------------------------------------------------------
\* Only Stop and Stopped touch the advertiser or its flag among the statements of
\* a caller; the caller itself is the only one that moves.
LEMMA OtherStatements ==
  ASSUME TypeOK, NEW c \in Callers, Caller(c), ~Stop(c), ~Stopped(c)
  PROVE  /\ UNCHANGED <<g_btrc_st, is_adv_running, wq, adv, target, link, rx>>
         /\ \A d \in Callers : pc'[d] = "stopped" => pc[d] = "stopped"
         /\ \A d \in Callers : pc[d] = "stopped" => pc'[d] = "stopped"
<1> USE DEF TypeOK, app, work, bt, GoTo, Return
<1>1. CASE TryStart(c)
  BY <1>1 DEF TryStart, CancelSwitchWork
<1>2. CASE SetMode(c) \/ DeletePaired(c)
  BY <1>2 DEF SetMode, DeletePaired
<1>3. CASE Forget(c) \/ FindBond(c) \/ CheckRunning(c)
  BY <1>3 DEF Forget, FindBond, CheckRunning
<1>4. CASE Submit(c) \/ Rearm(c) \/ ClearLast(c)
  BY <1>4 DEF Submit, Rearm, ClearLast
<1> QED
  BY <1>1, <1>2, <1>3, <1>4 DEF Caller

\* What Stop and Stopped do to the advertiser, the flag and the steps.
LEMMA StopEffect ==
  ASSUME TypeOK, NEW c \in Callers, Stop(c)
  PROVE  /\ UNCHANGED <<g_btrc_st, is_adv_running, wq, queue, delayed, link, rx, cmd>>
         /\ pc[c] = "stop"
         /\ \A d \in Callers \ {c} : pc'[d] = pc[d]
         /\ \/ /\ is_adv_running /\ adv' = "off" /\ pc'[c] = "stopped"
               /\ owed' => owed /\ cmd[c].op = "adv"
            \/ /\ UNCHANGED <<adv, owed>> /\ pc'[c] = AfterStop(c)
               /\ is_adv_running => adv # "off"
BY DEF TypeOK, Stop, AdvStop, GoTo, app, work

LEMMA StoppedEffect ==
  ASSUME TypeOK, NEW c \in Callers, Stopped(c)
  PROVE  /\ UNCHANGED <<g_btrc_st, wq, queue, delayed, adv, link, rx, cmd, owed>>
         /\ pc[c] = "stopped" /\ pc'[c] = AfterStop(c)
         /\ \A d \in Callers \ {c} : pc'[d] = pc[d]
         /\ is_adv_running' = FALSE
BY DEF TypeOK, Stopped, GoTo, work, bt

\* advertising_stop never returns to the step behind bt_le_adv_stop.
LEMMA AfterStopSteps ==
  ASSUME NEW c \in Callers
  PROVE  /\ AfterStop(c) \in {"clear", "sleep"}
         /\ cmd[c].op = "adv" => AfterStop(c) = "sleep"
BY DEF AfterStop

\* When timeouts end nothing runs: no thread is inside bt_le_adv_stop or
\* bt_le_adv_start, and those that slept go on.
LEMMA TimeEffect ==
  ASSUME Prompt, Time
  PROVE  /\ CpuIdle
         /\ UNCHANGED <<g_btrc_st, is_adv_running, adv, link, rx, cmd, owed, canceling>>
         /\ wq' = wq \/ (wq = "sleep" /\ wq' = "resume")
         /\ \A c \in Callers :
              pc'[c] = pc[c] \/ (pc[c] = "sleep" /\ pc'[c] = "forget")
         /\ queue \subseteq queue'
         /\ delayed => delayed' \/ canceling \/ "switch_work" \in queue'
<1> PICK S \in SUBSET Waiting : Elapse(S)
  BY DEF Time
<1>1. Workq \in S => wq = "sleep"
  <2>1. Workq \notin Callers /\ Workq # Timer
    BY ConstantsAssumption DEF Workq, Timer
  <2> QED
    BY <2>1 DEF Waiting
<1>2. \A c \in Callers : c \in S => pc[c] = "sleep"
  BY SleepersWake
<1>3. /\ CpuIdle
      /\ UNCHANGED <<g_btrc_st, is_adv_running, adv, link, rx, cmd, owed, canceling>>
  BY DEF Elapse, app, bt
<1>4. wq' = wq \/ (wq = "sleep" /\ wq' = "resume")
  BY <1>1 DEF Elapse
<1>5. \A c \in Callers : pc'[c] = pc[c] \/ (pc[c] = "sleep" /\ pc'[c] = "forget")
  BY <1>2 DEF Elapse
<1>6. /\ queue \subseteq queue'
      /\ delayed => delayed' \/ canceling \/ "switch_work" \in queue'
  BY DEF Elapse
<1> QED
  BY <1>3, <1>4, <1>5, <1>6

-----------------------------------------------------------------------------
\* No step leaves an advertiser without its flag, but adv_work itself.
LEMMA FlagStep ==
  ASSUME Prompt, RaceInv, [Next]_vars
  PROVE  FlagFollows'
<1> USE DEF RaceInv, FlagFollows
<1>1. CASE UNCHANGED vars
  BY <1>1 DEF vars, app, work, bt
<1>2. ASSUME NEW c \in Callers, Caller(c) PROVE FlagFollows'
  <2>1. CASE Stop(c)
    BY <2>1, StopEffect, AfterStopSteps
  <2>2. CASE Stopped(c)
    BY <2>2, StoppedEffect, AfterStopSteps
  <2>3. CASE ~Stop(c) /\ ~Stopped(c)
    BY <1>2, <2>3, OtherStatements
  <2> QED
    BY <2>1, <2>2, <2>3
<1>3. CASE WorkQueue
  <2> USE DEF Take, app, bt
  <2>1. CASE AdvWorkSkips \/ AdvWorkFails
    BY <2>1 DEF AdvWorkSkips, AdvWorkFails
  <2>2. CASE AdvWorkStarts
    BY <2>2 DEF AdvWorkStarts
  <2>3. CASE AdvWorkEnds
    BY <2>3 DEF AdvWorkEnds
  <2>4. CASE SwitchStops
    BY <2>4 DEF SwitchStops, AdvStop
  <2>5. CASE SwitchStopped
    BY <2>5 DEF SwitchStopped
  <2>6. CASE SwitchResumes
    BY <2>6 DEF SwitchResumes
  <2> QED
    BY <1>3, <2>1, <2>2, <2>3, <2>4, <2>5, <2>6 DEF WorkQueue
<1>4. CASE Time
  BY <1>4, TimeEffect DEF CpuIdle
<1>5. CASE Callbacks \/ Reinit
  <2> USE DEF work, bt
  <2>1. CASE \E p \in Peers : Connected(p)
    BY <2>1 DEF Connected
  <2>2. CASE \E p \in Peers : ConnectFails(p)
    BY <2>2 DEF ConnectFails
  <2>3. CASE DirectedTimeout
    BY <2>3 DEF DirectedTimeout
  <2>4. CASE ConnectedEnds \/ Disconnected \/ SecurityChanged \/ Reinit
    BY <2>4 DEF ConnectedEnds, Disconnected, SecurityChanged, Reinit
  <2> QED
    BY <1>5, <2>1, <2>2, <2>3, <2>4 DEF Callbacks
<1> QED
  BY <1>1, <1>2, <1>3, <1>4, <1>5 DEF Next

\* What adv_work has put on the air leaves it, before the flag is set, only for a
\* connection: by the time of a disconnection or of a timeout the flag is set.
LEMMA LinkStep ==
  ASSUME Prompt, RaceInv, [Next]_vars
  PROVE  LinkFollows'
<1> USE DEF RaceInv, LinkFollows
<1>1. CASE UNCHANGED vars
  BY <1>1 DEF vars, app, work, bt
<1>2. ASSUME NEW c \in Callers, Caller(c) PROVE LinkFollows'
  <2>1. CASE Stop(c)
    BY <2>1, StopEffect DEF FlagFollows
  <2>2. CASE Stopped(c)
    BY <2>2, StoppedEffect
  <2>3. CASE ~Stop(c) /\ ~Stopped(c)
    BY <1>2, <2>3, OtherStatements
  <2> QED
    BY <2>1, <2>2, <2>3
<1>3. CASE WorkQueue
  <2> USE DEF Take, app, bt
  <2>1. CASE AdvWorkSkips \/ AdvWorkFails
    BY <2>1 DEF AdvWorkSkips, AdvWorkFails
  <2>2. CASE AdvWorkStarts
    BY <2>2 DEF AdvWorkStarts, AdvKind
  <2>3. CASE AdvWorkEnds
    BY <2>3 DEF AdvWorkEnds
  <2>4. CASE SwitchStops \/ SwitchStopped \/ SwitchResumes
    BY <2>4 DEF SwitchStops, SwitchStopped, SwitchResumes
  <2> QED
    BY <1>3, <2>1, <2>2, <2>3, <2>4 DEF WorkQueue
<1>4. CASE Time
  BY <1>4, TimeEffect DEF CpuIdle
<1>5. CASE Callbacks \/ Reinit
  BY <1>5, ConstantsAssumption DEF Callbacks, Connected, ConnectedEnds,
     DirectedTimeout, ConnectFails, Disconnected, SecurityChanged, Reinit, work, bt
<1> QED
  BY <1>1, <1>2, <1>3, <1>4, <1>5 DEF Next

\* The handler that sleeps has cleared the flag, unless bt_le_adv_stop failed.
LEMMA SleepStep ==
  ASSUME Prompt, RaceInv, [Next]_vars
  PROVE  SleepFollows'
<1> USE DEF RaceInv, SleepFollows
<1>1. CASE UNCHANGED vars
  BY <1>1 DEF vars, app, work, bt
<1>2. ASSUME NEW c \in Callers, Caller(c) PROVE SleepFollows'
  <2>1. CASE Stop(c)
    BY <2>1, StopEffect
  <2>2. CASE Stopped(c)
    BY <2>2, StoppedEffect
  <2>3. CASE ~Stop(c) /\ ~Stopped(c)
    BY <1>2, <2>3, OtherStatements
  <2> QED
    BY <2>1, <2>2, <2>3
<1>3. CASE WorkQueue
  <2> USE DEF Take, app, bt
  <2>1. CASE AdvWorkSkips \/ AdvWorkFails \/ AdvWorkStarts \/ AdvWorkEnds
    BY <2>1 DEF AdvWorkSkips, AdvWorkFails, AdvWorkStarts, AdvWorkEnds
  <2>2. CASE SwitchStops
    BY <2>2 DEF SwitchStops, AdvStop
  <2>3. CASE SwitchStopped \/ SwitchResumes
    BY <2>3 DEF SwitchStopped, SwitchResumes
  <2> QED
    BY <1>3, <2>1, <2>2, <2>3 DEF WorkQueue
<1>4. CASE Time
  BY <1>4, TimeEffect DEF CpuIdle
<1>5. CASE Callbacks \/ Reinit
  BY <1>5 DEF Callbacks, Connected, ConnectedEnds, DirectedTimeout, ConnectFails, Disconnected,
     SecurityChanged, Reinit, work, bt
<1> QED
  BY <1>1, <1>2, <1>3, <1>4, <1>5 DEF Next

-----------------------------------------------------------------------------
\* Whatever a caller does next, a remote control that should not be silent has
\* work on its way that leads to advertising_continue.
LEMMA CarryCaller ==
  ASSUME RaceInv, NEW c \in Callers, Caller(c)
  PROVE  ClearCarriesOn' /\ SetCarriesOn'
<1> USE DEF RaceInv, TypeOK, ClearCarriesOn, SetCarriesOn, Silent, At, UntilClear,
        UntilSubmit, GoTo, Return
<1>1. CASE TryStart(c)
  <2>1. At(c, UntilClear)' /\ At(c, UntilSubmit)'
    BY <1>1 DEF TryStart
  <2> QED
    BY <2>1
<1>2. CASE SetMode(c)
  <2>1. \A d \in Callers : /\ At(d, UntilClear) => At(d, UntilClear)'
                           /\ At(d, UntilSubmit) => At(d, UntilSubmit)'
    BY <1>2 DEF SetMode
  <2> QED
    BY <1>2, <2>1 DEF SetMode, work, bt
<1>3. CASE DeletePaired(c)
  <2>1. \A d \in Callers : /\ At(d, UntilClear) => At(d, UntilClear)'
                           /\ At(d, UntilSubmit) => At(d, UntilSubmit)'
    BY <1>3 DEF DeletePaired
  <2> QED
    BY <1>3, <2>1 DEF DeletePaired, app, work
<1>4. CASE Stop(c)
  <2>1. CASE is_adv_running /\ adv' = "off" /\ pc'[c] = "stopped"
    <3>1. owed' => At(c, UntilClear)'
      BY <1>4, <2>1, StopEffect
    <3> QED
      BY <1>4, <2>1, <3>1, StopEffect
  <2>2. CASE UNCHANGED <<adv, owed>> /\ pc'[c] = AfterStop(c)
    <3>1. \A d \in Callers : At(d, UntilSubmit) => At(d, UntilSubmit)'
      BY <1>4, <2>2, StopEffect, AfterStopSteps
    <3>2. is_adv_running => adv # "off"
      BY <1>4, <2>2, StopEffect, AfterStopSteps
    <3> QED
      BY <1>4, <2>2, <3>1, <3>2, StopEffect
  <2> QED
    BY <1>4, <2>1, <2>2, StopEffect
<1>5. CASE Stopped(c)
  <2>1. \A d \in Callers : /\ At(d, UntilClear) => At(d, UntilSubmit)'
                           /\ At(d, UntilSubmit) => At(d, UntilSubmit)'
    BY <1>5, StoppedEffect, AfterStopSteps
  <2> QED
    <3>1. ~is_adv_running' /\ UNCHANGED <<delayed, queue, wq, link, adv, owed>>
      BY <1>5, StoppedEffect
    <3>2. owed /\ link = NoAddr /\ adv = "off" =>
            \/ delayed \/ queue # {} \/ wq \in InSwitch
            \/ \E d \in Callers : At(d, UntilClear) \/ At(d, UntilSubmit)
      BY DEF InSwitch
    <3>3. (\E d \in Callers : At(d, UntilClear) \/ At(d, UntilSubmit)) =>
            \E d \in Callers : At(d, UntilSubmit)'
      BY <2>1
    <3> QED
      BY <3>1, <3>2, <3>3 DEF InSwitch
<1>6. CASE Forget(c) \/ FindBond(c)
  <2>1. \A d \in Callers : /\ At(d, UntilClear) => At(d, UntilClear)'
                           /\ At(d, UntilSubmit) => At(d, UntilSubmit)'
    BY <1>6 DEF Forget, FindBond
  <2> QED
    BY <1>6, <2>1 DEF Forget, FindBond, work, bt
<1>7. CASE CheckRunning(c)
  <2>1. \A d \in Callers :
          /\ At(d, UntilClear) => At(d, UntilClear)'
          /\ ~is_adv_running /\ At(d, UntilSubmit) => At(d, UntilSubmit)'
    BY <1>7 DEF CheckRunning
  <2> QED
    BY <1>7, <2>1 DEF CheckRunning, app, work, bt
<1>8. CASE Submit(c)
  <2>1. \A d \in Callers : At(d, UntilClear) => At(d, UntilClear)'
    BY <1>8 DEF Submit
  <2>2. queue' # {} /\ ("switch_work" \in queue => "switch_work" \in queue')
    BY <1>8 DEF Submit
  <2> QED
    BY <1>8, <2>1, <2>2 DEF Submit, app, bt
<1>9. CASE Rearm(c) \/ ClearLast(c)
  <2>1. \A d \in Callers : /\ At(d, UntilClear) => At(d, UntilClear)'
                           /\ At(d, UntilSubmit) => At(d, UntilSubmit)'
    BY <1>9 DEF Rearm, ClearLast
  <2> QED
    BY <1>9, <2>1 DEF Rearm, ClearLast, app, work, bt
<1> QED
  BY <1>1, <1>2, <1>3, <1>4, <1>5, <1>6, <1>7, <1>8, <1>9 DEF Caller

\* So does the work queue: what it takes it carries on, and adv_work that skips
\* its turn has found a flag that other work will clear.
LEMMA CarryWorkQueue ==
  ASSUME RaceInv, WorkQueue
  PROVE  ClearCarriesOn' /\ SetCarriesOn'
<1> USE DEF RaceInv, ClearCarriesOn, SetCarriesOn, Silent, InSwitch
<1>0. UNCHANGED <<pc, cmd>>
  BY ThreadsUnchanged
<1>2. CASE AdvWorkSkips
  <2>1. "switch_work" \in queue => "switch_work" \in queue'
    BY <1>2 DEF AdvWorkSkips, Take
  <2> QED
    BY <1>0, <1>2, <2>1 DEF AdvWorkSkips, At, app, bt
<1>3. CASE AdvWorkStarts
  BY <1>3 DEF AdvWorkStarts, AdvKind
<1>4. CASE AdvWorkFails
  <2>1. owed' => link # NoAddr \/ adv # "off"
    BY <1>4 DEF AdvWorkFails, Accepts
  <2> QED
    BY <1>4, <2>1 DEF AdvWorkFails, bt
<1>5. CASE AdvWorkEnds
  BY <1>5 DEF AdvWorkEnds, LinkFollows, bt
<1>6. CASE SwitchStops
  <2>1. wq' \in {"stopped", "sleep"} /\ UNCHANGED <<is_adv_running, link, owed>>
    BY <1>6 DEF SwitchStops, app
  <2>2. is_adv_running => wq' = "stopped" \/ adv' # "off"
    BY <1>6 DEF SwitchStops, AdvStop
  <2> QED
    BY <2>1, <2>2
<1>7. CASE SwitchStopped
  BY <1>7 DEF SwitchStopped
<1>8. CASE SwitchResumes
  <2>1. UNCHANGED <<is_adv_running, delayed, link, adv, owed>>
    BY <1>8 DEF SwitchResumes, bt
  <2>2. link = NoAddr /\ ~is_adv_running => queue' # {}
    BY <1>8 DEF SwitchResumes, LinkFollows
  <2>3. wq # "stopped" /\ queue \subseteq queue'
    BY <1>8 DEF SwitchResumes
  <2> QED
    BY <1>0, <2>1, <2>2, <2>3 DEF At
<1> QED
  BY <1>2, <1>3, <1>4, <1>5, <1>6, <1>7, <1>8 DEF WorkQueue

\* So does time: a timer whose end the kernel drops belongs to the handler that
\* sleeps, and that one finds the flag clear.
LEMMA CarryTime ==
  ASSUME Prompt, RaceInv, Time
  PROVE  ClearCarriesOn' /\ SetCarriesOn'
<1> USE DEF RaceInv, Silent
<1>1. \A c \in Callers : /\ ~At(c, UntilClear)
                         /\ At(c, UntilSubmit) => At(c, UntilSubmit)'
  BY TimeEffect DEF CpuIdle, At, UntilClear, UntilSubmit
<1>0. UNCHANGED <<is_adv_running, link, adv, owed>> /\ queue \subseteq queue'
  BY TimeEffect
<1>2. wq \in InSwitch => wq = "sleep" /\ wq' \in InSwitch
  BY TimeEffect DEF CpuIdle, InSwitch
<1>3. ClearCarriesOn'
  <2>1. delayed => delayed' \/ queue' # {} \/ wq' \in InSwitch
    BY <1>2, TimeEffect DEF CancelEnds
  <2>2. (\E c \in Callers : At(c, UntilSubmit)) => \E c \in Callers : At(c, UntilSubmit)'
    BY <1>1 DEF At
  <2> QED
    BY <1>0, <1>2, <2>1, <2>2 DEF ClearCarriesOn, At, UntilSubmit, UntilClear, InSwitch
<1>4. is_adv_running /\ adv = "off" => ~canceling
  BY <1>2, TimeEffect DEF CpuIdle, CancelEnds, SleepFollows
<1>5. SetCarriesOn'
  <2>1. is_adv_running /\ adv = "off" /\ delayed => delayed' \/ "switch_work" \in queue'
    BY <1>4, TimeEffect
  <2>2. wq # "stopped"
    BY <1>2 DEF InSwitch
  <2> QED
    BY <1>0, <1>1, <1>2, <2>1, <2>2 DEF SetCarriesOn, At, UntilClear, InSwitch
<1> QED
  BY <1>3, <1>5

\* So do the callbacks: a link that ends arms the timer.
LEMMA CarryEvents ==
  ASSUME RaceInv, Callbacks \/ Reinit
  PROVE  ClearCarriesOn' /\ SetCarriesOn'
<1> USE DEF RaceInv, ClearCarriesOn, SetCarriesOn, Silent
<1>0. UNCHANGED <<pc, cmd>>
  BY ThreadsUnchanged
<1>2. ASSUME NEW p \in Peers, Connected(p) PROVE ClearCarriesOn' /\ SetCarriesOn'
  BY <1>2, ConstantsAssumption DEF Connected
<1>3. CASE DirectedTimeout \/ Disconnected
  BY <1>3 DEF DirectedTimeout, Disconnected
<1>4. CASE ConnectedEnds \/ SecurityChanged \/ Reinit
  BY <1>0, <1>4 DEF At, ConnectedEnds, SecurityChanged, Reinit, work, bt
<1>5. ASSUME NEW p \in Peers, ConnectFails(p) PROVE ClearCarriesOn' /\ SetCarriesOn'
  BY <1>5, ConstantsAssumption DEF ConnectFails
<1> QED
  BY <1>2, <1>3, <1>4, <1>5 DEF Callbacks

-----------------------------------------------------------------------------
\* Hence every step keeps the whole invariant.
LEMMA RaceStep ==
  ASSUME Prompt, RaceInv, [Next]_vars
  PROVE  RaceInv'
<1>1. TypeOK' /\ CancelEnds'
  BY TypeStep, CancelStep DEF RaceInv
<1>2. FlagFollows' /\ LinkFollows' /\ SleepFollows'
  BY FlagStep, LinkStep, SleepStep
<1>3. ClearCarriesOn' /\ SetCarriesOn'
  <2>1. CASE UNCHANGED vars
    BY <2>1 DEF RaceInv, ClearCarriesOn, SetCarriesOn, Silent, At, vars, app, work, bt
  <2> QED
    BY <2>1, CarryCaller, CarryWorkQueue, CarryTime, CarryEvents DEF Next
<1> QED
  BY <1>1, <1>2, <1>3 DEF RaceInv

LEMMA RaceInit == Init => RaceInv
BY TypeInit DEF Init, RaceInv, CancelEnds, FlagFollows, LinkFollows, SleepFollows,
   ClearCarriesOn, SetCarriesOn, Silent, At

\* An advertiser on the air is known to advertising_stop whenever nothing runs:
\* no interleaving of callers, work items and callbacks leaves one behind that
\* the next call could not stop.
THEOREM NoAdvertiserLost == Prompt => (Spec => []NoOrphan)
<1>1. RaceInv => NoOrphan
  BY DEF RaceInv, FlagFollows, NoOrphan, CpuIdle
<1>2. Prompt /\ RaceInv /\ [Next]_vars => RaceInv'
  BY RaceStep
<1>3. ASSUME Prompt PROVE Spec => []NoOrphan
  <2>1. RaceInv /\ [Next]_vars => RaceInv'
    BY <1>2, <1>3
  <2> QED
    BY <1>1, <2>1, RaceInit, PTL DEF Spec
<1> QED
  BY <1>3

\* Advertising that was asked for happens, or is on its way, until it is called
\* off: no interleaving lets every thread believe that another one advertises.
THEOREM NeverStranded == Prompt => (Spec => []NotStranded)
<1>1. RaceInv => NotStranded
  BY DEF RaceInv, ClearCarriesOn, SetCarriesOn, Silent, At, UntilClear, UntilSubmit,
     InSwitch, NotStranded, AdvPending
<1>2. Prompt /\ RaceInv /\ [Next]_vars => RaceInv'
  BY RaceStep
<1>3. ASSUME Prompt PROVE Spec => []NotStranded
  <2>1. RaceInv /\ [Next]_vars => RaceInv'
    BY <1>2, <1>3
  <2> QED
    BY <1>1, <2>1, RaceInit, PTL DEF Spec
<1> QED
  BY <1>3
-----------------------------------------------------------------------------
(* WakeupLeavesAir: from the mode to the radio. The flag is that of the      *)
(* advertiser on the air (FlagFollows), so that the handler which resets the *)
(* mode has always taken the advertiser off the air first.                   *)

SwitchSilent == Obedient /\ wq \in InSwitch => adv = "off"

AirInv == RaceInv /\ WakeupInv /\ SwitchSilent /\ WakeupLeavesAir

\* A reset of the mode that is on its way stays so until the handler ends: every
\* caller that cancels adv_mode_switch_work arms it again.
LEMMA ResetKept ==
  ASSUME TypeOK, CancelEnds, CallsKnown, TimedCalls, ResetPending, [Next]_vars,
         ~SwitchResumes
  PROVE  ResetPending'
<1> USE DEF TypeOK, ResetPending
<1>1. CASE UNCHANGED vars
  BY <1>1 DEF vars, app, work, Resets, InSwitch
<1>2. ASSUME NEW c \in Callers, Caller(c) PROVE ResetPending'
  <2> USE DEF GoTo
  <2>1. CASE TryStart(c)
    BY <2>1 DEF TryStart, Resets
  <2>2. CASE Rearm(c)
    <3>1. \A d \in Callers : Resets(d) => delayed' \/ Resets(d)'
      BY <2>2 DEF Rearm, Return, Resets, CallsKnown, TimedCalls
    <3> QED
      BY <2>2, <3>1 DEF Rearm
  <2>3. CASE ~TryStart(c) /\ ~Rearm(c)
    <3>1. UNCHANGED <<delayed, wq>> /\ ("switch_work" \in queue => "switch_work" \in queue')
      BY <1>2, <2>3 DEF Caller, SetMode, DeletePaired, Stop, Stopped, Forget, FindBond,
         CheckRunning, Submit, ClearLast, work
    <3>2. CASE SetMode(c)
      <4>1. \A d \in Callers : Resets(d) => Resets(d)'
        BY <3>2 DEF SetMode, Resets, CallsKnown, TimedCalls
      <4> QED
        BY <3>1, <4>1
    <3>3. CASE DeletePaired(c)
      <4>1. \A d \in Callers : Resets(d) => Resets(d)'
        BY <3>3 DEF DeletePaired, Resets
      <4> QED
        BY <3>1, <4>1
    <3>4. CASE Stop(c) \/ Stopped(c)
      <4>1. \A d \in Callers : Resets(d) => Resets(d)'
        BY <3>4 DEF Stop, Stopped, AfterStop, Resets
      <4> QED
        BY <3>1, <4>1
    <3>5. CASE Forget(c) \/ FindBond(c) \/ CheckRunning(c) \/ Submit(c)
      <4>1. \A d \in Callers : Resets(d) => Resets(d)'
        BY <3>5 DEF Forget, FindBond, CheckRunning, Submit, Resets
      <4> QED
        BY <3>1, <4>1
    <3>6. CASE ClearLast(c)
      <4>1. \A d \in Callers : Resets(d) => Resets(d)'
        BY <3>6 DEF ClearLast, Return, Resets
      <4> QED
        BY <3>1, <4>1
    <3> QED
      BY <1>2, <2>3, <3>2, <3>3, <3>4, <3>5, <3>6 DEF Caller
  <2> QED
    BY <2>1, <2>2, <2>3
<1>3. CASE WorkQueue
  <2>1. CASE SwitchStops \/ SwitchStopped
    BY <2>1 DEF SwitchStops, SwitchStopped, InSwitch
  <2>2. CASE AdvWorkSkips \/ AdvWorkStarts \/ AdvWorkFails \/ AdvWorkEnds
    <3>1. UNCHANGED <<delayed, pc, cmd>> /\ wq \notin InSwitch
      BY <2>2 DEF AdvWorkSkips, AdvWorkStarts, AdvWorkFails, AdvWorkEnds, Take, InSwitch
    <3>2. "switch_work" \in queue => "switch_work" \in queue'
      BY <2>2 DEF AdvWorkSkips, AdvWorkStarts, AdvWorkFails, AdvWorkEnds, Take
    <3> QED
      BY <3>1, <3>2 DEF Resets
  <2> QED
    BY <1>3, <2>1, <2>2 DEF WorkQueue
<1>4. CASE Time
  <2> PICK S \in SUBSET Waiting : Elapse(S)
    BY <1>4 DEF Time
  <2>1. \A d \in Callers : Resets(d) => Resets(d)'
    BY SleepersWake DEF Elapse, Resets
  <2>2. /\ wq \in InSwitch => wq' \in InSwitch
        /\ "switch_work" \in queue => "switch_work" \in queue'
    BY DEF Elapse, InSwitch
  <2>3. delayed => delayed' \/ "switch_work" \in queue' \/ wq' \in InSwitch
    BY <2>2 DEF Elapse, CancelEnds
  <2> QED
    BY <2>1, <2>2, <2>3
<1>5. CASE Callbacks \/ Reinit
  <2>1. UNCHANGED <<queue, wq, pc, cmd>> /\ (delayed => delayed')
    BY <1>5 DEF Callbacks, Connected, ConnectedEnds, DirectedTimeout, ConnectFails, Disconnected,
       SecurityChanged, Reinit, work
  <2> QED
    BY <2>1 DEF Resets, InSwitch
<1> QED
  BY <1>1, <1>2, <1>3, <1>4, <1>5 DEF Next

\* Only adv_work puts an advertiser on the air.
LEMMA OnlyWorkStarts ==
  ASSUME TypeOK, [Next]_vars
  PROVE  adv' \in {adv, "off"} \/ AdvWorkStarts
<1> USE DEF app, work, bt
<1>1. CASE UNCHANGED vars
  BY <1>1 DEF vars
<1>2. ASSUME NEW c \in Callers, Caller(c) PROVE adv' \in {adv, "off"}
  BY <1>2, StopEffect, StoppedEffect, OtherStatements
<1>3. CASE WorkQueue
  BY <1>3 DEF WorkQueue, AdvWorkSkips, AdvWorkFails, AdvWorkEnds, SwitchStops, AdvStop,
     SwitchStopped, SwitchResumes
<1>4. CASE Time
  BY <1>4 DEF Time, Elapse
<1>5. CASE Callbacks \/ Reinit
  BY <1>5 DEF Callbacks, Connected, ConnectedEnds, DirectedTimeout, ConnectFails, Disconnected,
     SecurityChanged, Reinit
<1> QED
  BY <1>1, <1>2, <1>3, <1>4, <1>5 DEF Next

\* The handler runs on the thread of adv_work, and its first call leaves nothing on
\* the air when the controller obeys.
LEMMA SwitchSilentStep ==
  ASSUME RaceInv, SwitchSilent, [Next]_vars
  PROVE  SwitchSilent'
<1> SUFFICES ASSUME Obedient, wq' \in InSwitch PROVE adv' = "off"
  BY DEF SwitchSilent, Obedient
<1> USE DEF InSwitch
<1>1. CASE wq \in InSwitch
  <2>1. ~AdvWorkStarts /\ adv = "off"
    BY <1>1 DEF AdvWorkStarts, Take, SwitchSilent
  <2> QED
    BY <2>1, OnlyWorkStarts DEF RaceInv
<1>2. CASE wq \notin InSwitch
  <2>1. SwitchStops
    <3>1. wq' # wq
      BY <1>2
    <3>2. CASE Time
      BY <1>2, <3>1, <3>2, ConstantsAssumption DEF Time, Elapse, Waiting, Workq, Timer
    <3>3. ~(\E c \in Callers : Caller(c)) /\ ~Callbacks /\ ~Reinit /\ ~UNCHANGED vars
      <4>1. ASSUME NEW c \in Callers, Caller(c) PROVE wq' = wq
        BY <4>1 DEF Caller, TryStart, SetMode, DeletePaired, Stop, Stopped, Forget,
           FindBond, CheckRunning, Submit, Rearm, ClearLast, work
      <4>2. Callbacks \/ Reinit \/ UNCHANGED vars => wq' = wq
        BY DEF Callbacks, Connected, ConnectedEnds, DirectedTimeout, ConnectFails, Disconnected,
           SecurityChanged, Reinit, vars, work
      <4> QED
        BY <3>1, <4>1, <4>2
    <3>4. CASE WorkQueue
      BY <1>2, <3>1, <3>4 DEF WorkQueue, AdvWorkSkips, AdvWorkFails, AdvWorkStarts,
         AdvWorkEnds, SwitchStopped, SwitchResumes
    <3> QED
      BY <3>2, <3>3, <3>4 DEF Next
  <2> QED
    BY <2>1 DEF SwitchStops, Take, AdvStop, Obedient, RaceInv, FlagFollows
<1> QED
  BY <1>1, <1>2

\* An advertiser that no host can connect to goes on the air only in wakeup mode, and
\* what resets the mode takes it off the air before.
LEMMA AirStep ==
  ASSUME AirInv, [Next]_vars
  PROVE  WakeupLeavesAir'
<1> USE DEF AirInv
<1> SUFFICES ASSUME TimedCalls, Obedient, adv' = "wakeup" PROVE ResetPending'
  BY DEF WakeupLeavesAir, TimedCalls, Obedient
<1>1. ResetPending
  <2>1. CASE AdvWorkStarts
    BY <2>1 DEF AdvWorkStarts, AdvKind, WakeupInv, WakeupBounded, TimedWakeups, TimedCalls
  <2>2. CASE ~AdvWorkStarts
    BY <2>2, OnlyWorkStarts DEF WakeupInv, WakeupLeavesAir
  <2> QED
    BY <2>1, <2>2
<1>2. ~SwitchResumes
  BY DEF SwitchResumes, SwitchSilent, InSwitch, bt
<1> QED
  BY <1>1, <1>2, ResetKept DEF WakeupInv

\* With timed calls and an obedient controller, an advertiser that no host can connect
\* to is never left on the air: at any moment of any interleaving the handler that
\* takes it off is armed, queued or running, or a caller is about to arm it.
THEOREM WakeupAlwaysLeavesAir == Prompt => (Spec => []WakeupLeavesAir)
<1>1. Init => AirInv
  BY RaceInit, TypeInit DEF Init, AirInv, WakeupInv, CancelEnds, CallsKnown,
     WakeupBounded, SwitchSilent, WakeupLeavesAir, InSwitch
<1>2. ASSUME Prompt, AirInv, [Next]_vars PROVE AirInv'
  <2>1. RaceInv'
    BY <1>2, RaceStep DEF AirInv
  <2>2. WakeupInv'
    BY <1>2, TypeStep, CancelStep, CallsStep, WakeupStep DEF AirInv, WakeupInv
  <2>3. SwitchSilent' /\ WakeupLeavesAir'
    BY <1>2, SwitchSilentStep, AirStep DEF AirInv
  <2> QED
    BY <2>1, <2>2, <2>3 DEF AirInv
<1>3. ASSUME Prompt PROVE Spec => []WakeupLeavesAir
  <2>1. AirInv /\ [Next]_vars => AirInv'
    BY <1>2, <1>3
  <2>2. AirInv => WakeupLeavesAir
    BY DEF AirInv
  <2> QED
    BY <1>1, <2>1, <2>2, PTL DEF Spec
<1> QED
  BY <1>3
=============================================================================
