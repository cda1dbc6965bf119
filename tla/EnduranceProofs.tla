--------------------------- MODULE EnduranceProofs ---------------------------
(***************************************************************************)
(* Proofs about Endurance: the loop and the remote control each behave in  *)
(* the composition as they do alone, so that what is proved of each holds, *)
(* and what follows for the two together.                                  *)
(***************************************************************************)
EXTENDS Endurance, BleAdvProofs

LoopThms == INSTANCE LooperProofs

-----------------------------------------------------------------------------
(* The composition and its parts. *)

\* No statement of a call changes g_btrc_st: bt_ck sees of the link what the
\* callbacks of the Bluetooth thread tell it.
LEMMA CallLeavesLink ==
  ASSUME NEW c \in Callers, Caller(c)
  PROVE  g_btrc_st' = g_btrc_st
BY DEF Caller, TryStart, SetMode, DeletePaired, Stop, Stopped, Forget, FindBond,
   CheckRunning, Submit, Rearm, ClearLast, app

\* Every step of the composition is a step of the remote control, or leaves it alone.
LEMMA RemoteSteps ==
  ASSUME [LoopNext]_all
  PROVE  [Next]_vars
<1>1. CASE UNCHANGED all \/ Shell \/ BetweenCalls
  BY <1>1 DEF all, Shell, BetweenCalls
<1>2. CASE CallBegins \/ InCall \/ CallReturns
  <2>1. Caller(BtCk)
    BY <1>2 DEF CallBegins, InCall, CallReturns, Caller
  <2> QED
    BY <2>1, EnduranceAssumption DEF Next
<1>3. CASE Others
  BY <1>3 DEF Others, Sleeps, Next
<1> QED
  BY <1>1, <1>2, <1>3 DEF LoopNext, Thread

\* The remote control behaves in the composition as BleAdv says: the loop is one of
\* its callers and nothing more. What is proved of BleAdv holds of the composition.
THEOREM RemoteAsAlone == LoopSpec => Spec
<1>1. LoopInit => Init
  BY DEF LoopInit
<1>2. [LoopNext]_all => [Next]_vars
  BY RemoteSteps
<1> QED
  BY <1>1, <1>2, PTL DEF LoopSpec, Spec

\* Every step of the composition is one of the loop, or leaves the loop alone: what
\* the callbacks do to g_btrc_st is the step Link.
LEMMA LoopSteps ==
  ASSUME [LoopNext]_all
  PROVE  [Loop!Next]_(Loop!vars)
<1> USE DEF Loop!vars, loop
<1>1. CASE UNCHANGED all
  BY <1>1 DEF all, vars, app, secure
<1>2. CASE Shell
  BY <1>2 DEF Shell, Loop!Next
<1>3. CASE BetweenCalls
  BY <1>3 DEF BetweenCalls, Loop!Next, Loop!Thread
<1>4. CASE CallReturns
  BY <1>4 DEF CallReturns, Loop!Next, Loop!Thread
<1>5. CASE UNCHANGED loop
  <2>1. secure' \in BOOLEAN /\ secure \in BOOLEAN
    BY DEF secure
  <2>2. CASE secure' = secure
    BY <1>5, <2>2
  <2>3. CASE secure' = ~secure
    BY <1>5, <2>3 DEF Loop!Next, Loop!Link
  <2> QED
    BY <2>1, <2>2, <2>3
<1> QED
  BY <1>1, <1>2, <1>3, <1>4, <1>5 DEF LoopNext, Thread, CallBegins, InCall, Others, Sleeps

\* The loop behaves in the composition as Looper says: its call of
\* try_advertising_start, which takes many steps here and lets every other thread run
\* in between, is one step to it, and the callbacks are its environment.
THEOREM LoopAsAlone == LoopSpec => ImplementsLooper
<1>1. LoopInit => Loop!Init
  BY DEF LoopInit
<1>2. [LoopNext]_all => [Loop!Next]_(Loop!vars)
  BY LoopSteps
<1> QED
  BY <1>1, <1>2, PTL DEF LoopSpec, ImplementsLooper, Loop!Spec

\* What is proved of Looper is proved of the loop here.
LEMMA SameLoop ==
  /\ Loop!Init <=> LoopThms!Init
  /\ [Loop!Next]_(Loop!vars) <=> [LoopThms!Next]_(LoopThms!vars)
  /\ Loop!TypeOK <=> LoopThms!TypeOK
  /\ Loop!StepsLeft = LoopThms!StepsLeft
  /\ Loop!vars = LoopThms!vars
BY DEF Loop!Init, LoopThms!Init, Loop!vars, LoopThms!vars, Loop!TypeOK, LoopThms!TypeOK,
   Loop!Steps, LoopThms!Steps, Loop!StepsLeft, LoopThms!StepsLeft,
   Loop!Next, LoopThms!Next, Loop!Thread, LoopThms!Thread, Loop!Start, LoopThms!Start,
   Loop!Stop, LoopThms!Stop, Loop!Blocked, LoopThms!Blocked, Loop!Link, LoopThms!Link,
   Loop!Begin, LoopThms!Begin, Loop!SleepThen, LoopThms!SleepThen,
   Loop!SwitchOff, LoopThms!SwitchOff, Loop!SwitchOn, LoopThms!SwitchOn,
   Loop!Wakeup, LoopThms!Wakeup, Loop!Connected, LoopThms!Connected,
   Loop!NotConnected, LoopThms!NotConnected, Loop!WakeupAgain, LoopThms!WakeupAgain,
   Loop!Second, LoopThms!Second

\* Every variable keeps its type, that of the remote control and that of the loop.
THEOREM LoopTyped == LoopSpec => []LoopTypeOK
<1>1. LoopSpec => []TypeOK
  BY RemoteAsAlone, TypeCorrect
<1>2. LoopThms!Spec => []LoopThms!TypeOK
  BY LoopThms!LooperTyped, EnduranceAssumption
<1>3. LoopSpec => LoopThms!Spec
  BY LoopAsAlone, SameLoop, PTL DEF ImplementsLooper, Loop!Spec, LoopThms!Spec
<1>4. TypeOK /\ LoopThms!TypeOK => LoopTypeOK
  BY SameLoop DEF LoopTypeOK
<1> QED
  BY <1>1, <1>2, <1>3, <1>4, PTL

-----------------------------------------------------------------------------
(* QuietAfterStop. The loop sends what it has decided to send while the flag *)
(* was set: the shell, which clears it, runs only while bt_ck blocks, and    *)
(* between the decision and the call nothing blocks.                         *)

QuietInv ==
  /\ pc[BtCk] # "idle" => Calling
  /\ Calling /\ pc[BtCk] = "idle" => g_bt_ck_running
  /\ bt_ck = "check" /\ try_wakeup_cnt = 0 => g_bt_ck_running
  /\ after # "again"      \* no sleep comes right before the call in the wait

\* The bt_ck thread runs its own statements only.
LEMMA OthersLeaveBtCk ==
  ASSUME TypeOK, Others
  PROVE  (pc'[BtCk] = "idle") <=> (pc[BtCk] = "idle")
<1> USE EnduranceAssumption DEF TypeOK
<1>1. ASSUME NEW c \in Callers \ {BtCk}, Caller(c) PROVE pc'[BtCk] = pc[BtCk]
  BY <1>1 DEF Caller, TryStart, SetMode, DeletePaired, Stop, Stopped, Forget, FindBond,
     CheckRunning, Submit, Rearm, ClearLast, GoTo, Return
<1>2. CASE WorkQueue \/ Callbacks \/ Reinit
  BY <1>2, ThreadsUnchanged
<1>3. CASE Time
  BY <1>3, SleepersWake DEF Time, Elapse
<1> QED
  BY <1>1, <1>2, <1>3 DEF Others, Sleeps

\* A call is over when its last statement is.
LEMMA StatementsOfCall ==
  ASSUME TypeOK
  PROVE  /\ CallBegins => pc[BtCk] = "idle" /\ pc'[BtCk] # "idle"
         /\ InCall => pc[BtCk] # "idle" /\ pc'[BtCk] # "idle"
         /\ CallReturns => pc[BtCk] # "idle" /\ pc'[BtCk] = "idle"
<1> USE EnduranceAssumption DEF TypeOK, GoTo, Return
<1>1. CallBegins => pc[BtCk] = "idle" /\ pc'[BtCk] # "idle"
  BY DEF CallBegins, TryStart
<1>2. InCall => pc[BtCk] # "idle" /\ pc'[BtCk] # "idle"
  BY DEF InCall, SetMode, Stop, Stopped, Forget, FindBond, CheckRunning, Submit, AfterStop
<1>3. CallReturns => pc[BtCk] # "idle" /\ pc'[BtCk] = "idle"
  BY DEF CallReturns, Rearm
<1> QED
  BY <1>1, <1>2, <1>3

LEMMA QuietStep ==
  ASSUME TypeOK, QuietInv, [LoopNext]_all
  PROVE  QuietInv'
<1> USE DEF QuietInv, Calling
<1>1. CASE UNCHANGED all
  BY <1>1 DEF all, vars, loop
<1>2. CASE Shell
  BY <1>2 DEF Shell, LoopBlocks, Loop!Blocked, Loop!Start, Loop!Stop, vars
<1>3. CASE BetweenCalls
  <2>1. UNCHANGED pc
    BY <1>3 DEF BetweenCalls, vars
  <2>2. CASE Loop!Begin \/ Loop!SwitchOff \/ Loop!SwitchOn
    BY <2>1, <2>2 DEF Loop!Begin, Loop!SwitchOff, Loop!SwitchOn, Loop!SleepThen
  <2>3. CASE Loop!Connected
    BY <2>1, <2>3 DEF Loop!Connected, Loop!SleepThen
  <2>4. CASE Loop!NotConnected
    BY <2>1, <2>4 DEF Loop!NotConnected, Loop!SleepThen
  <2>5. CASE Loop!Second
    BY <2>1, <2>5 DEF Loop!Second
  <2> QED
    BY <1>3, <2>2, <2>3, <2>4, <2>5 DEF BetweenCalls
<1>4. CASE CallBegins \/ InCall
  BY <1>4, StatementsOfCall DEF CallBegins, InCall, loop
<1>5. CASE CallReturns
  <2>1. pc'[BtCk] = "idle"
    BY <1>5, StatementsOfCall
  <2>2. CASE Loop!Wakeup
    <3>1. bt_ck' = "check" /\ try_wakeup_cnt' = 1 /\ after' = after
      BY <2>2, EnduranceAssumption DEF Loop!Wakeup
    <3> QED
      BY <2>1, <3>1
  <2>3. CASE Loop!WakeupAgain
    BY <2>1, <2>3 DEF Loop!WakeupAgain, Loop!SleepThen
  <2> QED
    BY <1>5, <2>2, <2>3 DEF CallReturns
<1>6. CASE Others
  BY <1>6, OthersLeaveBtCk DEF Others, Sleeps, loop
<1> QED
  BY <1>1, <1>2, <1>3, <1>4, <1>5, <1>6 DEF LoopNext, Thread

\* After auto_reboot_stop the loop begins no call of try_advertising_start any more,
\* wherever the command reached it and however the statements of the call in hand
\* are interleaved with it.
THEOREM StoppedIsQuiet == LoopSpec => QuietAfterStop
<1> DEFINE Quiet == ~g_bt_ck_running /\ pc[BtCk] = "idle" => pc'[BtCk] = "idle"
<1>1. LoopInit => QuietInv
  BY EnduranceAssumption DEF LoopInit, Init, Loop!Init, QuietInv, Calling
<1>2. TypeOK /\ QuietInv /\ [LoopNext]_all => QuietInv'
  BY QuietStep
<1>3. TypeOK /\ QuietInv /\ [LoopNext]_all => [Quiet]_all
  <2> SUFFICES ASSUME TypeOK, QuietInv, LoopNext, ~g_bt_ck_running, pc[BtCk] = "idle"
               PROVE  pc'[BtCk] = "idle"
    OBVIOUS
  <2>1. CASE Shell \/ BetweenCalls
    BY <2>1 DEF Shell, BetweenCalls, vars
  <2>2. ~CallBegins
    BY DEF CallBegins, QuietInv
  <2> QED
    BY <2>1, <2>2, StatementsOfCall, OthersLeaveBtCk DEF LoopNext, Thread
<1>4. LoopSpec => []TypeOK
  BY RemoteAsAlone, TypeCorrect
<1> QED
  BY <1>1, <1>2, <1>3, <1>4, PTL DEF LoopSpec, QuietAfterStop

-----------------------------------------------------------------------------
(* WaitsOnAir. The wait begins with a call, which asks for advertising, and  *)
(* nobody calls it off: NotStranded does the rest.                           *)

AskedFor == NotCalledOff /\ (Waits \/ pc[BtCk] # "idle") => owed

\* Only delete_paired and a controller that refuses call advertising off.
LEMMA OwedStays ==
  ASSUME TypeOK, CallsKnown, NotCalledOff, owed, [Next]_vars
  PROVE  owed'
<1>1. CASE UNCHANGED vars \/ Time \/ Reinit
  BY <1>1 DEF vars, Time, Elapse, Reinit
<1>2. ASSUME NEW c \in Callers, Caller(c) PROVE owed'
  <2>1. CASE Stop(c)
    <3>1. cmd[c] \in Commands[c] /\ Commands[c] \subseteq Command
      BY <2>1, ConstantsAssumption DEF Stop, CallsKnown
    <3>2. cmd[c].op = "adv"
      BY <3>1 DEF NotCalledOff, Command
    <3> QED
      BY <2>1, <3>2 DEF Stop
  <2>2. CASE ~Stop(c)
    BY <1>2, <2>2 DEF Caller, TryStart, SetMode, DeletePaired, Stopped, Forget, FindBond,
       CheckRunning, Submit, Rearm, ClearLast
  <2> QED
    BY <2>1, <2>2
<1>3. CASE WorkQueue
  BY <1>3 DEF WorkQueue, AdvWorkSkips, AdvWorkStarts, AdvWorkFails, AdvWorkEnds,
     SwitchStops, SwitchStopped, SwitchResumes, NotCalledOff, Obedient
<1>4. CASE Callbacks
  BY <1>4 DEF Callbacks, Connected, ConnectedEnds, DirectedTimeout, ConnectFails, Disconnected,
     SecurityChanged, NotCalledOff, Obedient
<1> QED
  BY <1>1, <1>2, <1>3, <1>4 DEF Next

\* The loop comes to its wait only by a call.
LEMMA AskedStep ==
  ASSUME TypeOK, CallsKnown, QuietInv, AskedFor, [LoopNext]_all
  PROVE  AskedFor'
<1> SUFFICES ASSUME NotCalledOff, (Waits \/ pc[BtCk] # "idle")'
             PROVE  owed'
  BY DEF AskedFor, NotCalledOff, Obedient
<1>1. CASE Waits \/ pc[BtCk] # "idle"
  BY <1>1, RemoteSteps, OwedStays DEF AskedFor
<1>2. CASE ~Waits /\ pc[BtCk] = "idle"
  <2>1. CASE CallBegins
    BY <2>1 DEF CallBegins, TryStart
  <2>2. CASE BetweenCalls
    <3>1. UNCHANGED pc
      BY <2>2 DEF BetweenCalls, vars
    <3> QED
      BY <1>2, <2>2, <3>1 DEF QuietInv, BetweenCalls, Loop!Begin, Loop!SwitchOff, Loop!SwitchOn,
         Loop!SleepThen, Loop!Connected, Loop!NotConnected, Loop!Second, Waits
  <2>3. CASE Shell
    BY <1>2, <2>3 DEF Shell, Loop!Start, Loop!Stop, Waits, vars
  <2>4. CASE InCall \/ CallReturns
    BY <1>2, <2>4, StatementsOfCall
  <2>5. CASE Others
    BY <1>2, <2>5, OthersLeaveBtCk DEF Others, Sleeps, loop, Waits
  <2>6. CASE UNCHANGED all
    BY <1>2, <2>6 DEF all, vars, loop, Waits
  <2> QED
    BY <2>1, <2>2, <2>3, <2>4, <2>5, <2>6 DEF LoopNext, Thread
<1> QED
  BY <1>1, <1>2

\* The endurance loop never waits for a host that cannot come: as long as it waits
\* without a link, the remote control is on the air or about to be, whatever the
\* handler, the callbacks and the other callers do.
THEOREM WaitIsOnAir == Prompt => (LoopSpec => []WaitsOnAir)
<1> DEFINE WaitInv == TypeOK /\ CallsKnown /\ QuietInv /\ AskedFor
<1>1. LoopInit => WaitInv
  BY TypeInit, EnduranceAssumption
  DEF LoopInit, Init, Loop!Init, CallsKnown, QuietInv, Calling, AskedFor, Waits
<1>2. WaitInv /\ [LoopNext]_all => WaitInv'
  BY RemoteSteps, TypeStep, CallsStep, QuietStep, AskedStep
<1>3. AskedFor /\ NotStranded => WaitsOnAir
  BY DEF AskedFor, NotStranded, WaitsOnAir
<1>4. ASSUME Prompt PROVE LoopSpec => []WaitsOnAir
  <2>1. LoopSpec => []NotStranded
    BY <1>4, RemoteAsAlone, NeverStranded
  <2> QED
    BY <1>1, <1>2, <1>3, <2>1, PTL DEF LoopSpec
<1> QED
  BY <1>4
=============================================================================
