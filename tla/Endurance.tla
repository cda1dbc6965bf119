------------------------------ MODULE Endurance ------------------------------
(***************************************************************************)
(* The endurance loop at work on the remote control: the bt_ck thread of   *)
(* Looper is one of the callers of BleAdv. What Looper takes for one step, *)
(* its call of try_advertising_start, is here the run of statements that   *)
(* BleAdv has for it, interleaved with the shell, the work queue and the   *)
(* Bluetooth callbacks; and what Looper takes for granted, that g_btrc_st  *)
(* may change at any time, is here what the callbacks do to it.            *)
(***************************************************************************)
EXTENDS BleAdv

CONSTANTS Retry, SwitchPause, ConnectedPause    \* as in Looper

VARIABLES
  bt_ck_run_sem, g_bt_ck_running,               \* as in Looper
  bt_ck, time_s, after, try_wakeup_cnt

BtCk == "bt_ck"     \* the name of the bt_ck thread among the callers

\* Both calls of the loop are try_advertising_start(true, BLERC_WAKEUP_TIME_S).
Wakeups == {[op |-> "adv", wakeup |-> TRUE, timed |-> TRUE]}

ASSUME EnduranceAssumption ==
  /\ BtCk \in Callers /\ Commands[BtCk] = Wakeups
  /\ Retry \in Nat /\ Retry > 1
  /\ SwitchPause \in Nat /\ ConnectedPause \in Nat

secure == g_btrc_st = "SECURITY_LV_OK"

Loop == INSTANCE Looper

loop == <<bt_ck_run_sem, g_bt_ck_running, bt_ck, time_s, after, try_wakeup_cnt>>
all  == <<vars, loop>>

LoopInit == Init /\ Loop!Init

-----------------------------------------------------------------------------
\* The loop is about to call try_advertising_start, or inside that call.
Calling == bt_ck \in {"wakeup", "again"}

\* The bt_ck thread has nothing to run before it is called back.
LoopBlocks == Loop!Blocked /\ (Calling => pc[BtCk] # "idle")

\* auto_reboot_start and auto_reboot_stop, run by the shell between its other commands.
Shell ==
  /\ \E c \in Callers \ {BtCk} : pc[c] = "idle"
  /\ LoopBlocks
  /\ UNCHANGED vars
  /\ Loop!Start \/ Loop!Stop

\* What the loop does between its calls; its sleep of a second ends as the other
\* sleeps do.
BetweenCalls ==
  /\ UNCHANGED vars
  /\ \/ Loop!Begin \/ Loop!SwitchOff \/ Loop!SwitchOn
     \/ Loop!Connected \/ Loop!NotConnected
     \/ (Prompt => CpuIdle) /\ Loop!Second

\* Its call of try_advertising_start begins, goes on, and returns.
CallBegins == Calling /\ TryStart(BtCk) /\ UNCHANGED loop

InCall ==
  /\ SetMode(BtCk) \/ Stop(BtCk) \/ Stopped(BtCk) \/ Forget(BtCk) \/ FindBond(BtCk)
       \/ CheckRunning(BtCk) \/ Submit(BtCk)
  /\ UNCHANGED loop

\* Mutation: the count of the last wait is kept (a static try_wakeup_cnt).
CallReturnsKeepsCount ==
  /\ Rearm(BtCk)
  /\ \/ /\ bt_ck = "wakeup" /\ bt_ck' = "check"
        /\ UNCHANGED <<bt_ck_run_sem, g_bt_ck_running, time_s, after, try_wakeup_cnt>>
     \/ Loop!WakeupAgain

CallReturns == Rearm(BtCk) /\ (Loop!Wakeup \/ Loop!WakeupAgain)

Thread == BetweenCalls \/ CallBegins \/ InCall \/ CallReturns

\* The rest of ble_rc.c.
Sleeps == Time /\ (Prompt => LoopBlocks) /\ UNCHANGED loop

Others ==
  \/ Sleeps
  \/ /\ \/ \E c \in Callers \ {BtCk} : Caller(c)
        \/ WorkQueue \/ Callbacks \/ Reinit
     /\ UNCHANGED loop

LoopNext == Shell \/ Thread \/ Others

LoopSpec == LoopInit /\ [][LoopNext]_all
-----------------------------------------------------------------------------
(* Fairness: that of BleAdv, and the bt_ck thread runs. A sleep of the loop   *)
(* ends at the moments at which the other sleeps do.                          *)

Alone(A) == A /\ UNCHANGED loop

LoopFairness ==
  /\ SF_all(BetweenCalls) /\ WF_all(CallBegins) /\ WF_all(InCall) /\ WF_all(CallReturns)
  /\ \A c \in Callers \ {BtCk} : WF_all(Alone(Running(c)))
  /\ WF_all(Alone(WorkQueue)) /\ SF_all(Alone(SwitchStops))
  /\ WF_all(Alone(ConnectedEnds)) /\ WF_all(Alone(DirectedTimeout))
  /\ \A t \in Callers \cup {Workq, Timer} :
       SF_all((\E S \in SUBSET Waiting : t \in S /\ Elapse(S)) /\ Sleeps)

FairLoopSpec == LoopSpec /\ LoopFairness

-----------------------------------------------------------------------------
(* Properties. *)

LoopTypeOK == TypeOK /\ Loop!TypeOK

\* Interleaved with everything that may happen to the remote control meanwhile, the
\* loop is the one that Looper describes: a call that is not over is no step of it.
ImplementsLooper == Loop!Spec

\* Advertising is called off by nobody: delete_paired is not used, and the
\* controller obeys.
NotCalledOff == Obedient /\ \A c \in Callers : \A k \in Commands[c] : k.op # "delete"

\* The loop is inside __wait_rc_connected.
Waits == bt_ck \in {"check", "again"} \/ (bt_ck = "sleep" /\ after = "check")

\* A loop that waits for the host to connect does not wait in vain: there is a link,
\* or the remote control is on the air, or about to be, whatever the handler, the
\* callbacks and the shell have done since the call that the wait began with.
WaitsOnAir ==
  NotCalledOff /\ Waits /\ link = NoAddr => adv # "off" \/ AdvPending

\* After auto_reboot_stop the loop sends no wakeup any more, but for the one in hand.
QuietAfterStop ==
  [][~g_bt_ck_running /\ pc[BtCk] = "idle" => pc'[BtCk] = "idle"]_all

\* A stopped endurance test leaves the remote control as it has to be left: the loop
\* is at rest, wherever the stop met it, its call included, and wakeup mode is over,
\* unless the loop was started again or the shell has sent another command.
StopSettles ==
  ~g_bt_ck_running ~>
    (bt_ck_run_sem = 1 \/ (bt_ck = "wait" /\ ~g_wakeup_adv_mode)
       \/ \E c \in Callers \ {BtCk} : cmd[c].op # "none")
=============================================================================
