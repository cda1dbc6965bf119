------------------------------- MODULE Looper -------------------------------
(***************************************************************************)
(* The bt_ck thread of ble_rc.c: the endurance loop that switches the host *)
(* off and on, wakes it up and waits until it has connected, started and   *)
(* stopped by the shell commands auto_reboot_start and auto_reboot_stop.   *)
(* bt_ck has the higher priority: what it does without blocking is one     *)
(* step, and the shell runs while it sleeps, waits or is on the network.   *)
(***************************************************************************)
EXTENDS Naturals

CONSTANTS
  Retry,            \* __wait_rc_connected wakes the host up every Retry tries
  SwitchPause,      \* what bt_ck_k_sleep is given after each switch of the host
  ConnectedPause    \* what it is given when the host has connected

ASSUME RetryAssumption ==
  /\ Retry \in Nat /\ Retry > 1
  /\ SwitchPause \in Nat /\ ConnectedPause \in Nat

VARIABLES
  bt_ck_run_sem,      \* the semaphore, of limit 1
  g_bt_ck_running,
  bt_ck,              \* the step of the bt_ck thread
  time_s, after,      \* bt_ck_k_sleep: its argument counted down, the step after it
  try_wakeup_cnt,     \* modulo Retry, which is all that is used of it
  secure              \* g_btrc_st = BTRC_ST_SECURITY_LV_OK

vars == <<bt_ck_run_sem, g_bt_ck_running, bt_ck, time_s, after, try_wakeup_cnt, secure>>

Steps == {"wait", "off", "on", "wakeup", "check", "again", "sleep"}

TypeOK ==
  /\ bt_ck_run_sem \in 0 .. 1
  /\ g_bt_ck_running \in BOOLEAN
  /\ bt_ck \in Steps
  /\ time_s \in Nat
  /\ after \in Steps
  /\ try_wakeup_cnt \in 0 .. Retry - 1
  /\ secure \in BOOLEAN

Init ==
  /\ bt_ck_run_sem = 0 /\ g_bt_ck_running = FALSE
  /\ bt_ck = "wait" /\ after = "wait" /\ time_s = 0
  /\ try_wakeup_cnt = 0 /\ secure = FALSE

-----------------------------------------------------------------------------
(* auto_reboot_start, auto_reboot_stop, and the callbacks of the link. *)

\* The shell gets the processor only while bt_ck blocks.
Blocked == bt_ck # "check" /\ (bt_ck = "wait" => bt_ck_run_sem = 0)

Start ==
  /\ Blocked
  /\ bt_ck_run_sem' = 1
  /\ UNCHANGED <<g_bt_ck_running, bt_ck, time_s, after, try_wakeup_cnt, secure>>

Stop ==
  /\ Blocked
  /\ g_bt_ck_running' = FALSE
  /\ UNCHANGED <<bt_ck_run_sem, bt_ck, time_s, after, try_wakeup_cnt, secure>>

Link ==
  /\ secure' = ~secure
  /\ UNCHANGED <<bt_ck_run_sem, g_bt_ck_running, bt_ck, time_s, after, try_wakeup_cnt>>

-----------------------------------------------------------------------------
(* The bt_ck thread. *)

\* bt_ck_k_sleep(n), which lasts n + 1 seconds.
SleepThen(n, step) ==
  /\ bt_ck' = "sleep" /\ time_s' = n /\ after' = step

\* k_sem_take, and _bt_ck_looper_3 up to its first blocking call.
Begin ==
  /\ bt_ck = "wait" /\ bt_ck_run_sem = 1
  /\ bt_ck_run_sem' = 0
  /\ g_bt_ck_running' = TRUE
  /\ bt_ck' = "off"
  /\ UNCHANGED <<time_s, after, try_wakeup_cnt, secure>>

SwitchOff ==
  /\ bt_ck = "off"
  /\ SleepThen(SwitchPause, "on")
  /\ UNCHANGED <<bt_ck_run_sem, g_bt_ck_running, try_wakeup_cnt, secure>>

SwitchOn ==
  /\ bt_ck = "on"
  /\ SleepThen(SwitchPause, "wakeup")
  /\ UNCHANGED <<bt_ck_run_sem, g_bt_ck_running, try_wakeup_cnt, secure>>

\* try_advertising_start(true, ..) at the head of __wait_rc_connected.
Wakeup ==
  /\ bt_ck = "wakeup"
  /\ bt_ck' = "check"
  /\ try_wakeup_cnt' = 1 % Retry
  /\ UNCHANGED <<bt_ck_run_sem, g_bt_ck_running, time_s, after, secure>>

\* The condition of the loop in __wait_rc_connected, and what follows it.
Connected ==
  /\ bt_ck = "check" /\ secure
  /\ IF g_bt_ck_running THEN SleepThen(ConnectedPause, "off")
                        ELSE bt_ck' = "wait" /\ UNCHANGED <<time_s, after>>
  /\ UNCHANGED <<bt_ck_run_sem, g_bt_ck_running, try_wakeup_cnt, secure>>

\* Mutation: the wait goes on without counting the try.
NotConnectedUncounted ==
  /\ bt_ck = "check" /\ ~secure
  /\ IF try_wakeup_cnt = 0 THEN bt_ck' = "again" /\ UNCHANGED <<time_s, after>>
                           ELSE SleepThen(1, "check")
  /\ UNCHANGED <<bt_ck_run_sem, g_bt_ck_running, try_wakeup_cnt, secure>>

NotConnected ==
  /\ bt_ck = "check" /\ ~secure
  /\ IF try_wakeup_cnt = 0 THEN bt_ck' = "again" /\ UNCHANGED <<time_s, after>>
                           ELSE SleepThen(1, "check")
  /\ try_wakeup_cnt' = (try_wakeup_cnt + 1) % Retry
  /\ UNCHANGED <<bt_ck_run_sem, g_bt_ck_running, secure>>

\* try_advertising_start(true, ..) in the loop of __wait_rc_connected.
WakeupAgain ==
  /\ bt_ck = "again"
  /\ SleepThen(1, "check")
  /\ UNCHANGED <<bt_ck_run_sem, g_bt_ck_running, try_wakeup_cnt, secure>>

\* Mutation: only the flag seen at the start of bt_ck_k_sleep ends it.
SecondIgnoresStop ==
  /\ bt_ck = "sleep"
  /\ IF time_s # 0 THEN time_s' = time_s - 1 /\ UNCHANGED bt_ck
                   ELSE bt_ck' = after /\ UNCHANGED time_s
  /\ UNCHANGED <<bt_ck_run_sem, g_bt_ck_running, after, try_wakeup_cnt, secure>>

\* A second of bt_ck_k_sleep ends; after the last the caller looks at the flag.
Second ==
  /\ bt_ck = "sleep"
  /\ IF time_s # 0 /\ g_bt_ck_running
     THEN time_s' = time_s - 1 /\ UNCHANGED bt_ck
     ELSE bt_ck' = (IF g_bt_ck_running THEN after ELSE "wait") /\ UNCHANGED time_s
  /\ UNCHANGED <<bt_ck_run_sem, g_bt_ck_running, after, try_wakeup_cnt, secure>>

Thread ==
  \/ Begin \/ SwitchOff \/ SwitchOn \/ Wakeup \/ Connected \/ NotConnected
  \/ WakeupAgain \/ Second

Next == Thread \/ Start \/ Stop \/ Link

Spec == Init /\ [][Next]_vars

\* The bt_ck thread runs; users and the host may do nothing.
FairSpec == Spec /\ WF_vars(Thread)

-----------------------------------------------------------------------------
(* Properties. *)

\* The flag tells whether the loop runs: it is never left set behind a thread
\* that waits for the next auto_reboot_start.
FlagMeansRunning == g_bt_ck_running => bt_ck # "wait"

\* While the host does not connect, it is woken up again and again.
KeepsWaking == bt_ck = "check" ~> (bt_ck = "again" \/ secure \/ ~g_bt_ck_running)

\* How many steps a thread that was told to stop still makes, at most.
StepsLeft ==
  CASE bt_ck = "wait"  -> 0
    [] bt_ck = "sleep" -> 1
    [] bt_ck \in {"off", "on", "check", "again"} -> 2
    [] bt_ck = "wakeup" -> 3

\* Once told to stop, the thread finishes the call it is in and begins no other
\* one: it does not switch the host again, nor wake it up. Each of its steps
\* brings it nearer to its rest, which it reaches within three.
StopIsHeard ==
  [][~g_bt_ck_running /\ bt_ck # "wait" /\ bt_ck' # bt_ck
       => bt_ck' \in {"wait", "sleep", "check"} /\ StepsLeft' < StepsLeft]_vars
=============================================================================
