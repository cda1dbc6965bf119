---------------------------- MODULE LooperProofs ----------------------------
(***************************************************************************)
(* Proofs about Looper, for every number of tries between two wakeups.     *)
(***************************************************************************)
EXTENDS Looper, TLAPS

\* A sleep is never the last thing the loop does, and a thread that was told to
\* stop looks at the link only right after the first wakeup, so that the count
\* of the tries does not make it wake the host up once more.
LoopInv ==
  /\ TypeOK
  /\ FlagMeansRunning
  /\ bt_ck = "sleep" => after # "wait"
  /\ bt_ck = "check" /\ ~g_bt_ck_running => try_wakeup_cnt = 1

\* Counting modulo Retry.
LEMMA Count ==
  ASSUME NEW k \in 0 .. Retry - 1
  PROVE  (k + 1) % Retry \in 0 .. Retry - 1
BY RetryAssumption

LEMMA CountOne == 1 % Retry = 1
BY RetryAssumption

LEMMA LoopInit == Init => LoopInv
<1> SUFFICES ASSUME Init PROVE LoopInv
  OBVIOUS
<1>1. TypeOK
  <2>1. try_wakeup_cnt \in 0 .. Retry - 1
    BY RetryAssumption DEF Init
  <2>2. bt_ck_run_sem \in 0 .. 1 /\ time_s \in Nat
    BY DEF Init
  <2>3. g_bt_ck_running \in BOOLEAN /\ secure \in BOOLEAN
    BY DEF Init
  <2>4. bt_ck \in Steps /\ after \in Steps
    BY DEF Init, Steps
  <2> QED
    BY <2>1, <2>2, <2>3, <2>4 DEF TypeOK
<1> QED
  BY <1>1 DEF Init, LoopInv, FlagMeansRunning

\* Every step of the shell, of the link and of the thread keeps the invariant.
LEMMA LoopStep ==
  ASSUME LoopInv, [Next]_vars
  PROVE  LoopInv'
<1>1. CASE Start
  BY <1>1 DEF Start, LoopInv, TypeOK, FlagMeansRunning
<1>2. CASE Stop
  BY <1>2 DEF Stop, Blocked, LoopInv, TypeOK, FlagMeansRunning
<1>3. CASE Link
  BY <1>3 DEF Link, LoopInv, TypeOK, FlagMeansRunning
<1>4. CASE Begin
  BY <1>4 DEF Begin, LoopInv, TypeOK, FlagMeansRunning, Steps
<1>5. CASE SwitchOff
  BY <1>5, RetryAssumption DEF SwitchOff, SleepThen, LoopInv, TypeOK, FlagMeansRunning, Steps
<1>6. CASE SwitchOn
  BY <1>6, RetryAssumption DEF SwitchOn, SleepThen, LoopInv, TypeOK, FlagMeansRunning, Steps
<1>7. CASE Wakeup
  <2>1. try_wakeup_cnt' = 1 /\ try_wakeup_cnt' \in 0 .. Retry - 1
    BY <1>7, CountOne, RetryAssumption DEF Wakeup
  <2> QED
    BY <1>7, <2>1 DEF Wakeup, LoopInv, TypeOK, FlagMeansRunning, Steps
<1>8. CASE Connected
  <2>1. CASE g_bt_ck_running
    BY <1>8, <2>1, RetryAssumption DEF Connected, SleepThen, LoopInv, TypeOK, FlagMeansRunning, Steps
  <2>2. CASE ~g_bt_ck_running
    BY <1>8, <2>2 DEF Connected, LoopInv, TypeOK, FlagMeansRunning, Steps
  <2> QED
    BY <2>1, <2>2
<1>9. CASE NotConnected
  <2>1. try_wakeup_cnt' \in 0 .. Retry - 1
    BY <1>9, Count DEF NotConnected, LoopInv, TypeOK
  <2>2. /\ UNCHANGED <<bt_ck_run_sem, g_bt_ck_running, secure>>
        /\ \/ bt_ck' = "again" /\ UNCHANGED <<time_s, after>>
           \/ bt_ck' = "sleep" /\ time_s' = 1 /\ after' = "check"
    BY <1>9 DEF NotConnected, SleepThen
  <2> QED
    BY <2>1, <2>2 DEF LoopInv, TypeOK, FlagMeansRunning, Steps
<1>10. CASE WakeupAgain
  BY <1>10 DEF WakeupAgain, SleepThen, LoopInv, TypeOK, FlagMeansRunning, Steps
<1>11. CASE Second
  <2>1. CASE time_s # 0 /\ g_bt_ck_running
    BY <1>11, <2>1 DEF Second, LoopInv, TypeOK, FlagMeansRunning
  <2>2. CASE ~(time_s # 0 /\ g_bt_ck_running)
    <3>1. /\ bt_ck' = (IF g_bt_ck_running THEN after ELSE "wait")
          /\ UNCHANGED <<bt_ck_run_sem, g_bt_ck_running, time_s, after, try_wakeup_cnt, secure>>
          /\ bt_ck = "sleep"
      BY <1>11, <2>2 DEF Second
    <3> QED
      BY <3>1 DEF LoopInv, TypeOK, FlagMeansRunning, Steps
  <2> QED
    BY <2>1, <2>2
<1>12. CASE UNCHANGED vars
  BY <1>12 DEF vars, LoopInv, TypeOK, FlagMeansRunning
<1> QED
  BY <1>1, <1>2, <1>3, <1>4, <1>5, <1>6, <1>7, <1>8, <1>9, <1>10, <1>11, <1>12
  DEF Next, Thread

LEMMA LoopAlways == Spec => []LoopInv
BY LoopInit, LoopStep, PTL DEF Spec

\* EVERY STATE HAS ITS TYPE: the semaphore of auto_reboot_start holds at most one
\* start, and the count of bt_ck_k_sleep never passes below zero.
THEOREM LooperTyped == Spec => []TypeOK
<1>1. LoopInv => TypeOK
  BY DEF LoopInv
<1> QED
  BY <1>1, LoopAlways, PTL

\* THE FLAG MEANS THAT THE LOOP RUNS: g_bt_ck_running is never left set behind a
\* bt_ck thread that waits for the next auto_reboot_start.
THEOREM FlagTold == Spec => []FlagMeansRunning
<1>1. LoopInv => FlagMeansRunning
  BY DEF LoopInv
<1> QED
  BY <1>1, LoopAlways, PTL

\* A STOP IS HEARD: after auto_reboot_stop the bt_ck thread finishes the call it
\* is in, neither switches the host nor wakes it up any more, and is at rest after
\* three steps at most.
THEOREM StopHeard == Spec => StopIsHeard
<1> DEFINE Heard == ~g_bt_ck_running /\ bt_ck # "wait" /\ bt_ck' # bt_ck
                      => bt_ck' \in {"wait", "sleep", "check"} /\ StepsLeft' < StepsLeft
<1>1. LoopInv /\ [Next]_vars => [Heard]_vars
  <2> SUFFICES ASSUME LoopInv, Next, ~g_bt_ck_running, bt_ck # "wait", bt_ck' # bt_ck
               PROVE  bt_ck' \in {"wait", "sleep", "check"} /\ StepsLeft' < StepsLeft
    OBVIOUS
  <2>1. ~(Start \/ Stop \/ Link \/ Begin)
    BY DEF Start, Stop, Link, Begin
  <2>2. CASE SwitchOff \/ SwitchOn \/ WakeupAgain
    <3>1. bt_ck \in {"off", "on", "again"} /\ bt_ck' = "sleep"
      BY <2>2 DEF SwitchOff, SwitchOn, WakeupAgain, SleepThen
    <3> QED
      BY <3>1 DEF StepsLeft
  <2>3. CASE Wakeup
    <3>1. bt_ck = "wakeup" /\ bt_ck' = "check"
      BY <2>3 DEF Wakeup
    <3> QED
      BY <3>1 DEF StepsLeft
  <2>4. CASE Connected \/ Second
    <3>1. bt_ck \in {"check", "sleep"} /\ bt_ck' = "wait"
      BY <2>4 DEF Connected, Second
    <3> QED
      BY <3>1 DEF StepsLeft
  <2>5. CASE NotConnected
    <3>1. bt_ck = "check" /\ try_wakeup_cnt = 1
      BY <2>5 DEF NotConnected, LoopInv
    <3>2. bt_ck' = "sleep"
      BY <2>5, <3>1 DEF NotConnected, SleepThen
    <3> QED
      BY <3>1, <3>2 DEF StepsLeft
  <2> QED
    BY <2>1, <2>2, <2>3, <2>4, <2>5 DEF Next, Thread
<1> QED
  BY <1>1, LoopAlways, PTL DEF Spec, StopIsHeard
=============================================================================
