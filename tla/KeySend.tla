------------------------------ MODULE KeySend ------------------------------
(***************************************************************************)
(* The sending of a key (ble_rc.c): the shell command send notifies the    *)
(* host of a press, sleeps, and notifies it of the release, while the host *)
(* connects, asks for notifications, leaves, or asks for them again.       *)
(* Notifications wait for a buffer of the stack and travel in order, among *)
(* themselves and with the answers to the host, as long as the link is up. *)
(***************************************************************************)
EXTENDS Naturals, Sequences

CONSTANTS
  Keys,      \* the keys that the user may send
  None,      \* report_val of no key: all bytes are 0
  Buffers    \* notifications that the stack holds for a link

ASSUME KeyAssumption == None \notin Keys /\ Buffers \in Nat \ {0}

VARIABLES
  shell,       \* the step of do_send_key
  report_val,
  ccc,         \* the host has subscribed: simulate_input_allow, the CCC of the link
  host,        \* what the host does; asking, it has not been answered yet
  host_key,    \* the key that the host believes pressed
  air,         \* the notifications that are on their way
  ahead        \* how many of them are ahead of the answer to a host that asks

vars == <<shell, report_val, ccc, host, host_key, air, ahead>>

Waits == {"press_wait", "release_wait"}

TypeOK ==
  /\ shell \in {"idle", "press", "pause", "release"} \cup Waits
  /\ report_val \in Keys \cup {None}
  /\ ccc \in BOOLEAN
  /\ host \in {"gone", "linked", "listening", "left", "asking"}
  /\ host_key \in Keys \cup {None}
  /\ air \in Seq(Keys \cup {None}) /\ Len(air) <= Buffers
  /\ ahead \in 0 .. Buffers

Init ==
  /\ shell = "idle" /\ report_val = None
  /\ ccc = FALSE /\ host = "gone" /\ host_key = None /\ air = <<>> /\ ahead = 0

-----------------------------------------------------------------------------
(* The host. *)

\* A link comes up; the subscription of a bonded host is remembered.
Connect ==
  /\ host = "gone"
  /\ host' = "linked" /\ ccc' \in BOOLEAN
  /\ UNCHANGED <<shell, report_val, host_key, air, ahead>>

\* The host takes what it is notified of as keys from now on: at first at any
\* moment, and the next time when its write of the CCC is answered.
Listen ==
  /\ host = "linked" \/ (host = "asking" /\ ccc /\ ahead = 0)
  /\ host' = "listening"
  /\ UNCHANGED <<shell, report_val, ccc, host_key, air, ahead>>

\* The host closes its driver, which releases the key.
Leave ==
  /\ host = "listening"
  /\ host' = "left" /\ host_key' = None
  /\ UNCHANGED <<shell, report_val, ccc, air, ahead>>

\* The host opens it again and writes the CCC, which it does when the write
\* before was answered.
Ask ==
  /\ host = "left" /\ ~ccc
  /\ host' = "asking"
  /\ UNCHANGED <<shell, report_val, ccc, host_key, air, ahead>>

Subscribes == host \in {"listening", "asking"}

\* The write of the CCC arrives, later than the host has sent it, and is answered
\* behind the notifications that were sent before.
InputCccChanged ==
  /\ host \in {"listening", "asking", "left"}
  /\ ccc # Subscribes
  /\ ccc' = Subscribes
  /\ ahead' = IF host = "asking" THEN Len(air) ELSE ahead
  /\ UNCHANGED <<shell, report_val, host, host_key, air>>

AfterNotify == IF shell \in {"press", "press_wait"} THEN "pause" ELSE "idle"

\* The link is lost: a notification that waits for a buffer of it returns.
Disconnect ==
  /\ host # "gone"
  /\ host' = "gone" /\ ccc' = FALSE /\ host_key' = None /\ air' = <<>> /\ ahead' = 0
  /\ shell' = IF shell \in Waits THEN AfterNotify ELSE shell
  /\ UNCHANGED report_val

Deliver ==
  /\ air # <<>>
  /\ air' = Tail(air)
  /\ ahead' = IF ahead > 0 THEN ahead - 1 ELSE 0
  /\ host_key' = IF host = "listening" THEN Head(air) ELSE host_key
  /\ UNCHANGED <<shell, report_val, ccc, host>>

-----------------------------------------------------------------------------
(* do_send_key. *)

Send(key) ==
  /\ shell = "idle"
  /\ shell' = "press" /\ report_val' = key
  /\ UNCHANGED <<ccc, host, host_key, air, ahead>>

\* bt_gatt_notify: there is nobody to notify, or it goes on to wait.
Notify ==
  /\ shell \in {"press", "release"}
  /\ shell' = IF host = "gone" \/ ~ccc THEN AfterNotify
              ELSE IF shell = "press" THEN "press_wait" ELSE "release_wait"
  /\ UNCHANGED <<report_val, ccc, host, host_key, air, ahead>>

\* Mutation: a notification that finds no buffer is given up.
EnqueueOrDrop ==
  /\ shell \in Waits
  /\ air' = IF Len(air) < Buffers THEN Append(air, report_val) ELSE air
  /\ shell' = AfterNotify
  /\ UNCHANGED <<report_val, ccc, host, host_key, ahead>>

\* There is a buffer. It never takes the 30 seconds after which the stack gives
\* up: a link that sends nothing is lost after 3.
Enqueue ==
  /\ shell \in Waits /\ Len(air) < Buffers
  /\ air' = Append(air, report_val)
  /\ shell' = AfterNotify
  /\ UNCHANGED <<report_val, ccc, host, host_key, ahead>>

\* Mutation: the report is not cleared before it is sent again.
PauseKeeps ==
  /\ shell = "pause"
  /\ shell' = "release"
  /\ UNCHANGED <<report_val, ccc, host, host_key, air, ahead>>

\* k_msleep(50), and memset.
Pause ==
  /\ shell = "pause"
  /\ shell' = "release" /\ report_val' = None
  /\ UNCHANGED <<ccc, host, host_key, air, ahead>>

-----------------------------------------------------------------------------
Thread == Notify \/ Enqueue \/ Pause

Host == Connect \/ Listen \/ Leave \/ Ask \/ InputCccChanged \/ Disconnect

Next == Thread \/ Deliver \/ Host \/ \E key \in Keys : Send(key)

Spec == Init /\ [][Next]_vars

\* The shell thread runs, and a link delivers what it was given or is lost.
FairSpec == Spec /\ WF_vars(Thread) /\ WF_vars(Deliver)

-----------------------------------------------------------------------------
(* Properties. *)

\* No key sticks: what the host believes pressed it sees released, whatever the
\* link, the subscription and the buffers did between the two notifications.
KeysReleased == \A key \in Keys : host_key = key ~> host_key # key

\* A key that the host believes pressed has its release on the way, or the shell
\* is still to send it over a subscription that stands: no step of the host, of
\* the stack or of the shell takes away the last thing that will release the key.
ReleaseComing ==
  host_key # None =>
    \/ \E i \in 1 .. Len(air) : air[i] = None
    \/ ccc /\ shell \in {"pause", "release", "release_wait"}

\* The host never sees a key pressed while another one is: between two presses
\* it has seen the release, or closed its driver, or lost the link.
PressesAlternate == [][host_key # None /\ host_key' # host_key => host_key' = None]_vars
=============================================================================
