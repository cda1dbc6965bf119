------------------------------ MODULE EvtQueue ------------------------------
(***************************************************************************)
(* What evt_send promises its callers (main.c): every event is handled     *)
(* once, in the order of the calls, whichever threads call it.             *)
(***************************************************************************)
EXTENDS Sequences

CONSTANT Types    \* the types of events

VARIABLES pending, done    \* events sent and not yet handled, events handled

vars == <<pending, done>>

Init == pending = <<>> /\ done = <<>>

Send(t) ==
  /\ pending' = Append(pending, t)
  /\ UNCHANGED done

Handle ==
  /\ pending # <<>>
  /\ done' = Append(done, Head(pending))
  /\ pending' = Tail(pending)

Next == Handle \/ \E t \in Types : Send(t)

Spec == Init /\ [][Next]_vars /\ WF_vars(Handle)
=============================================================================
