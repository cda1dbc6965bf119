---------------------------- MODULE MCEndurance ----------------------------
(* Values of the constants of Endurance for TLC. *)
EXTENDS Endurance

\* The shell only starts and stops the loop.
MCCommands == [c \in Callers |-> IF c = BtCk THEN Wakeups ELSE {}]
=============================================================================
