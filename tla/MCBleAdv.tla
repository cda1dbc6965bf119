------------------------------ MODULE MCBleAdv ------------------------------
(* Values of the constants of BleAdv for TLC. *)
EXTENDS BleAdv

Advertise(wakeup, timed) == [op |-> "adv", wakeup |-> wakeup, timed |-> timed]
Delete == [op |-> "delete", wakeup |-> FALSE, timed |-> FALSE]

\* The bt_ck thread only sends wakeups of BLERC_WAKEUP_TIME_S seconds.
Looper == {Advertise(TRUE, TRUE)}

\* start_adv (also with time 0), start_wakeup with a time, delete_paired.
Shell == {Advertise(FALSE, TRUE), Advertise(FALSE, FALSE), Advertise(TRUE, TRUE), Delete}

MCCommands == [c \in Callers |-> IF c = "bt_ck" THEN Looper ELSE Shell]
=============================================================================
