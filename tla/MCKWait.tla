------------------------------ MODULE MCKWait ------------------------------
(* Model values for KWait alone: see the configuration KWaitLostAlarm.cfg. *)
EXTENDS KWait
CONSTANTS t1, t2, s1, sync
TwoThreads == {t1, t2}
OneSignaller == {s1}
JustSync == {sync}
Nothing == {}
=============================================================================
