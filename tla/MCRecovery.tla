----------------------------- MODULE MCRecovery -----------------------------
(* Model-checking instance of Recovery: two VMs, two saver threads. *)
EXTENDS Recovery, TLC

CONSTANTS v1, v2, s1, s2

MCVMs == {v1, v2}
MCSavers == {s1, s2}
=============================================================================
