----------------------------- MODULE MCHusCalls -----------------------------
(* Instances of HusCalls: with a Call-ID that an int can hold and one that  *)
(* it cannot, whose keys differ, and with two that share the key INT_MAX.   *)
EXTENDS HusCalls
=============================================================================
