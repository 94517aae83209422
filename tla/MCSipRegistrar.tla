--------------------------- MODULE MCSipRegistrar ---------------------------
(* Instances of SipRegistrar. *)
EXTENDS SipRegistrar
=============================================================================
