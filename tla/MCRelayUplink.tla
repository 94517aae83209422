--------------------------- MODULE MCRelayUplink ---------------------------
(* Instances of RelayUplink. *)
EXTENDS RelayUplink
=============================================================================
