----------------------------- MODULE MCSipRelay -----------------------------
(* A relay between two domains with one camera, which requests name by the  *)
(* lower domain's id and by one of the relay's realm.                       *)
EXTENDS SipRelay

MCUpper == [realm |-> "u", no |-> "domain"]
MCLower == [realm |-> "l", no |-> "domain"]
MCRelay == [realm |-> "r", no |-> "domain"]
MCStrangers == {[realm |-> "u", no |-> "camera"]}
MCAddressed == {MCRelay, [realm |-> "l", no |-> "camera"], [realm |-> "r", no |-> "camera"]}
=============================================================================
