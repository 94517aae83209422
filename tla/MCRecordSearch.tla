--------------------------- MODULE MCRecordSearch ---------------------------
(* Three queries: two for one HUS streamer (or for two DVRs, whose identity is *)
(* GUID_NULL alike) and one for another.                                      *)
EXTENDS RecordSearch

MCIdentity == [q \in Query |-> IF q = "q3" THEN "streamer2" ELSE "streamer1"]
=============================================================================
