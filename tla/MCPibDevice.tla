----------------------------- MODULE MCPibDevice -----------------------------
(* The instance of PibDevice that TLC checks: one QP with both queues on   *)
(* one CQ, and one that shares its receive CQ with it.                     *)
EXTENDS PibDevice

SendCqs == [q \in QPs |-> IF q = "q1" THEN "c1" ELSE "c2"]
RecvCqs == [q \in QPs |-> "c1"]
Flags   == [c \in CQs |-> IF c = "c1" THEN "SOLICITED" ELSE "NEXT_COMP"]

=============================================================================
