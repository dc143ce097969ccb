------------------------------- MODULE MCPibQP -------------------------------
(* The instances of PibQP that TLC checks. *)
EXTENDS PibQP

BothTypes == {"RC", "UD"}
OnlyRC    == {"RC"}

=============================================================================
