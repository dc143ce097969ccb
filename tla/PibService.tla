----------------------------- MODULE PibService -----------------------------
(***************************************************************************)
(* What a reliable connection promises its two applications, with no       *)
(* packets, timers or retries: work requests are executed at the remote    *)
(* side in the order they were posted, each at most once; they complete in *)
(* that order, successfully only after they were executed; and the first   *)
(* error completes everything left in error.                               *)
(***************************************************************************)
EXTENDS Integers, Sequences

CONSTANTS
  WRs,           \* work requests
  NeedsRecv(_)   \* does this work request consume a receive buffer?

VARIABLES
  posted,        \* the work requests posted, in order
  delivered,     \* how many of them the remote side has executed
  received,      \* the work requests handed to the remote receive queue
  completed      \* "OK" or "ERR" for each completed work request, in order

svars == <<posted, delivered, received, completed>>

Failed == \E i \in DOMAIN completed : completed[i] = "ERR"
Copies(x, n) == [i \in 1 .. n |-> x]

Init == posted = <<>> /\ delivered = 0 /\ received = <<>> /\ completed = <<>>

(* A work request posted to a failed connection completes at once.         *)
Post ==
  /\ \E w \in WRs : posted' = Append(posted, w)
  /\ completed' = IF Failed THEN Append(completed, "ERR") ELSE completed
  /\ UNCHANGED <<delivered, received>>

Deliver ==
  /\ delivered < Len(posted)
  /\ delivered' = delivered + 1
  /\ received' = IF NeedsRecv(posted[delivered'])
                 THEN Append(received, delivered') ELSE received
  /\ UNCHANGED <<posted, completed>>

(* Work requests complete in batches: an acknowledge is cumulative.        *)
Complete ==
  /\ ~Failed
  /\ \E n \in 1 .. delivered - Len(completed) :
       completed' = completed \o Copies("OK", n)
  /\ UNCHANGED <<posted, delivered, received>>

(* The connection fails, perhaps after a last batch of successes.          *)
Fail ==
  /\ ~Failed
  /\ Len(completed) < Len(posted)
  /\ \E n \in 0 .. Len(posted) - Len(completed) - 1 :
       /\ Len(completed) + n <= delivered
       /\ completed' = completed \o Copies("OK", n)
                       \o Copies("ERR", Len(posted) - Len(completed) - n)
  /\ UNCHANGED <<posted, delivered, received>>

Next == Post \/ Deliver \/ Complete \/ Fail

Spec == Init /\ [][Next]_svars
=============================================================================
