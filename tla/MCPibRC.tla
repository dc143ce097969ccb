------------------------------ MODULE MCPibRC -------------------------------
(* Instances of PibRC for TLC: the work requests each run posts.           *)
EXTENDS PibRC

Wr(op, pkts) == [op |-> op, pkts |-> pkts, fence |-> FALSE, fault |-> "none"]
Fenced(op, pkts) == [Wr(op, pkts) EXCEPT !.fence = TRUE]
Faulty(op, pkts, fault) == [Wr(op, pkts) EXCEPT !.fault = fault]

StreamWRs == {Wr("SEND", 2), Wr("WRITE", 2), Wr("WRITE_IMM", 1)}
MixedWRs  == {Wr("SEND", 1), Wr("READ", 2), Wr("FADD", 1), Fenced("SEND", 1)}
ErrorWRs  == {Wr("SEND", 2), Faulty("SEND", 1, "local"),
              Wr("READ", 2), Faulty("READ", 1, "local"), Faulty("READ", 1, "remote"),
              Faulty("WRITE", 1, "remote"), Faulty("FADD", 1, "remote"),
              Wr("WRITE_IMM", 1), Faulty("WRITE_IMM", 1, "remote"),
              Wr("SEND_INV", 1)}
LiveWRs   == {Wr("SEND", 1), Wr("READ", 2), Wr("CAS", 1)}

LongWRs     == {Wr("SEND", 4)}
ReadSendWRs == {Wr("READ", 2), Wr("SEND", 1)}
LongReadWRs == {Wr("READ", 3)}

NoBuffer     == <<>>
OneBuffer    == <<2>>
TwoBuffers   == <<2, 2>>
ThreeBuffers == <<2, 2, 2>>
BigBuffer    == <<4>>
BigBuffers   == <<4, 4>>
=============================================================================
