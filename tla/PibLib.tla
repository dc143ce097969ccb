------------------------------- MODULE PibLib -------------------------------
(***************************************************************************)
(* The pure helpers the reliable-connection (RC) service of pib.ko is      *)
(* written with: packet sequence numbers, the opcode tables of pib_lib.c   *)
(* and the mapping from a work request to the opcodes of its packets.      *)
(***************************************************************************)
EXTENDS Integers, Sequences

CONSTANTS
  PsnMod,          \* PIB_PSN_MASK + 1: 2^24 in the driver, small in a model
  AttrBeyondTable  \* what the build happens to place after attr_OpCode[]

(* The sign test of get_psn_diff needs an even number of PSNs.             *)
ASSUME PsnModAssumption == PsnMod \in Nat \ {0, 1} /\ PsnMod % 2 = 0

(* A build in which they read as acknowledges is left out:                 *)
(* receive_response is not written for a request and may stop the kernel.  *)
ASSUME AttrAssumption ==
  AttrBeyondTable \subseteq {"STARTING", "MIDDLE", "ENDING"}

-----------------------------------------------------------------------------
(* What is kept of a PSN on the wire: psn & PIB_PSN_MASK.  Inside the      *)
(* driver PSNs are unmasked u32 counters; 2^32 is a multiple of 2^24 and   *)
(* only get_psn_diff reads them, so the model lets them grow.              *)
Masked(psn) == psn % PsnMod

(* The signed 24-bit distance from based_psn to psn.                       *)
get_psn_diff(psn, based_psn) ==
  LET d == (psn - based_psn) % PsnMod
  IN  IF 2 * d < PsnMod THEN d ELSE d - PsnMod

(* psn lies in the half-open range [from, to): the test match_send_wqe,    *)
(* set_send_wqe_to_error and the duplicate-request search share.           *)
InPsnRange(psn, from, to) ==
  get_psn_diff(psn, from) >= 0 /\ get_psn_diff(psn, to) < 0

-----------------------------------------------------------------------------
(* Work request opcodes.  SEND stands for SEND with or without immediate   *)
(* data: the driver treats the two alike.                                  *)
WrOpcodes == {"SEND", "SEND_INV", "WRITE", "WRITE_IMM", "READ", "CAS", "FADD"}

pib_is_wr_opcode_rd_atomic(op) == op \in {"READ", "CAS", "FADD"}

(* Wire opcodes of requests.                                               *)
SendOpcodes  == {"SEND_FIRST", "SEND_MIDDLE", "SEND_LAST", "SEND_ONLY",
                 "SEND_LAST_INV", "SEND_ONLY_INV"}
WriteOpcodes == {"WRITE_FIRST", "WRITE_MIDDLE", "WRITE_LAST", "WRITE_ONLY",
                 "WRITE_LAST_IMM", "WRITE_ONLY_IMM"}
AtomicOpcodes  == {"COMPARE_SWAP", "FETCH_ADD"}
RequestOpcodes ==
  SendOpcodes \cup WriteOpcodes \cup AtomicOpcodes \cup {"READ_REQUEST"}

(* attr_OpCode[] ends at FETCH_ADD (0x14).  The opcodes with Invalidate    *)
(* (0x16, 0x17) index past it and read whatever follows in the build.      *)
Beyond(attr) ==
  IF attr \in AttrBeyondTable THEN {"SEND_LAST_INV", "SEND_ONLY_INV"} ELSE {}

StartingOpcodes == {"SEND_FIRST", "SEND_ONLY", "WRITE_FIRST", "WRITE_ONLY",
                    "WRITE_ONLY_IMM", "READ_REQUEST"}
                   \cup AtomicOpcodes \cup Beyond("STARTING")
EndingOpcodes   == {"SEND_LAST", "SEND_ONLY", "WRITE_LAST", "WRITE_LAST_IMM",
                    "WRITE_ONLY", "WRITE_ONLY_IMM", "READ_REQUEST"}
                   \cup AtomicOpcodes \cup Beyond("ENDING")
pib_opcode_is_acknowledge(OpCode) == OpCode \in Beyond("ACKNOWLEDGE")

(* May a packet with this opcode follow one with last_OpCode?              *)
pib_opcode_is_in_order_sequence(OpCode, last_OpCode) ==
  \/ OpCode \in StartingOpcodes /\ last_OpCode \in EndingOpcodes
  \/ /\ OpCode \in {"SEND_MIDDLE", "SEND_LAST"}
     /\ last_OpCode \in {"SEND_FIRST", "SEND_MIDDLE"}
  \/ /\ OpCode \in {"WRITE_MIDDLE", "WRITE_LAST", "WRITE_LAST_IMM"}
     /\ last_OpCode \in {"WRITE_FIRST", "WRITE_MIDDLE"}

(* The opcode of packet number sent (from 0) of a request of all packets.  *)
Position(all, sent) == CASE all = 1        -> "ONLY"
                         [] all # 1 /\ sent = 0       -> "FIRST"
                         [] all # 1 /\ sent # 0 /\ all = sent + 1 -> "LAST"
                         [] OTHER          -> "MIDDLE"

RequestOpcode(op, all, sent) ==
  LET pos == Position(all, sent)
  IN  CASE op = "READ" -> "READ_REQUEST"
        [] op = "CAS"  -> "COMPARE_SWAP"
        [] op = "FADD" -> "FETCH_ADD"
        [] op = "SEND" ->
             [ONLY |-> "SEND_ONLY", FIRST |-> "SEND_FIRST",
              MIDDLE |-> "SEND_MIDDLE", LAST |-> "SEND_LAST"][pos]
        [] op = "SEND_INV" ->
             [ONLY |-> "SEND_ONLY_INV", FIRST |-> "SEND_FIRST",
              MIDDLE |-> "SEND_MIDDLE", LAST |-> "SEND_LAST_INV"][pos]
        [] op = "WRITE" ->
             [ONLY |-> "WRITE_ONLY", FIRST |-> "WRITE_FIRST",
              MIDDLE |-> "WRITE_MIDDLE", LAST |-> "WRITE_LAST"][pos]
        [] OTHER ->
             [ONLY |-> "WRITE_ONLY_IMM", FIRST |-> "WRITE_FIRST",
              MIDDLE |-> "WRITE_MIDDLE", LAST |-> "WRITE_LAST_IMM"][pos]

(* Packets that start a message, and those that end it: init and finit of  *)
(* receive_SEND_request and receive_RDMA_WRITE_request.                    *)
IsInit(OpCode)  == OpCode \in {"SEND_FIRST", "SEND_ONLY", "SEND_ONLY_INV",
                               "WRITE_FIRST", "WRITE_ONLY", "WRITE_ONLY_IMM"}
IsFinit(OpCode) == OpCode \in {"SEND_LAST", "SEND_ONLY", "SEND_ONLY_INV",
                               "SEND_LAST_INV", "WRITE_LAST", "WRITE_ONLY",
                               "WRITE_LAST_IMM", "WRITE_ONLY_IMM"}
WithInv(OpCode) == OpCode \in {"SEND_LAST_INV", "SEND_ONLY_INV"}
WithImm(OpCode) == OpCode \in {"WRITE_LAST_IMM", "WRITE_ONLY_IMM"}
WithReth(OpCode) == OpCode \in {"WRITE_FIRST", "WRITE_ONLY", "WRITE_ONLY_IMM"}

(* The sequence s without its first n elements.                            *)
Drop(s, n) == SubSeq(s, n + 1, Len(s))

(* The elements of s are the numbers after c, in order.                    *)
Consecutive(s, c) == \A i \in 1 .. Len(s) : s[i] = c + i

(* Three lists that hold, one after the other, the numbers c + 1 .. n.     *)
InOrder(w, s, u, n, c) ==
  /\ Consecutive(w, c)
  /\ Consecutive(s, c + Len(w))
  /\ Consecutive(u, c + Len(w) + Len(s))
  /\ n = c + Len(w) + Len(s) + Len(u)

(* The sequence s without the elements whose index is in gone.  (SelectSeq *)
(* says the same of a test on elements, but the proofs need a definition   *)
(* whose recursion they can unfold.)                                       *)
Without(s, gone) ==
  LET kept[i \in 0 .. Len(s)] ==
        IF i = 0 THEN <<>>
        ELSE IF i \in gone THEN kept[i - 1] ELSE Append(kept[i - 1], s[i])
  IN  kept[Len(s)]
=============================================================================
