-------------------------------- MODULE PibRC --------------------------------
(***************************************************************************)
(* One reliable connection between two pib HCAs: the requester half of a   *)
(* queue pair on one node, the responder half of the connected queue pair  *)
(* on the other, and the UDP datagrams between their kernel threads.       *)
(*                                                                         *)
(* The requester posts send work requests; its thread turns them into      *)
(* packets, keeps them until they are acknowledged and resends them after  *)
(* a NAK or a local ACK timeout.  The responder executes packets in PSN    *)
(* order, keeps a list of acknowledges to send and answers duplicates      *)
(* from a table of the last RDMA READ and Atomic operations.               *)
(*                                                                         *)
(* Every operation on a queue pair is an operator from its record to its   *)
(* record, as every handler of the driver updates *qp under qp->lock.  A   *)
(* packet a handler leaves in dev->thread.send_buffer is the field tx,     *)
(* which process_sendmsg empties before the step ends.                     *)
(***************************************************************************)
EXTENDS PibLib, FiniteSets, FiniteSetsExt

CONSTANTS
  WRs,              \* the work requests the requester may post
  MaxWR,            \* bound: work requests posted
  RecvSizes,        \* the receive buffers it may post, by packets they hold
  MaxRecv,          \* bound: receive work requests posted
  Preposted,        \* receive buffers posted before the connection is used
  InitPsn,          \* sq_psn of the requester = rq_psn of the responder
  RetryCnt,         \* ib_qp_attr.retry_cnt
  RnrRetry,         \* ib_qp_attr.rnr_retry, 7 meaning infinity
  MaxRdAtomic,      \* requester.max_rd_atomic
  MaxDestRdAtomic,  \* ib_qp_attr.max_dest_rd_atomic of the responder
  MaxContigReqs,    \* PIB_MAX_CONTIG_REQUESTS (64)
  MaxContigReads,   \* PIB_MAX_CONTIG_READ_ACKS (64)
  MaxFaults,        \* bound: datagrams lost, repeated or delayed, and local
                    \* ACK timers that expire with an answer under way
  WireCap,          \* bound: datagrams in flight in one direction
  AckCap,           \* bound: acknowledges the responder has still to send
  MayDereg          \* the responder's memory region may be deregistered

(* A work request: opcode, length in packets, fence flag, and which memory *)
(* check it fails ("local": the requester's SGE, "remote": the rkey).      *)
WrType == [op : WrOpcodes, pkts : Nat \ {0}, fence : BOOLEAN,
           fault : {"none", "local", "remote"}]

ASSUME RCAssumption ==
  /\ WRs \subseteq WrType
  /\ \A w \in WRs : w.op \in {"CAS", "FADD"} => w.pkts = 1
  /\ RecvSizes \subseteq Nat
  /\ Preposted \in Seq(RecvSizes)
  /\ InitPsn \in 0 .. PsnMod - 1
  /\ {MaxWR, MaxRecv, RetryCnt, RnrRetry, MaxRdAtomic, MaxDestRdAtomic,
      MaxContigReqs, MaxContigReads, MaxFaults, WireCap, AckCap} \subseteq Nat
  /\ MayDereg \in BOOLEAN

VARIABLES
  req,      \* struct pib_qp on the requesting node, with its send CQ
  rsp,      \* struct pib_qp on the responding node, with its receive CQ
  toRsp,    \* datagrams on their way to the responder
  toReq,    \* datagrams on their way to the requester
  faults    \* faults so far

vars == <<req, rsp, toRsp, toReq, faults>>

-----------------------------------------------------------------------------
Syndromes == {"ACK", "RNR", "PSN_SEQ", "INV_REQ", "REM_ACCESS", "REM_OP"}

(* Completions *)

Statuses == {"SUCCESS", "LOC_PROT_ERR", "LOC_LEN_ERR", "GENERAL_ERR",
             "BAD_RESP_ERR", "REM_INV_REQ_ERR", "REM_ACCESS_ERR",
             "REM_OP_ERR", "RETRY_EXC_ERR", "RNR_RETRY_EXC_ERR",
             "MW_BIND_ERR", "WR_FLUSH_ERR"}

(* pib_util_insert_wc_success, pib_util_insert_wc_error *)
insert_send_wc(q, id, status) ==
  [q EXCEPT !.cq = Append(@, [wr |-> id, status |-> status])]
insert_recv_wc(r, id, status, data) ==
  [r EXCEPT !.cq = Append(@, [wr |-> id, status |-> status, data |-> data])]

-----------------------------------------------------------------------------
(***************************************************************************)
(* The requester                                                           *)
(*                                                                         *)
(* req.wqe[i] is the send WQE of the i-th posted work request; submitted,  *)
(* sending and waiting are the three lists of WQEs, on is sched.on: the QP *)
(* is in the device's scheduling tree.                                     *)
(***************************************************************************)
NewSwqe(w) ==
  [wr |-> w, based_psn |-> 0, expected_psn |-> 0, sent_packets |-> 0,
   ack_packets |-> 0, retry_cnt |-> 0, rnr_retry |-> 0,
   status |-> "SUCCESS", data |-> <<>>, res |-> 0]

InList(s, id) == \E j \in DOMAIN s : s[j] = id

(* The WQEs whose packets may be in flight, oldest first.                  *)
Started(q) == q.waiting \o q.sending

(* pib_util_reschedule_qp for a QP with no acknowledge to send: in the     *)
(* tree iff a timer runs, or the first sending WQE is not held back, or    *)
(* nothing is being sent and the next submitted WQE may be started.        *)
StartDue(q) ==
  /\ q.sending = <<>> /\ q.submitted # <<>>
  /\ \/ ~pib_is_wr_opcode_rd_atomic(q.wqe[Head(q.submitted)].wr.op)
     \/ q.nr_rd_atomic < MaxRdAtomic
SendDue(q) == q.sending # <<>> /\ q.nr_contig_requests <= MaxContigReqs

(* Mutant: the sending list is forgotten. *)
RescheduleForgetsSending(q) ==
  [q EXCEPT !.on = q.state = "RTS" /\ (q.waiting # <<>> \/ StartDue(q))]

reschedule_req(q) ==
  [q EXCEPT !.on = /\ q.state = "RTS"
                   /\ q.waiting # <<>> \/ SendDue(q) \/ StartDue(q)]

(* pib_util_flush_qp after the QP entered the error state: every WQE of    *)
(* waiting, then sending, then submitted completes with WR_FLUSH_ERR.      *)
flush_req(q) ==
  LET left == Started(q) \o q.submitted
      wcs  == [i \in 1 .. Len(left) |->
                 [wr |-> left[i], status |-> "WR_FLUSH_ERR"]]
  IN  [reschedule_req([q EXCEPT !.state = "ERR", !.waiting = <<>>,
                                !.sending = <<>>, !.submitted = <<>>,
                                !.nr_rd_atomic = 0, !.cq = @ \o wcs])
       EXCEPT !.nr_contig_requests = 0, !.nr_contig_read_acks = 0]

(* Complete WQE id, already off its list, in error and fail the QP.        *)
(* Mutant: the failure is reported and the QP goes on. *)
ReportOnly(q, id) == insert_send_wc(q, id, q.wqe[id].status)

CompletionError(q, id) ==
  flush_req(insert_send_wc(q, id, q.wqe[id].status))

(* The first sending WQE goes to the tail of the waiting list.             *)
ToWaiting(q) == [q EXCEPT !.waiting = Append(@, Head(q.sending)),
                          !.sending = Tail(@)]

(* Packets sent but not acknowledged are cancelled.                        *)
(* Mutant: the acknowledged ones as well. *)
CancelAll(e) == [e EXCEPT !.sent_packets = 0, !.ack_packets = 0]

Cancel(e) == [e EXCEPT !.sent_packets = e.ack_packets]

CancelStarted(q) ==
  [q EXCEPT !.wqe = [i \in DOMAIN q.wqe |->
                       IF InList(Started(q), i) THEN Cancel(q.wqe[i])
                       ELSE q.wqe[i]]]

(* Waiting WQEs return to the front of the sending list to be sent again.  *)
(* Mutant: to its tail. *)
ResendLast(q) ==
  [CancelStarted(q) EXCEPT !.waiting = <<>>, !.sending = @ \o q.waiting]

Resend(q) ==
  [CancelStarted(q) EXCEPT !.waiting = <<>>, !.sending = Started(q)]

(* The local ACK timer of the first waiting WQE has expired.               *)
(* Mutant: no retry is counted. *)
UncountedTimeout(q) == Resend(q)

LocalAckTimeout(q) ==
  Resend([q EXCEPT !.wqe[Head(q.waiting)].retry_cnt = @ - 1])

(* process_new_send_wr: may the first submitted WQE be started, and start  *)
(* it.                                                                     *)
(* Mutant: the fence is ignored. *)
MayStartUnfenced(q) ==
  /\ q.submitted # <<>>
  /\ \/ ~pib_is_wr_opcode_rd_atomic(q.wqe[Head(q.submitted)].wr.op)
     \/ q.nr_rd_atomic < MaxRdAtomic

MayStart(q) ==
  /\ q.submitted # <<>>
  /\ LET w == q.wqe[Head(q.submitted)].wr
     IN  /\ w.fence => q.nr_rd_atomic = 0
         /\ pib_is_wr_opcode_rd_atomic(w.op) => q.nr_rd_atomic < MaxRdAtomic

(* The PSNs a work request takes; for an RDMA READ those of its responses. *)
(* Mutant: only that of the READ request. *)
RequestPsns(w) == IF w.op = "READ" THEN 1 ELSE w.pkts

NumOfPsns(w) == w.pkts

process_new_send_wr(q) ==
  LET id == Head(q.submitted)
      w  == q.wqe[id].wr
  IN  [q EXCEPT
         !.submitted    = Tail(@),
         !.sending      = Append(@, id),
         !.nr_rd_atomic = IF pib_is_wr_opcode_rd_atomic(w.op) THEN @ + 1 ELSE @,
         !.expected_psn = @ + NumOfPsns(w),
         !.wqe[id] = [@ EXCEPT !.based_psn    = q.expected_psn,
                               !.expected_psn = q.expected_psn + NumOfPsns(w),
                               !.ack_packets  = 0,
                               !.sent_packets = 0,
                               !.retry_cnt    = RetryCnt,
                               !.rnr_retry    = RnrRetry]]

(* The request packet for the next packet of WQE id.  An RDMA READ request *)
(* asks for the part of the message not yet answered.                      *)
RequestPacket(q, id) ==
  LET e == q.wqe[id]
  IN  [op   |-> RequestOpcode(e.wr.op, e.wr.pkts, e.sent_packets),
       psn  |-> Masked(e.based_psn + e.sent_packets),
       wr   |-> id,
       k    |-> e.sent_packets,
       dmalen |-> IF e.wr.op = "READ" THEN e.wr.pkts - e.sent_packets
                  ELSE e.wr.pkts,
       rkey |-> e.wr.fault # "remote"]

(* pib_process_rc_qp_request for the first sending WQE.  A failure is only *)
(* recorded in the WQE here; a later pass completes it.                    *)
SetStatus(q, id, status) == [q EXCEPT !.wqe[id].status = status]

Transmit(q, id) ==
  LET e   == q.wqe[id]
      pkt == RequestPacket(q, id)
      q1  == [q EXCEPT
                !.tx = <<pkt>>,
                !.wqe[id].sent_packets = IF e.wr.op = "READ" THEN @ ELSE @ + 1,
                !.nr_contig_requests =
                   IF e.wr.op = "READ" THEN @
                   ELSE IF WithReth(pkt.op) THEN 1 ELSE @ + 1]
  IN  IF e.wr.op # "READ" /\ e.sent_packets + 1 < e.wr.pkts
      THEN q1
      ELSE ToWaiting(q1)

(* Mutant: the last retry is not made. *)
NoRetryLeft(e) == e.retry_cnt <= 0

RetryExceeded(e) == e.retry_cnt < 0

pib_process_rc_qp_request(q, id) ==
  LET e == q.wqe[id]
  IN  IF RetryExceeded(e) THEN SetStatus(q, id, "RETRY_EXC_ERR")
      ELSE IF e.rnr_retry < 0 THEN SetStatus(q, id, "RNR_RETRY_EXC_ERR")
      ELSE IF e.wr.fault = "local" /\ ~pib_is_wr_opcode_rd_atomic(e.wr.op)
           THEN SetStatus(q, id, "LOC_PROT_ERR")
      ELSE Transmit(q, id)

(* process_send_wr *)
process_send_wr(q) ==
  LET id == Head(q.sending)
  IN  IF q.wqe[id].status # "SUCCESS"
      THEN CompletionError([q EXCEPT !.sending = Tail(@)], id)
      ELSE pib_process_rc_qp_request(q, id)

(* process_on_qp_scheduler, from first_sending_wsqe on: the first sending  *)
(* WQE waits while it has failed but older WQEs are unanswered, and while  *)
(* too many requests went out without a response.                          *)
HeldBack(q) ==
  \/ q.wqe[Head(q.sending)].status # "SUCCESS" /\ q.waiting # <<>>
  \/ MaxContigReqs < q.nr_contig_requests

StartNext(q) ==
  IF q.sending = <<>> /\ MayStart(q) THEN process_new_send_wr(q) ELSE q

SendFirst(q) ==
  IF q.sending = <<>> \/ HeldBack(q) THEN q ELSE process_send_wr(q)


-----------------------------------------------------------------------------
(* The requester's answers *)

(* A successful receipt restarts the timer and the retry budget of every   *)
(* waiting WQE.                                                            *)
postpone_local_ack_timeout(q) ==
  [q EXCEPT !.wqe = [i \in DOMAIN q.wqe |->
                       IF InList(q.waiting, i)
                       THEN [q.wqe[i] EXCEPT !.retry_cnt = RetryCnt]
                       ELSE q.wqe[i]]]

(* Take the n oldest started WQEs off their lists.                         *)
DropStarted(q, n) ==
  IF n <= Len(q.waiting)
  THEN [q EXCEPT !.waiting = Drop(@, n)]
  ELSE [q EXCEPT !.waiting = <<>>, !.sending = Drop(@, n - Len(q.waiting))]

(* The place among the started WQEs of those whose PSNs contain psn.       *)
match_send_wqe(q, psn) ==
  {i \in DOMAIN Started(q) :
     InPsnRange(psn, q.wqe[Started(q)[i]].based_psn,
                     q.wqe[Started(q)[i]].expected_psn)}

set_send_wqe_to_error(q, psn, status) ==
  LET hits == match_send_wqe(q, psn)
  IN  IF hits = {} THEN q ELSE SetStatus(q, Started(q)[Min(hits)], status)

(* What an acknowledge of psn means for one WQE.                           *)
(* Mutant: the acknowledge of the last packet but one completes it. *)
AcknowledgeTooEarly(e, psn) ==
  LET psn_diff == get_psn_diff(psn, e.based_psn)
  IN  IF e.status # "SUCCESS" THEN "ERROR"
      ELSE IF psn_diff < 0 \/ psn_diff + 1 <= e.ack_packets THEN "STOP"
      ELSE IF pib_is_wr_opcode_rd_atomic(e.wr.op) THEN "BAD_RESP"
      ELSE IF psn_diff + 2 < e.wr.pkts THEN "CONTINUE"
      ELSE "COMPLETE"

process_acknowledge(e, psn) ==
  LET psn_diff == get_psn_diff(psn, e.based_psn)
  IN  IF e.status # "SUCCESS" THEN "ERROR"
      ELSE IF psn_diff < 0 \/ psn_diff + 1 <= e.ack_packets THEN "STOP"
      ELSE IF pib_is_wr_opcode_rd_atomic(e.wr.op) THEN "BAD_RESP"
      ELSE IF psn_diff + 1 < e.wr.pkts THEN "CONTINUE"
      ELSE "COMPLETE"

(* Complete the n oldest started WQEs with success.                        *)
CompleteStarted(q, n) ==
  LET all == Started(q)
      wcs == [i \in 1 .. n |-> [wr |-> all[i], status |-> "SUCCESS"]]
  IN  [DropStarted(q, n) EXCEPT
         !.cq  = @ \o wcs,
         !.psn = IF n = 0 THEN @ ELSE Masked(q.wqe[all[n]].expected_psn)]

(* An acknowledge completes every started WQE up to the first that it does *)
(* not complete; that one fails, advances or stays.                        *)
receive_ACK_response(q, psn) ==
  LET all == Started(q)
      out == [i \in DOMAIN all |-> process_acknowledge(q.wqe[all[i]], psn)]
      cut == {i \in DOMAIN all : out[i] # "COMPLETE"}
      n   == IF cut = {} THEN Len(all) ELSE Min(cut) - 1
      q1  == CompleteStarted(q, n)
      id  == all[n + 1]
  IN  IF cut = {} THEN postpone_local_ack_timeout(q1)
      ELSE CASE out[n + 1] = "ERROR" -> CompletionError(DropStarted(q1, 1), id)
             [] out[n + 1] = "BAD_RESP" ->
                  CompletionError(
                    DropStarted(SetStatus(q1, id, "BAD_RESP_ERR"), 1), id)
             [] out[n + 1] = "CONTINUE" ->
                  postpone_local_ack_timeout(
                    [q1 EXCEPT !.wqe[id].ack_packets =
                       get_psn_diff(psn, q.wqe[id].based_psn) + 1])
             [] OTHER -> postpone_local_ack_timeout(q1)

(* The oldest started WQE, an RDMA READ or Atomic operation, is complete.  *)
CompleteRdAtomic(q) ==
  postpone_local_ack_timeout([CompleteStarted(q, 1) EXCEPT !.nr_rd_atomic = @ - 1])

(* Every so many RDMA READ responses the requester tells the responder to  *)
(* go on with a congestion notification packet.                            *)
CNP == [op |-> "CNP", psn |-> 0, wr |-> 0, k |-> 0, dmalen |-> 0, rkey |-> TRUE]

process_cnp_notify_request(q) ==
  IF MaxContigReads \div 3 < q.nr_contig_read_acks + 1
  THEN [q EXCEPT !.tx = <<CNP>>, !.nr_contig_read_acks = 0]
  ELSE [q EXCEPT !.nr_contig_read_acks = @ + 1]

(* receive_response skips the AETH before it finds out that a MIDDLE       *)
(* packet has none, so the first four bytes of its payload are lost: skew. *)
receive_RDMA_READ_response(q, p) ==
  LET hits == match_send_wqe(q, p.psn)
      id   == Started(q)[Min(hits)]
      e    == q.wqe[id]
      q1   == process_cnp_notify_request(
                [q EXCEPT !.wqe[id] =
                   [e EXCEPT !.sent_packets = @ + 1,
                             !.ack_packets  = @ + 1,
                             !.data = Append(@, [wr |-> p.wr, k |-> p.k,
                                       skew |-> p.op = "READ_MIDDLE"])]])
  IN  IF hits = {} THEN q
      ELSE IF e.wr.op # "READ" THEN SetStatus(q, id, "BAD_RESP_ERR")
      ELSE IF \/ Min(hits) # 1
              \/ get_psn_diff(e.based_psn + e.sent_packets, p.psn) # 0
              \/ get_psn_diff(e.based_psn + e.ack_packets, p.psn) # 0
           THEN q
      ELSE IF e.wr.fault = "local" THEN SetStatus(q, id, "LOC_PROT_ERR")
      ELSE IF e.sent_packets + 1 < e.wr.pkts THEN q1
      ELSE CompleteRdAtomic(q1)

receive_Atomic_response(q, p) ==
  LET hits == match_send_wqe(q, p.psn)
      id   == Started(q)[Min(hits)]
      e    == q.wqe[id]
  IN  IF hits = {} THEN q
      ELSE IF e.wr.op \notin {"CAS", "FADD"} THEN SetStatus(q, id, "BAD_RESP_ERR")
      ELSE IF Min(hits) # 1 \/ get_psn_diff(e.based_psn, p.psn) # 0 THEN q
      ELSE IF e.wr.fault = "local" THEN SetStatus(q, id, "LOC_PROT_ERR")
      ELSE CompleteRdAtomic([q EXCEPT !.wqe[id].res = p.res])

(* An RNR NAK costs the first WQE a retry if it consumes a receive WQE     *)
(* (SEND with Invalidate is forgotten); 7 retries mean no limit.           *)
CountRnr(q) ==
  IF /\ q.sending # <<>>
     /\ q.wqe[Head(q.sending)].wr.op \in {"SEND", "WRITE_IMM"}
     /\ RnrRetry < 7
  THEN [q EXCEPT !.wqe[Head(q.sending)].rnr_retry = @ - 1]
  ELSE q

NakStatus == [INV_REQ |-> "REM_INV_REQ_ERR", REM_ACCESS |-> "REM_ACCESS_ERR",
              REM_OP |-> "REM_OP_ERR"]

(* Any response opens the window of unanswered requests.                   *)
receive_response(q0, p) ==
  LET q == [q0 EXCEPT !.nr_contig_requests = 0]
      n == IF p.synd \in DOMAIN NakStatus
           THEN set_send_wqe_to_error(q, p.psn, NakStatus[p.synd])
           ELSE q
  IN  CASE p.synd = "RNR"         -> CountRnr(Resend(q))
        [] p.synd = "PSN_SEQ"     -> Resend(q)
        [] p.synd \notin {"RNR", "PSN_SEQ"} /\ p.op = "ACK" ->
             receive_ACK_response(n, p.psn)
        [] p.synd \notin {"RNR", "PSN_SEQ"} /\ p.op = "ATOMIC_ACK" ->
             receive_Atomic_response(n, p)
        [] OTHER -> receive_RDMA_READ_response(n, p)

-----------------------------------------------------------------------------
(***************************************************************************)
(* The responder                                                           *)
(*                                                                         *)
(* rsp.data is what arrived of the current message, its length in packets  *)
(* being responder.offset; slots are the latest RDMA READ and Atomic       *)
(* operations, newest first; acks is the list of acknowledges to send.     *)
(* word is the 64-bit word Atomics work on, log the packets executed.      *)
(***************************************************************************)
reschedule_rsp(r) ==
  [r EXCEPT !.on = /\ r.state = "RTS"
                   /\ r.acks # <<>>
                   /\ r.nr_contig_read_acks < MaxContigReads]

(* pib_util_flush_qp after the QP entered the error state: receive WQEs    *)
(* complete with WR_FLUSH_ERR and acknowledges not yet sent are dropped.   *)
flush_rsp(r) ==
  LET wcs == [i \in DOMAIN r.rq |->
                [wr |-> r.rq[i].id, status |-> "WR_FLUSH_ERR", data |-> <<>>]]
  IN  [reschedule_rsp([r EXCEPT !.state = "ERR", !.rq = <<>>, !.acks = <<>>,
                                !.nr_rd_atomic = 0, !.cq = @ \o wcs])
       EXCEPT !.nr_contig_read_acks = 0]

(* The receive WQE at the head of the queue completes in error.            *)
FailRwqe(r, status) ==
  [insert_recv_wc(r, Head(r.rq).id, status, <<>>) EXCEPT !.rq = Tail(@)]

abort_active_rwqe(r) ==
  IF r.rq = <<>> \/ r.data = <<>> THEN r ELSE FailRwqe(r, "GENERAL_ERR")

insert_async_qp_error(r) == flush_rsp(abort_active_rwqe(r))

-----------------------------------------------------------------------------
(* The list of acknowledges *)

NewAck(type, psn, expected_psn) ==
  [type |-> type, psn |-> psn, expected_psn |-> expected_psn, synd |-> "ACK",
   wr |-> 0, k |-> 0, size |-> 0, offset |-> 0, res |-> 0]

(* A NAK or ACK joins the list; one RNR NAK is enough, and a second ACK in *)
(* a row replaces the first.                                               *)
push_acknowledge(r, psn, synd) ==
  LET n    == Len(r.acks)
      same == /\ r.acks # <<>>
              /\ r.acks[n].type = "NORMAL"
              /\ r.acks[n].synd = synd
  IN  IF same /\ synd = "RNR" THEN r
      ELSE IF same /\ synd = "ACK"
           THEN [r EXCEPT !.acks[n] = NewAck("NORMAL", psn, psn + 1)]
      ELSE [r EXCEPT
              !.acks = Append(@, [NewAck("NORMAL", psn, psn + 1)
                                    EXCEPT !.synd = synd]),
              !.nr_contig_read_acks = IF synd = "ACK" THEN @ ELSE 0]

IsRdAtomicAck(a) == a.type \in {"READ", "ATOMIC"}

(* Acknowledges that overlap [psn, expected_psn) or come after it.         *)
Overlaps(a, psn, expected_psn) ==
  \/ InPsnRange(a.psn, psn, expected_psn)
  \/ /\ get_psn_diff(a.expected_psn, psn) > 0
     /\ get_psn_diff(a.expected_psn, expected_psn) <= 0
  \/ get_psn_diff(a.psn, expected_psn) >= 0

Overlapped(r, psn, expected_psn) ==
  {i \in DOMAIN r.acks : Overlaps(r.acks[i], psn, expected_psn)}

(* Mutant: the removed acknowledges stay counted. *)
RemoveUncounted(r, psn, expected_psn) ==
  [r EXCEPT !.acks = Without(@, Overlapped(r, psn, expected_psn))]

remove_overlapped_rdma_read_acknowledge(r, psn, expected_psn) ==
  LET gone == Overlapped(r, psn, expected_psn)
  IN  [r EXCEPT
         !.acks = Without(@, gone),
         !.nr_rd_atomic =
            @ - Cardinality({i \in gone : IsRdAtomicAck(r.acks[i])})]

push_rdma_read_acknowledge(r, p, expected_psn) ==
  [r EXCEPT
     !.acks = Append(@, [NewAck("READ", p.psn, expected_psn) EXCEPT
                           !.wr = p.wr, !.k = p.k, !.size = p.dmalen]),
     !.nr_rd_atomic = @ + 1]

push_atomic_acknowledge(r, psn, res) ==
  [r EXCEPT !.acks = Append(@, [NewAck("ATOMIC", psn, psn + 1)
                                  EXCEPT !.res = res]),
            !.nr_rd_atomic = @ + 1]

(* A request the responder refuses: a NAK is pushed and the QP fails.      *)
Refuse(r, psn, synd) == insert_async_qp_error(push_acknowledge(r, psn, synd))

-----------------------------------------------------------------------------
(* New requests *)

(* A packet is executed: n PSNs are consumed, and it is the last opcode.   *)
Accept(r, p, n) ==
  [r EXCEPT !.psn = @ + n, !.last_OpCode = p.op, !.log = Append(@, <<p.wr, p.k>>)]

(* The message in r.data is complete and consumes a receive WQE.           *)
CompleteRwqe(r) ==
  [insert_recv_wc(r, Head(r.rq).id, "SUCCESS", r.data) EXCEPT !.rq = Tail(@)]

(* The QP fails after the head receive WQE has completed with status.      *)
CompletionErrorRsp(r, status) == flush_rsp(FailRwqe(r, status))

(* is_fast_reg_mr is set for no region, so that pib_util_mr_invalidate     *)
(* fails for every key a SEND with Invalidate brings.                      *)
receive_SEND_packet(r, p) ==
  LET r1 == [r EXCEPT !.data = Append(@, <<p.wr, p.k>>)]
      r2 == IF IsFinit(p.op) THEN CompleteRwqe(r1) ELSE r1
  IN  IF r.rq = <<>> THEN push_acknowledge(r, p.psn, "RNR")
      ELSE IF Head(r.rq).size < Len(r.data) + 1
           THEN CompletionErrorRsp(push_acknowledge(r, p.psn, "REM_OP"),
                                   "LOC_PROT_ERR")
      ELSE IF WithInv(p.op) THEN CompletionErrorRsp(r, "MW_BIND_ERR")
      ELSE Accept(push_acknowledge(r2, p.psn, "ACK"), p, 1)

(* Mutant: a new message does not reset responder.offset. *)
KeepOffset(r, p) == receive_SEND_packet(r, p)

receive_SEND_request(r, p) ==
  receive_SEND_packet(
    IF IsInit(p.op) THEN [r EXCEPT !.data = <<>>] ELSE r, p)

receive_RDMA_WRITE_request(r0, p) ==
  LET r  == IF IsInit(p.op)
            THEN [r0 EXCEPT !.data = <<>>, !.write_rkey = p.rkey,
                            !.write_dmalen = p.dmalen]
            ELSE r0
      r1 == [r EXCEPT !.data = Append(@, <<p.wr, p.k>>)]
      r2 == IF WithImm(p.op) THEN CompleteRwqe(r1) ELSE r1
      nak == push_acknowledge(r, p.psn, "REM_ACCESS")
  IN  IF WithImm(p.op) /\ r.rq = <<>> THEN push_acknowledge(r, p.psn, "RNR")
      ELSE IF \/ r.write_dmalen < Len(r.data) + 1
              \/ IsFinit(p.op) /\ r.write_dmalen # Len(r.data) + 1
           THEN Refuse(r, p.psn, "INV_REQ")
      ELSE IF ~(r.write_rkey /\ r.mr)
           THEN IF WithImm(p.op) THEN CompletionErrorRsp(nak, "LOC_PROT_ERR")
                ELSE flush_rsp(abort_active_rwqe(nak))
      ELSE Accept(push_acknowledge(r2, p.psn, "ACK"), p, 1)

(* Only the newest max_dest_rd_atomic slots are ever searched.             *)
RememberSlot(r, p, n, res) ==
  LET slot == [op |-> p.op, psn |-> r.psn, expected_psn |-> r.psn + n,
               wr |-> p.wr, k |-> p.k, dmalen |-> p.dmalen, res |-> res]
      all  == <<slot>> \o r.slots
  IN  [r EXCEPT !.slots = IF Len(all) <= MaxDestRdAtomic THEN all
                          ELSE SubSeq(all, 1, MaxDestRdAtomic)]

(* The operands every Atomic work request of the model carries: a CAS      *)
(* takes a lock (0 -> 1), a FADD counts.                                   *)
CompareAdd(OpCode) == IF OpCode = "COMPARE_SWAP" THEN 0 ELSE 1
Swap == 1

(* The values of the two enumerations that receive_Atomic_request          *)
(* compares: wire opcodes and work request opcodes.                        *)
IB_OPCODE_RC == [COMPARE_SWAP |-> 19, FETCH_ADD |-> 20]
IB_WR_ATOMIC_CMP_AND_SWP == 5

mr_copy_data_sub(word, direction, compare) ==
  IF direction = "CAS" THEN (IF word = compare THEN Swap ELSE word)
  ELSE word + compare

receive_Atomic_request(r, p) ==
  LET direction == IF IB_OPCODE_RC[p.op] = IB_WR_ATOMIC_CMP_AND_SWP
                   THEN "CAS" ELSE "FETCHADD"
      r1 == [RememberSlot(r, p, 1, r.word) EXCEPT
               !.word = mr_copy_data_sub(@, direction, CompareAdd(p.op))]
  IN  IF MaxDestRdAtomic <= r.nr_rd_atomic THEN Refuse(r, p.psn, "INV_REQ")
      ELSE IF ~(p.rkey /\ r.mr) THEN Refuse(r, p.psn, "REM_ACCESS")
      ELSE Accept(push_atomic_acknowledge(r1, p.psn, r.word), p, 1)

(* Answer the RDMA READ request p, new or retried, whose PSNs end before   *)
(* expected_psn: it replaces the acknowledges it overlaps.                 *)
AnswerRead(r, p, expected_psn) ==
  [push_rdma_read_acknowledge(
     remove_overlapped_rdma_read_acknowledge(r, p.psn, expected_psn),
     p, expected_psn)
   EXCEPT !.nr_contig_read_acks = 0]

receive_new_RDMA_READ_request(r, p) ==
  LET expected_psn == r.psn + p.dmalen
  IN  IF ~(p.rkey /\ r.mr) THEN Refuse(r, p.psn, "REM_ACCESS")
      ELSE IF MaxDestRdAtomic <= r.nr_rd_atomic THEN Refuse(r, p.psn, "INV_REQ")
      ELSE Accept(AnswerRead(RememberSlot(r, p, p.dmalen, 0), p, expected_psn),
                  p, p.dmalen)

-----------------------------------------------------------------------------
(* Requests seen before *)

(* A retried RDMA READ must ask for the tail of the original one, and must *)
(* still find room once the acknowledges it overlaps are removed.          *)
receive_retried_RDMA_READ_request(r, p, slot) ==
  LET offset == get_psn_diff(p.psn, slot.psn)
      r1     == remove_overlapped_rdma_read_acknowledge(r, p.psn,
                                                        slot.expected_psn)
  IN  IF ~(p.rkey /\ r.mr) THEN Refuse(r, p.psn, "REM_ACCESS")
      ELSE IF \/ slot.wr # p.wr \/ slot.k + offset # p.k
              \/ slot.dmalen - offset # p.dmalen
           THEN Refuse(r, p.psn, "INV_REQ")
      ELSE IF MaxDestRdAtomic <= r1.nr_rd_atomic THEN Refuse(r1, p.psn, "INV_REQ")
      ELSE AnswerRead(r, p, slot.expected_psn)

(* A retried Atomic is answered with the result of its only execution.     *)
(* Mutant: with the word as it is now. *)
AnswerCurrentWord(r, p, slot) == push_atomic_acknowledge(r, p.psn, r.word)

receive_retried_Atomic_request(r, p, slot) ==
  push_atomic_acknowledge(r, p.psn, slot.res)

receive_duplicate(r, p) ==
  LET hits == {i \in DOMAIN r.slots :
                 /\ r.slots[i].op = p.op
                 /\ InPsnRange(p.psn, r.slots[i].psn, r.slots[i].expected_psn)}
      slot == r.slots[Min(hits)]
  IN  IF p.op \notin AtomicOpcodes \cup {"READ_REQUEST"}
      THEN push_acknowledge(r, p.psn, "ACK")
      ELSE IF hits = {} THEN Refuse(r, p.psn, "INV_REQ")
      ELSE IF p.op = "READ_REQUEST"
           THEN receive_retried_RDMA_READ_request(r, p, slot)
      ELSE receive_retried_Atomic_request(r, p, slot)

receive_new_request(r, p) ==
  IF ~pib_opcode_is_in_order_sequence(p.op, r.last_OpCode)
  THEN Refuse(r, p.psn, "INV_REQ")
  ELSE CASE p.op \in SendOpcodes  -> receive_SEND_request(r, p)
         [] p.op \in WriteOpcodes -> receive_RDMA_WRITE_request(r, p)
         [] p.op = "READ_REQUEST" -> receive_new_RDMA_READ_request(r, p)
         [] OTHER                 -> receive_Atomic_request(r, p)

(* Mutant: a request from the past is executed again. *)
NoDuplicateCheck(r, p) ==
  IF get_psn_diff(p.psn, r.psn) > 0 THEN push_acknowledge(r, p.psn, "PSN_SEQ")
  ELSE receive_new_request(r, p)

receive_request(r, p) ==
  LET psn_diff == get_psn_diff(p.psn, r.psn)
  IN  CASE psn_diff > 0 -> push_acknowledge(r, p.psn, "PSN_SEQ")
        [] psn_diff < 0 -> receive_duplicate(r, p)
        [] OTHER        -> receive_new_request(r, p)

receive_cnp_notify(r) == [r EXCEPT !.nr_contig_read_acks = 0]

-----------------------------------------------------------------------------
(* Acknowledge packets *)

Response(op, psn, synd, a) ==
  [op |-> op, psn |-> Masked(psn), synd |-> synd,
   wr |-> a.wr, k |-> a.k + a.offset, res |-> a.res]

ReadOpcode(a) ==
  IF get_psn_diff(a.expected_psn, a.psn) = 1 THEN "READ_ONLY"
  ELSE IF a.offset = 0 THEN "READ_FIRST"
  ELSE IF get_psn_diff(a.expected_psn, a.psn + a.offset) > 1 THEN "READ_MIDDLE"
  ELSE "READ_LAST"

(* The next packet of the READ acknowledge at the head of the list.  If    *)
(* the memory region is gone nothing is sent and the acknowledge stays.    *)
generate_RDMA_READ_response(r) ==
  LET a  == Head(r.acks)
      r1 == [r EXCEPT
               !.tx = <<Response(ReadOpcode(a), a.psn + a.offset, "ACK", a)>>,
               !.nr_contig_read_acks = @ + 1,
               !.acks[1].offset = @ + 1]
  IN  IF MaxContigReads < r.nr_contig_read_acks \/ ~r.mr THEN r
      ELSE IF a.offset + 1 < a.size THEN r1
      ELSE [r1 EXCEPT !.acks = Tail(@), !.nr_rd_atomic = @ - 1]

pib_generate_rc_qp_acknowledge(r) ==
  LET a == Head(r.acks)
  IN  CASE a.type = "READ" -> generate_RDMA_READ_response(r)
        [] a.type = "ATOMIC" ->
             [r EXCEPT !.tx = <<Response("ATOMIC_ACK", a.psn, "ACK", a)>>,
                       !.acks = Tail(@), !.nr_rd_atomic = @ - 1]
        [] OTHER ->
             [r EXCEPT !.tx = <<Response("ACK", a.psn, a.synd, a)>>,
                       !.acks = Tail(@)]

-----------------------------------------------------------------------------
(***************************************************************************)
(* Steps                                                                   *)
(***************************************************************************)
Init ==
  /\ req = [state |-> "RTS", submitted |-> <<>>, sending |-> <<>>,
            waiting |-> <<>>, wqe |-> <<>>, psn |-> InitPsn,
            expected_psn |-> InitPsn, nr_rd_atomic |-> 0,
            nr_contig_requests |-> 0, nr_contig_read_acks |-> 0,
            on |-> FALSE, cq |-> <<>>, tx |-> <<>>]
  /\ rsp = [state |-> "RTS", psn |-> InitPsn, last_OpCode |-> "SEND_ONLY",
            data |-> <<>>, write_rkey |-> FALSE, write_dmalen |-> 0,
            rq |-> [i \in DOMAIN Preposted |->
                      [id |-> i, size |-> Preposted[i]]],
            posted |-> Len(Preposted), acks |-> <<>>, slots |-> <<>>,
            nr_rd_atomic |-> 0, nr_contig_read_acks |-> 0, on |-> FALSE,
            cq |-> <<>>, word |-> 0, log |-> <<>>, mr |-> TRUE, tx |-> <<>>]
  /\ toRsp = <<>> /\ toReq = <<>> /\ faults = 0

(* How every step of a kernel thread on a QP ends: pib_util_reschedule_qp, *)
(* and process_sendmsg sends what is in the send buffer.                   *)
(* Mutant: ready_to_send stays set. *)
SendAgain(q0) ==
  \E q \in {q0} : req' = reschedule_req(q) /\ toRsp' = toRsp \o q.tx

RequesterStep(q0) ==
  \E q \in {q0} : /\ req' = [reschedule_req(q) EXCEPT !.tx = <<>>]
                  /\ toRsp' = toRsp \o q.tx

ResponderStep(r0) ==
  \E r \in {r0} : /\ rsp' = [reschedule_rsp(r) EXCEPT !.tx = <<>>]
                  /\ toReq' = toReq \o r.tx

(* pib_post_send of one work request.  get_ready_to_send reschedules the   *)
(* QP first and clears the flow-control counters afterwards.               *)
post_send(q, w) ==
  LET id == Len(q.wqe) + 1
      q1 == [q EXCEPT !.wqe = Append(@, NewSwqe(w))]
  IN  IF q.state = "ERR" THEN insert_send_wc(q1, id, "WR_FLUSH_ERR")
      ELSE [reschedule_req([q1 EXCEPT !.submitted = Append(@, id)])
            EXCEPT !.nr_contig_requests = 0, !.nr_contig_read_acks = 0]

PostSend ==
  /\ Len(req.wqe) < MaxWR
  /\ \E w \in WRs : req' = post_send(req, w)
  /\ UNCHANGED <<rsp, toRsp, toReq, faults>>

(* pib_post_recv of one work request.                                      *)
post_recv(r, size) ==
  LET id == r.posted + 1
      r1 == [r EXCEPT !.posted = id]
  IN  IF r.state = "ERR" THEN insert_recv_wc(r1, id, "WR_FLUSH_ERR", <<>>)
      ELSE [r1 EXCEPT !.rq = Append(@, [id |-> id, size |-> size])]

PostRecv ==
  /\ rsp.posted < MaxRecv
  /\ \E size \in RecvSizes : rsp' = post_recv(rsp, size)
  /\ UNCHANGED <<req, toRsp, toReq, faults>>

(* The responder's application deregisters the memory region.              *)
DeregMr ==
  /\ MayDereg /\ rsp.mr
  /\ rsp' = [rsp EXCEPT !.mr = FALSE]
  /\ UNCHANGED <<req, toRsp, toReq, faults>>

(* Start a submitted WQE if none is being sent, and send a packet.         *)
first_sending_wsqe(q0) == \E q \in {StartNext(q0)} : RequesterStep(SendFirst(q))

(* process_on_qp_scheduler on the requesting node, no timer having expired *)
RequesterPass ==
  /\ req.on
  /\ Len(toRsp) < WireCap
  /\ first_sending_wsqe(req)
  /\ UNCHANGED <<rsp, toReq, faults>>

(* No answer is under way and the responder is not about to send one.      *)
Quiet ==
  /\ toRsp = <<>> /\ toReq = <<>>
  /\ rsp.on => Head(rsp.acks).type = "READ" /\ ~rsp.mr

(* process_on_qp_scheduler when the first waiting WQE has waited for its   *)
(* local ACK timeout.  A timer that expires too early is one of the faults.*)
TimeoutPass ==
  /\ req.on
  /\ req.waiting # <<>>
  /\ Len(toRsp) < WireCap
  /\ IF Quiet THEN UNCHANGED faults
     ELSE faults < MaxFaults /\ faults' = faults + 1
  /\ first_sending_wsqe(LocalAckTimeout(req))
  /\ UNCHANGED <<rsp, toReq>>

(* process_incoming_message_per_qp on the requesting node.  A QP in error  *)
(* drops what it receives.                                                 *)
ReceiveResponse ==
  /\ toReq # <<>>
  /\ toReq' = Tail(toReq)
  /\ RequesterStep(IF req.state = "ERR" THEN req
                   ELSE receive_response(req, Head(toReq)))
  /\ UNCHANGED <<rsp, faults>>

(* pib_receive_rc_qp_incoming_message on the responding node.  A packet    *)
(* taken for an acknowledge finds no send WQE there.                       *)
receive_packet(r, p) ==
  IF r.state = "ERR" THEN r
  ELSE IF p.op = "CNP" THEN receive_cnp_notify(r)
  ELSE IF pib_opcode_is_acknowledge(p.op) THEN r
  ELSE receive_request(r, p)

ReceiveRequest ==
  /\ toRsp # <<>>
  /\ Len(rsp.acks) < AckCap
  /\ toRsp' = Tail(toRsp)
  /\ ResponderStep(receive_packet(rsp, Head(toRsp)))
  /\ UNCHANGED <<req, faults>>

(* process_on_qp_scheduler on the responding node.                         *)
ResponderPass ==
  /\ rsp.on
  /\ Len(toReq) < WireCap
  /\ ResponderStep(pib_generate_rc_qp_acknowledge(rsp))
  /\ UNCHANGED <<req, toRsp, faults>>

(* UDP may lose a datagram, repeat it or delay it past the others.         *)
Disturbed(wire) ==
  {w \in {Tail(wire), Append(wire, Head(wire)), Append(Tail(wire), Head(wire))} :
     Len(w) <= WireCap}

NetworkFault ==
  /\ faults < MaxFaults
  /\ faults' = faults + 1
  /\ \/ toRsp # <<>> /\ toRsp' \in Disturbed(toRsp) /\ UNCHANGED toReq
     \/ toReq # <<>> /\ toReq' \in Disturbed(toReq) /\ UNCHANGED toRsp
  /\ UNCHANGED <<req, rsp>>

Next ==
  \/ PostSend \/ PostRecv \/ DeregMr
  \/ RequesterPass \/ TimeoutPass \/ ReceiveResponse
  \/ ReceiveRequest \/ ResponderPass
  \/ NetworkFault

Spec == Init /\ [][Next]_vars

(* The two kernel threads keep running and datagrams not lost arrive.  The *)
(* applications need not post anything and the network need not disturb.   *)
Fairness ==
  /\ WF_vars(RequesterPass) /\ WF_vars(TimeoutPass /\ UNCHANGED faults)
  /\ WF_vars(ReceiveResponse)
  /\ WF_vars(ReceiveRequest) /\ WF_vars(ResponderPass)

FairSpec == Spec /\ Fairness

-----------------------------------------------------------------------------
(***************************************************************************)
(* Correctness                                                             *)
(***************************************************************************)
(* Where the packets of the two wires come from. *)
RequestType ==
  [op : RequestOpcodes \cup {"CNP"}, psn : Int, wr : Nat, k : Int,
   dmalen : Int, rkey : BOOLEAN]
ResponseType ==
  [op : {"ACK", "ATOMIC_ACK", "READ_ONLY", "READ_FIRST", "READ_MIDDLE",
         "READ_LAST"},
   psn : Int, synd : Syndromes, wr : Nat, k : Int, res : Int]
SwqeType ==
  [wr : WRs, based_psn : Int, expected_psn : Int, sent_packets : Int,
   ack_packets : Int, retry_cnt : Int, rnr_retry : Int, status : Statuses,
   data : Seq([wr : Nat, k : Int, skew : BOOLEAN]), res : Int]
ReqType ==
  [state : {"RTS", "ERR"}, submitted : Seq(Nat), sending : Seq(Nat),
   waiting : Seq(Nat), wqe : Seq(SwqeType), psn : Int, expected_psn : Int,
   nr_rd_atomic : Int, nr_contig_requests : Nat, nr_contig_read_acks : Nat,
   on : BOOLEAN, cq : Seq([wr : Nat, status : Statuses]),
   tx : Seq(RequestType)]
AckType ==
  [type : {"NORMAL", "READ", "ATOMIC"}, psn : Int, expected_psn : Int,
   synd : Syndromes, wr : Nat, k : Int, size : Int, offset : Int, res : Int]
RspType ==
  [state : {"RTS", "ERR"}, psn : Int, last_OpCode : RequestOpcodes,
   data : Seq(Nat \X Int), write_rkey : BOOLEAN, write_dmalen : Int,
   rq : Seq([id : Nat, size : Nat]), posted : Nat, acks : Seq(AckType),
   slots : Seq([op : RequestOpcodes, psn : Int, expected_psn : Int, wr : Nat,
                k : Int, dmalen : Int, res : Int]),
   nr_rd_atomic : Int, nr_contig_read_acks : Nat, on : BOOLEAN,
   cq : Seq([wr : Nat, status : Statuses, data : Seq(Nat \X Int)]),
   word : Int, log : Seq(Nat \X Int), mr : BOOLEAN, tx : Seq(ResponseType)]

(* Every list names WQEs that exist.                                       *)
ListsOK(q) ==
  /\ q.submitted \in Seq(DOMAIN q.wqe)
  /\ q.sending \in Seq(DOMAIN q.wqe)
  /\ q.waiting \in Seq(DOMAIN q.wqe)

(* The two queue pairs, their lists and the datagrams are well formed, and *)
(* the send buffer of a node is empty between two steps of its thread.     *)
TypeOK ==
  /\ req \in ReqType /\ ListsOK(req) /\ req.tx = <<>>
  /\ rsp \in RspType /\ rsp.tx = <<>>
  /\ toRsp \in Seq(RequestType) /\ toReq \in Seq(ResponseType)
  /\ faults \in Nat

-----------------------------------------------------------------------------
Op(i)   == req.wqe[i].wr.op
Pkts(i) == req.wqe[i].wr.pkts
Outstanding(q) == Started(q) \o q.submitted

(* The waiting, sending and submitted lists of q hold, in this order, the  *)
(* work requests after number c, and so all of them.                       *)
OrderedFrom(q, c) ==
  InOrder(q.waiting, q.sending, q.submitted, Len(q.wqe), c)

CompletedInOrder(cq) == \A i \in 1 .. Len(cq) : cq[i].wr = i

(* Work requests complete in the order they were posted, each once: the    *)
(* send CQ, then the waiting, sending and submitted lists hold consecutive *)
(* work requests, whatever moved between the lists for a retry.            *)
QueueOrder == CompletedInOrder(req.cq) /\ OrderedFrom(req, Len(req.cq))

(* After an error completion a send queue only ever flushes: WR_FLUSH_ERR  *)
(* follows, and no success overtakes it.                                   *)
ErrorEndsQueue ==
  \A i, j \in DOMAIN req.cq :
    i < j /\ req.cq[i].status # "SUCCESS" => req.cq[j].status = "WR_FLUSH_ERR"

(* The started WQEs cut the PSNs from requester.psn to                     *)
(* requester.expected_psn into consecutive ranges, none lost in a retry.   *)
PsnChain ==
  LET all == Started(req)
      E(j) == req.wqe[all[j]]
  IN  req.state = "RTS" =>
        /\ \A j \in DOMAIN all :
             /\ E(j).expected_psn = E(j).based_psn + E(j).wr.pkts
             /\ j > 1 => E(j).based_psn = E(j - 1).expected_psn
        /\ all # <<>> => /\ req.psn = Masked(E(1).based_psn)
                         /\ req.expected_psn = E(Len(all)).expected_psn
        /\ all = <<>> => req.psn = Masked(req.expected_psn)

(* The counters that limit RDMA READ and Atomic operations count them:     *)
(* BUG_ON(nr_rd_atomic < 0) never fires, max_rd_atomic is respected, and   *)
(* the responder counts exactly the answers it has still to send.          *)
RdAtomicCount ==
  /\ req.nr_rd_atomic = Cardinality({j \in DOMAIN Started(req) :
       pib_is_wr_opcode_rd_atomic(Op(Started(req)[j]))})
  /\ req.nr_rd_atomic <= MaxRdAtomic
  /\ rsp.nr_rd_atomic =
       Cardinality({i \in DOMAIN rsp.acks : IsRdAtomicAck(rsp.acks[i])})

(* A work request with a fence is not sent while an RDMA READ or Atomic    *)
(* operation posted before it is unanswered.                               *)
FenceHolds ==
  \A i, j \in DOMAIN Started(req) :
    i < j /\ req.wqe[Started(req)[j]].wr.fence
      => ~pib_is_wr_opcode_rd_atomic(Op(Started(req)[i]))

-----------------------------------------------------------------------------
(* An RDMA READ is executed as one request, whatever its length.           *)
ExecPackets(i) == IF Op(i) = "READ" THEN 1 ELSE Pkts(i)

(* The responder executes every packet exactly once and in order: its log  *)
(* is a prefix of the packets of the posted work requests, and its PSN is  *)
(* the one the requester assigned to the next of them.                     *)
ExactlyOnceInOrder ==
  /\ \A j \in DOMAIN rsp.log :
       rsp.log[j] =
         IF j = 1 THEN <<1, 0>>
         ELSE LET i == rsp.log[j - 1][1]
                  k == rsp.log[j - 1][2]
              IN  IF k + 1 < ExecPackets(i) THEN <<i, k + 1>> ELSE <<i + 1, 0>>
  /\ rsp.log # <<>> =>
       LET last == rsp.log[Len(rsp.log)]
           e    == req.wqe[last[1]]
       IN  rsp.psn = IF e.wr.op = "READ" THEN e.expected_psn
                     ELSE e.based_psn + last[2] + 1

Executed(i) == <<i, ExecPackets(i) - 1>> \in {rsp.log[j] : j \in DOMAIN rsp.log}

(* The requester never believes more than the responder did: what counts   *)
(* as acknowledged was executed, and a WR completes with success only when *)
(* its last packet was.                                                    *)
SuccessMeansExecuted ==
  /\ \A i \in DOMAIN req.cq : req.cq[i].status = "SUCCESS" => Executed(i)
  /\ \A j \in DOMAIN Started(req) :
       LET e == req.wqe[Started(req)[j]]
       IN  e.ack_packets > 0 => e.based_psn + e.ack_packets <= rsp.psn

(* A successful RDMA READ returns every packet of its memory once and in   *)
(* order, and a successful Atomic the value before its one execution,      *)
(* however often either was retried.                                       *)
ResultsAreExact ==
  \A i \in DOMAIN req.cq : req.cq[i].status = "SUCCESS" =>
    /\ Op(i) = "READ" =>
         req.wqe[i].data = [k \in 1 .. Pkts(i) |->
                              [wr |-> i, k |-> k - 1, skew |-> FALSE]]
    /\ Op(i) = "FADD" =>
         req.wqe[i].res = Cardinality({x \in 1 .. i - 1 : Op(x) = "FADD"})

(* The work requests that consume a receive WQE.                           *)
NeedsRecv(w) == w.op \in {"SEND", "SEND_INV", "WRITE_IMM"}
Receives(i)  == NeedsRecv(req.wqe[i].wr)

(* The n-th message that needs a receive WQE completes the n-th receive    *)
(* WQE, with all its packets and nothing else, as soon as its last packet  *)
(* is executed.                                                            *)
ReceivesWholeMessages ==
  LET done == {i \in DOMAIN req.wqe : Receives(i) /\ Executed(i)}
      oks  == {j \in DOMAIN rsp.cq : rsp.cq[j].status = "SUCCESS"}
  IN  /\ Cardinality(oks) = Cardinality(done)
      /\ \A j \in oks :
           /\ rsp.cq[j].wr = j
           /\ \E i \in done :
                /\ Cardinality({x \in done : x <= i}) = j
                /\ rsp.cq[j].data = [k \in 1 .. Pkts(i) |-> <<i, k - 1>>]

-----------------------------------------------------------------------------
(* Neither thread has the QP in its scheduling tree and no datagram is     *)
(* under way: only an application can wake the connection up.              *)
Asleep == ~req.on /\ ~rsp.on /\ toRsp = <<>> /\ toReq = <<>>

(* A connection with work left is never forgotten by the scheduler.  The   *)
(* check is for windows that do not close: 03design.txt:81 says a WQE the  *)
(* window stops goes to the waiting list, where its local ACK timer runs,  *)
(* but the code leaves it on the sending list (see the findings).          *)
NoStall == Asleep => Outstanding(req) = <<>>

(* Legal work requests survive: no more faults than the retry limits allow *)
(* never put a queue pair in the error state.                              *)
SurvivesFaults == req.state = "RTS" /\ rsp.state = "RTS"

(* A retry cancels packets sent, never packets acknowledged, and what the  *)
(* responder executed or completed stays.                                  *)
NoProgressLost ==
  [][ /\ \A i \in DOMAIN req.wqe :
           req'.wqe[i].ack_packets >= req.wqe[i].ack_packets
      /\ rsp'.psn >= rsp.psn
      /\ SubSeq(rsp'.cq, 1, Len(rsp.cq)) = rsp.cq ]_vars

(* Every work request posted is completed, successfully or in error.       *)
EveryPostCompletes ==
  \A i \in 1 .. MaxWR : Len(req.wqe) >= i ~> Len(req.cq) >= i

-----------------------------------------------------------------------------
(* The connection as its applications see it: the work requests posted,    *)
(* how many of them are executed, the work requests whose messages the     *)
(* successful completions of the receive queue hold, and the outcomes in   *)
(* the send CQ.                                                            *)
Posted    == [i \in DOMAIN req.wqe |-> req.wqe[i].wr]
Delivered == Cardinality({i \in DOMAIN req.wqe : Executed(i)})
Received  == [j \in {j \in DOMAIN rsp.cq : rsp.cq[j].status = "SUCCESS"} |->
                rsp.cq[j].data[1][1]]
Outcomes  == [i \in DOMAIN req.cq |->
                IF req.cq[i].status = "SUCCESS" THEN "OK" ELSE "ERR"]

Service == INSTANCE PibService WITH
  posted <- Posted, delivered <- Delivered, received <- Received,
  completed <- Outcomes

(* Packets, acknowledges, retries and timers implement the reliable        *)
(* service: ordered, at most once, complete only when executed, and one    *)
(* error ends it.                                                          *)
ImplementsService == Service!Spec

-----------------------------------------------------------------------------
(* What comments of the repository say and the code does not do. *)

(* pib_rc.c:2006: a response out of order means that one was lost and the  *)
(* READ should be sent again; a lost datagram never fails a legal request. *)
LostResponseIsRetried ==
  \A i \in DOMAIN req.cq : req.cq[i].status # "BAD_RESP_ERR"
=============================================================================
