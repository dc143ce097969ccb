-------------------------------- MODULE PibQP --------------------------------
(***************************************************************************)
(* One queue pair as the verbs see it: creation, the state machine of      *)
(* pib_modify_qp, posting, reset, the send queue drained state, errors and *)
(* destruction, against the passes of the kernel thread.                   *)
(*                                                                         *)
(* PibRC has the packets; here the other side answers, refuses or stays    *)
(* silent as it likes, and what matters is what becomes of the WQEs.  A    *)
(* WQE is one of MaxSendWr objects that are reused, as in the driver: it   *)
(* is on the free list or on one of the three send lists.                  *)
(***************************************************************************)
EXTENDS Integers, Sequences, FiniteSets, Functions

CONSTANTS
  QpTypes,      \* the transport types of the QPs that may be created
  MaxSendWr,    \* ib_qp_init_attr.cap.max_send_wr
  MaxRecvWr,    \* ib_qp_init_attr.cap.max_recv_wr
  MaxPost,      \* bound: send work requests posted between two resets
  MaxPostRecv,  \* bound: receive work requests posted between two resets
  MaxEpoch      \* bound: resets, creations and destructions

ASSUME QPAssumption ==
  /\ QpTypes \subseteq {"RC", "UD"}
  /\ {MaxSendWr, MaxRecvWr, MaxPost, MaxPostRecv,
   MaxEpoch} \subseteq Nat

VARIABLES
  qp,       \* struct pib_qp, with the completions it left in its CQs
  halted    \* the thread ran into BUG(), holding qp->lock

vars == <<qp, halted>>

Opcodes == {"SEND", "LOCAL_INV"}
States  == {"NONE", "RESET", "INIT", "RTR", "RTS", "SQD", "SQE", "ERR"}
Swqes   == 1 .. MaxSendWr

-----------------------------------------------------------------------------
(* Completions.  Of a CQE only the life of the QP it belongs to matters    *)
(* here; done is history: the work requests of this life that have         *)
(* completed, in order.                                                    *)
insert_wc(q) == [q EXCEPT !.cq = Append(@, q.life)]

insert_send_wc(q, wr) ==
  [insert_wc(q) EXCEPT !.done = Append(@, wr)]

pib_util_free_send_wqe(q, i) == [q EXCEPT !.free = Append(@, i)]

Idle(q) == q.sending = <<>> /\ q.waiting = <<>>

(* The WQEs in use, in the order in which the lists are walked, and the    *)
(* numbers of their work requests.                                         *)
Left(q) == q.waiting \o q.sending \o q.submitted
OpenWrs(q) == [k \in 1 .. Len(Left(q)) |-> q.swqe[Left(q)[k]].wr]

-----------------------------------------------------------------------------
(* pib_util_flush_qp: the WQEs of waiting, sending and submitted complete  *)
(* with WR_FLUSH_ERR in that order; unless send_only, so do the posted     *)
(* receive WQEs.                                                           *)
(* Mutant: the flushed WQEs are not returned to the free list. *)
LoseFlushed(q) ==
  [q EXCEPT !.cq = @ \o [k \in 1 .. Len(Left(q)) |-> q.life],
            !.done = @ \o OpenWrs(q),
            !.waiting = <<>>, !.sending = <<>>, !.submitted = <<>>]

FlushSends(q) ==
  [q EXCEPT !.cq = @ \o [k \in 1 .. Len(Left(q)) |-> q.life],
            !.done = @ \o OpenWrs(q), !.free = @ \o Left(q),
            !.waiting = <<>>, !.sending = <<>>, !.submitted = <<>>]

FlushRecvs(q) ==
  [q EXCEPT !.cq = @ \o [k \in 1 .. q.nr_recv |-> q.life],
            !.nr_recv = 0, !.rfree = @ + q.nr_recv]

(* Mutant: only the send queue. *)
FlushSendsOnly(q) == FlushSends(q)

pib_util_flush_qp(q) == FlushRecvs(FlushSends(q))

ToError(q) == pib_util_flush_qp([q EXCEPT !.state = "ERR"])
ToSendError(q) == FlushSends([q EXCEPT !.state = "SQE"])

(* What an error completion does to the QP depends on its type. *)
(* Mutant: an RC QP stops like a UD QP. *)
AlwaysSendError(q) == ToSendError(q)

FailQP(q) == IF q.type = "RC" THEN ToError(q) ELSE ToSendError(q)

(* reset_qp: WQEs are freed without a completion and the completions the   *)
(* QP left in its CQs are taken back.                                      *)
(* Mutant: they stay. *)
ResetKeepsCompletions(q) ==
  [q EXCEPT !.free = @ \o Left(q),
            !.waiting = <<>>, !.sending = <<>>, !.submitted = <<>>,
            !.rfree = @ + q.nr_recv, !.nr_recv = 0, !.drained = FALSE,
            !.life = @ + 1, !.posted = <<>>, !.done = <<>>, !.precv = 0]

reset_qp(q) ==
  [q EXCEPT !.free = @ \o Left(q),
            !.waiting = <<>>, !.sending = <<>>, !.submitted = <<>>,
            !.rfree = @ + q.nr_recv, !.nr_recv = 0, !.drained = FALSE,
            !.cq = <<>>, !.life = @ + 1, !.posted = <<>>, !.done = <<>>,
            !.precv = 0]

-----------------------------------------------------------------------------
(* Verbs *)

(* ib_modify_qp_is_ok of the kernel: the transitions a consumer may ask    *)
(* for, and those for which it may also say which state it believes the    *)
(* QP is in (IB_QP_CUR_STATE).                                             *)
ib_modify_qp_is_ok(cur, new) ==
  \/ new \in {"RESET", "ERR"}
  \/ <<cur, new>> \in {<<"RESET", "INIT">>, <<"INIT", "INIT">>,
                       <<"INIT", "RTR">>, <<"RTR", "RTS">>, <<"RTS", "RTS">>,
                       <<"RTS", "SQD">>, <<"SQD", "SQD">>, <<"SQD", "RTS">>,
                       <<"SQE", "RTS">>}
MayClaim(cur, new) == new = "RTS" /\ cur \in {"RTR", "RTS", "SQD", "SQE"}

(* The side reactions of a change of state, in the order of the code: the  *)
(* send queue counts as drained whenever both lists were empty before.     *)
SideReaction(q, cur, new) ==
  LET p == CASE new = "RESET" -> reset_qp([q EXCEPT !.state = new])
             [] new = "ERR"   -> ToError(q)
             [] OTHER         -> [q EXCEPT !.state = new]
  IN  [p EXCEPT !.drained = /\ Idle(q) \/ @
                            /\ ~(cur = "SQD" /\ new # "SQD")]

(* pib_modify_qp with IB_QP_STATE; cur is the state the consumer claims,   *)
(* or the QP's own.  A QP that drains may neither stay in SQD by request   *)
(* nor return to RTS.                                                      *)
pib_modify_qp(cur, new) ==
  /\ qp.state # "NONE"
  /\ cur = qp.state \/ MayClaim(cur, new)
  /\ cur = "SQD" /\ new \in {"SQD", "RTS"} => Idle(qp) /\ qp.drained
  /\ ib_modify_qp_is_ok(cur, new)
  /\ new = "RESET" => qp.life < MaxEpoch
  /\ qp' = SideReaction(qp, cur, new)
  /\ UNCHANGED halted

(* pib_create_qp, once every allocation succeeded. *)
NewSwqe == [wr |-> 0, op |-> "SEND", local |-> FALSE, sent |-> FALSE,
            status |-> "SUCCESS"]

NewQP(type, life, cq) ==
  [type |-> type, state |-> "RESET", swqe |-> [i \in Swqes |-> NewSwqe],
   free |-> [i \in Swqes |-> i], submitted |-> <<>>, sending |-> <<>>,
   waiting |-> <<>>, nr_recv |-> 0, rfree |-> MaxRecvWr, drained |-> FALSE,
   cq |-> cq, life |-> life, posted |-> <<>>, done |-> <<>>, precv |-> 0]

pib_create_qp(type) ==
  /\ qp.state = "NONE" /\ qp.life < MaxEpoch
  /\ qp' = NewQP(type, qp.life, qp.cq)
  /\ UNCHANGED halted

(* pib_destroy_qp: a reset, and the WQEs are returned to the system. *)
pib_destroy_qp ==
  /\ qp.state # "NONE" /\ qp.life < MaxEpoch
  /\ qp' = [reset_qp(qp) EXCEPT !.state = "NONE"]
  /\ UNCHANGED halted

(* pib_post_send: nothing clears local_only_request of a reused WQE. *)
TakeSwqe(q, op) ==
  LET i == Head(q.free)
  IN  [q EXCEPT !.posted = Append(@, op), !.free = Tail(@),
                !.submitted = Append(@, i),
                !.swqe[i] = [wr |-> Len(q.posted) + 1, op |-> op,
                             local |-> \/ q.swqe[i].local
                                       \/ q.type = "RC" /\ op = "LOCAL_INV",
                             sent |-> FALSE, status |-> "SUCCESS"]]

FlushPosted(q, op) ==
  insert_send_wc([q EXCEPT !.posted = Append(@, op)], Len(q.posted) + 1)

pib_post_send(op) ==
  /\ Len(qp.posted) < MaxPost
  /\ \/ /\ qp.state \in {"ERR", "SQE"}
        /\ qp' = FlushPosted(qp, op)
     \/ /\ qp.state \in {"RTR", "RTS", "SQD"} /\ qp.free # <<>>
        /\ qp' = TakeSwqe(qp, op)
  /\ UNCHANGED halted

pib_post_recv ==
  /\ qp.precv < MaxPostRecv
  /\ LET q == [qp EXCEPT !.precv = @ + 1]
     IN  \/ /\ qp.state = "ERR"
            /\ qp' = insert_wc(q)
         \/ /\ qp.state \in {"INIT", "RTR", "RTS", "SQD", "SQE"}
            /\ qp.rfree > 0
            /\ qp' = [q EXCEPT !.nr_recv = @ + 1, !.rfree = @ - 1]
  /\ UNCHANGED halted

pib_poll_cq ==
  /\ qp.cq # <<>>
  /\ qp' = [qp EXCEPT !.cq = Tail(@)]
  /\ UNCHANGED halted

-----------------------------------------------------------------------------
(* The kernel thread: one pass of process_on_qp_scheduler *)

(* The waiting list goes back in front of the sending list.                *)
(* Mutant: behind it. *)
ResendLast(q) == [q EXCEPT !.sending = @ \o q.waiting, !.waiting = <<>>]

Resend(q) == [q EXCEPT !.sending = q.waiting \o @, !.waiting = <<>>]

(* A local-only request at the head of the waiting list.  If it fails it   *)
(* is completed, then flushed with the rest, then freed once more, which   *)
(* moves it to the end of the free list; if it succeeds nobody is told.    *)
LocalFails(q) ==
  LET i == Head(q.waiting)
  IN  [ToError(insert_send_wc(q, q.swqe[i].wr))
       EXCEPT !.free = q.free \o Tail(Left(q)) \o <<i>>]

LocalSucceeds(q) ==
  pib_util_free_send_wqe([q EXCEPT !.waiting = Tail(@)], Head(q.waiting))

LocalAtHead(q) == q.waiting # <<>> /\ q.swqe[Head(q.waiting)].local

(* The opcode switch of pib_process_local_only_request ends in BUG(). *)
LocalOnlyPass ==
  /\ qp.state \in {"RTS", "SQD"} /\ LocalAtHead(qp)
  /\ IF qp.swqe[Head(qp.waiting)].op = "LOCAL_INV"
     THEN /\ qp' \in {LocalSucceeds(qp), LocalFails(qp)}
          /\ UNCHANGED halted
     ELSE halted' = TRUE /\ UNCHANGED qp

(* Mutant: also when the send queue is to be drained. *)
StartInSqd(q) ==
  IF q.submitted # <<>>
  THEN [q EXCEPT !.sending = <<Head(q.submitted)>>, !.submitted = Tail(@)]
  ELSE q

process_new_send_wr(q) ==
  IF q.state = "RTS" /\ q.submitted # <<>>
  THEN [q EXCEPT !.sending = <<Head(q.submitted)>>, !.submitted = Tail(@)]
  ELSE q

(* Complete the first sending WQE in error, fail the QP and free the WQE.  *)
CompletionError(q) ==
  LET i == Head(q.sending)
      p == [insert_send_wc(q, q.swqe[i].wr) EXCEPT !.sending = Tail(@)]
  IN  pib_util_free_send_wqe(FailQP(p), i)

(* pib_process_rc_qp_request: a packet and more to come, the last packet,  *)
(* or an error that waits for the WQEs ahead.  A local-only request has    *)
(* nothing to send.                                                        *)
RcRequest(q) ==
  LET i == Head(q.sending)
      Sent == [q EXCEPT !.sending = Tail(@), !.waiting = Append(@, i),
                        !.swqe[i].sent = TRUE]
  IN  IF q.swqe[i].local THEN {Sent}
      ELSE {q, Sent, [q EXCEPT !.swqe[i].status = "ERR"]}

(* pib_process_ud_qp_request: sent and complete, or failed. *)
UdRequest(q) ==
  LET i == Head(q.sending)
      p == insert_send_wc(q, q.swqe[i].wr)
      Sent == pib_util_free_send_wqe([p EXCEPT !.sending = Tail(@)], i)
  IN  {CompletionError(q)} \cup (IF q.swqe[i].op = "SEND" THEN {Sent} ELSE {})

process_send_wr(q) ==
  IF q.swqe[Head(q.sending)].status # "SUCCESS"
  THEN IF q.waiting # <<>> THEN {q} ELSE {CompletionError(q)}
  ELSE IF q.type = "RC" THEN RcRequest(q) ELSE UdRequest(q)

FirstSending(q) ==
  LET p == IF q.sending = <<>> THEN process_new_send_wr(q) ELSE q
  IN  IF p.sending = <<>> THEN {p} ELSE process_send_wr(p)

SchedulerPass ==
  /\ qp.state \in {"RTS", "SQD"} /\ ~LocalAtHead(qp)
  /\ qp' \in FirstSending(qp) \cup
             (IF qp.waiting # <<>> THEN FirstSending(Resend(qp)) ELSE {})
  /\ UNCHANGED halted

-----------------------------------------------------------------------------
(* Incoming packets *)

(* The tail of receive_response: was this the answer the drain waited for? *)
(* Mutant: nobody looks. *)
NotDrained(q) == q

SqDrained(q) ==
  [q EXCEPT !.drained = @ \/ (q.state = "SQD" /\ Idle(q))]

DropFirst(q) ==
  IF q.waiting # <<>> THEN [q EXCEPT !.waiting = Tail(@)]
                      ELSE [q EXCEPT !.sending = Tail(@)]

(* receive_response for the oldest started request: acknowledged, refused  *)
(* for good, or to be sent again.  The other side never saw a local-only   *)
(* request, so no acknowledge reaches it.                                  *)
receive_response ==
  /\ qp.type = "RC" /\ qp.state \in {"RTR", "RTS", "SQD", "SQE"}
  /\ ~Idle(qp)
  /\ LET i == Head(qp.waiting \o qp.sending)
         e == qp.swqe[i]
         done == DropFirst(insert_send_wc(qp, e.wr))
     IN  \/ /\ ~e.local /\ e.sent /\ e.status = "SUCCESS"
            /\ qp' = SqDrained(pib_util_free_send_wqe(done, i))
         \/ /\ ~e.local
            /\ qp' = pib_util_free_send_wqe(ToError(done), i)
         \/ qp' = Resend(qp)
  /\ UNCHANGED halted

(* A message for the responder: the first receive WQE completes, or fails  *)
(* the QP, or (UD, too short) is used up without a completion.             *)
receive_request ==
  /\ qp.state \in {"RTR", "RTS", "SQD", "SQE"} /\ qp.nr_recv > 0
  /\ LET q == [qp EXCEPT !.nr_recv = @ - 1, !.rfree = @ + 1]
     IN  \/ qp' = insert_wc(q)
         \/ qp' = ToError(insert_wc(q))
         \/ qp.type = "UD" /\ qp' = q
  /\ UNCHANGED halted

(* A CQ, an SRQ or an injected error fails the QP whatever its state. *)
InjectError ==
  /\ qp.state # "NONE"
  /\ qp' = ToError(qp)
  /\ UNCHANGED halted

-----------------------------------------------------------------------------
Init ==
  /\ qp = [NewQP("RC", 0, <<>>) EXCEPT !.state = "NONE"]
  /\ halted = FALSE

Verbs ==
  \/ \E t \in QpTypes : pib_create_qp(t)
  \/ \E cur, new \in States : pib_modify_qp(cur, new)
  \/ \E op \in Opcodes : pib_post_send(op)
  \/ pib_post_recv
  \/ pib_poll_cq
  \/ pib_destroy_qp

Thread ==
  \/ LocalOnlyPass
  \/ SchedulerPass
  \/ receive_response
  \/ receive_request
  \/ InjectError

(* Once the thread ran into BUG() it holds qp->lock for ever. *)
Next == ~halted /\ (Verbs \/ Thread)

Spec == Init /\ [][Next]_vars

-----------------------------------------------------------------------------
(* Properties *)

SwqeType == [wr : 0 .. MaxPost, op : Opcodes, local : BOOLEAN,
             sent : BOOLEAN, status : {"SUCCESS", "ERR"}]
QpType   == [type : {"RC", "UD"}, state : States, swqe : [Swqes -> SwqeType],
             free : Seq(Swqes), submitted : Seq(Swqes), sending : Seq(Swqes),
             waiting : Seq(Swqes), nr_recv : 0 .. MaxRecvWr,
             rfree : 0 .. MaxRecvWr, drained : BOOLEAN,
             cq : Seq(0 .. MaxEpoch), life : 0 .. MaxEpoch,
             posted : Seq(Opcodes), done : Seq(1 .. MaxPost),
             precv : 0 .. MaxPostRecv]

(* The queue pair is well formed, and only a UD QP knows the SQE state, as *)
(* pib_modify_qp and process_send_wr both take care of.                    *)
TypeOK ==
  /\ qp \in QpType
  /\ halted \in BOOLEAN
  /\ qp.type = "RC" => qp.state # "SQE"

(* Whatever sequence of posts, passes, answers, errors and resets, each of *)
(* the max_send_wr send WQEs is on exactly one of the four lists and the   *)
(* receive WQEs add up: none leaks, none is queued twice (the free list is *)
(* the only limit pib_post_send checks).                                   *)
WqesConserved ==
  LET all == qp.free \o Left(qp)
  IN  /\ \A i \in Swqes : Cardinality({k \in DOMAIN all : all[k] = i}) = 1
      /\ qp.rfree + qp.nr_recv = MaxRecvWr

(* Every SEND posted since the last reset has completed once or is on one  *)
(* of the lists, and read together they are in the order of posting.  (A   *)
(* Local Invalidate that fails completes twice, one that succeeds never.)  *)
Posted(q, line) ==
  /\ \A k, l \in 1 .. Len(line) : k < l =>
       \/ line[k] < line[l]
       \/ line[k] = line[l] /\ q.posted[line[k]] # "SEND"
  /\ \A w \in 1 .. Len(q.posted) :
       q.posted[w] = "SEND" => \E k \in 1 .. Len(line) : line[k] = w

PostedOrder == Posted(qp, qp.done \o OpenWrs(qp))

(* A reset forgets: no completion of an earlier life of the QP can still   *)
(* be polled, and a QP in RESET or gone has nothing posted (reset_qp,      *)
(* pib_util_remove_cq).                                                    *)
ResetForgets ==
  /\ \A k \in DOMAIN qp.cq : qp.cq[k] = qp.life
  /\ qp.state \in {"NONE", "RESET"} =>
       /\ Idle(qp) /\ qp.submitted = <<>> /\ qp.nr_recv = 0 /\ qp.cq = <<>>

(* However the error state was entered, nothing stays outstanding in it:   *)
(* no send in ERR or SQE, no receive in ERR (pib_util_flush_qp).           *)
ErrorFlushes ==
  /\ qp.state \in {"ERR", "SQE"} => Idle(qp) /\ qp.submitted = <<>>
  /\ qp.state = "ERR" => qp.nr_recv = 0

(* A send queue that has drained is known to be drained, so that           *)
(* pib_modify_qp lets the QP leave SQD; for a QP that was never given a    *)
(* local-only request, whose end no code path of the drain looks at.       *)
DrainIsNoticed ==
  /\ qp.state = "SQD" /\ Idle(qp) /\ \A i \in Swqes : ~qp.swqe[i].local
  => qp.drained

(* While the QP stays in SQD no submitted WQE is started: what is sending  *)
(* or waiting was so before (process_new_send_wr).                         *)
SqdStartsNothing ==
  [][ qp.state = "SQD" /\ qp'.state = "SQD" =>
      Range(qp'.sending \o qp'.waiting) \subseteq
      Range(qp.sending \o qp.waiting) ]_vars

(* The opcode switch of pib_process_local_only_request never meets a       *)
(* request that is neither Local Invalidate nor Fast Register.             *)
NeverBug == ~halted

=============================================================================
