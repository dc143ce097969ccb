------------------------------ MODULE PibDevice ------------------------------
(***************************************************************************)
(* What the queue pairs of one device share: completion queues, a shared   *)
(* receive queue and the work queue of the device's thread.                *)
(*                                                                         *)
(* Completions are put in a CQ by the thread and, when they are flushed,   *)
(* by the application's own calls.  A CQ that overflows queues a work; the *)
(* thread runs it under dev->lock and fails the attached QPs one by one,   *)
(* each under its own lock, and each flush may overflow the next CQ.  The  *)
(* consumer of a CQ is the usual loop: wait for the completion event,      *)
(* request the next one, poll until empty.                                 *)
(***************************************************************************)
EXTENDS Integers, Sequences, FiniteSets, Functions

CONSTANTS
  CQs,          \* completion queues
  QPs,          \* RC queue pairs, all of them attached to the SRQ
  SendCq,       \* ib_qp_init_attr.send_cq
  RecvCq,       \* ib_qp_init_attr.recv_cq
  Notify,       \* the flag each consumer passes to pib_req_notify_cq
  Solicited,    \* the queue pairs whose peers set IB_SEND_SOLICITED
  CqEntries,    \* ib_cq.cqe
  MaxSrqWr,     \* ib_srq_attr.max_wr
  Limits,       \* the values of ib_srq_attr.srq_limit a consumer may set
  MaxPost,      \* bound: send work requests posted
  MaxPostSrq,   \* bound: receive work requests posted to the SRQ
  MaxModify     \* bound: calls of pib_modify_srq, resets and injected errors

ASSUME DeviceAssumption ==
  /\ IsFiniteSet(QPs) /\ "inject" \notin CQs
  /\ SendCq \in [QPs -> CQs] /\ RecvCq \in [QPs -> CQs]
  /\ Notify \in [CQs -> {"NEXT_COMP", "SOLICITED"}]
  /\ CqEntries \in Nat \ {0} /\ Limits \subseteq Nat /\ Solicited \subseteq QPs
  /\ {MaxSrqWr, MaxPost, MaxPostSrq, MaxModify} \subseteq Nat

VARIABLES
  dev,        \* struct pib_dev: its CQs, QPs, SRQ and scheduled works
  consumer,   \* where the consumer of each CQ is in its loop
  picked,     \* the thread found a work and holds dev->lock
  failing,    \* QPs the running work has yet to fail, under dev->lock
  calls       \* calls made so far, for the bounds

vars == <<dev, consumer, picked, failing, calls>>

SRQ == "SRQ"

(* The entries of s at the places I, in their order. *)
Entries(s, I) ==
  [j \in 1 .. Cardinality(I) |->
     s[CHOOSE i \in I : Cardinality({m \in I : m <= i}) = j]]

-----------------------------------------------------------------------------
(* The work queue *)

(* pib_queue_work.  process_on_wq_scheduler removes the first work after   *)
(* it released wq_sched.lock.  An append that runs at the same time to a   *)
(* list of one hangs the new work on the removed one: the new work is lost *)
(* and, if its write of head->prev came last, so are all later ones.       *)
pib_queue_work(d, w, race) ==
  IF d.broken THEN [d EXCEPT !.lost = @ \cup {w}]
  ELSE IF race # "no" /\ Len(d.works) = 1
  THEN [d EXCEPT !.lost = @ \cup {w}, !.broken = (race = "broken")]
  ELSE [d EXCEPT !.works = Append(@, w)]

(* Mutant: the work stays queued. *)
ForgetCancel(d, w) == d

(* pib_cancel_work.  Unlinking a lost work makes head->prev point to the   *)
(* work it hangs on, outside the list.                                     *)
pib_cancel_work(d, w) ==
  [d EXCEPT !.works = Entries(@, {i \in DOMAIN d.works : d.works[i] # w}),
            !.broken = @ \/ w \in d.lost]

-----------------------------------------------------------------------------
(* Completion queues *)

NewCq == [state |-> "OK", mem |-> "live", cqes |-> <<>>, free |-> CqEntries,
          notify_flag |-> "NONE", has_notified |-> TRUE, event |-> FALSE,
          reported |-> FALSE]

(* A completion: sol is what insert_wc is told for solicited, owed why a   *)
(* consumer that asked for solicited completions only expects this one.    *)
(* insert_wc compares sol with notify_flag and does not keep it.           *)
Owed == {"no", "solicited", "error"}
Completions == {wc \in [sol : BOOLEAN, owed : Owed] : wc.owed = "error" => wc.sol}

Wakes(k, sol) == \/ k.notify_flag = "NEXT_COMP"
                 \/ k.notify_flag = "SOLICITED" /\ sol

(* n calls of insert_wc in a row: refused by a CQ in error; the call that  *)
(* finds no free CQE queues the work; before that the consumer is told     *)
(* once per request.                                                       *)
Fill(k, q, wc, n) ==
  LET m == IF n <= k.free THEN n ELSE k.free
      wake == m > 0 /\ Wakes(k, wc.sol) /\ ~k.has_notified
  IN  [k EXCEPT !.state = IF n <= k.free THEN "OK" ELSE "ERR",
                !.free = @ - m,
                !.cqes = @ \o [i \in 1 .. m |-> [qp |-> q, owed |-> wc.owed]],
                !.has_notified = @ \/ wake, !.event = @ \/ wake]

(* Mutant: the overflow is not reported. *)
OverflowSilently(d, c, q, wc, n, race) ==
  IF d.cq[c].state # "OK" THEN d
  ELSE [d EXCEPT !.cq[c] = Fill(d.cq[c], q, wc, n)]

insert_wcs(d, c, q, wc, n, race) ==
  LET k == d.cq[c]
      filled == [d EXCEPT !.cq[c] = Fill(k, q, wc, n)]
  IN  IF k.state # "OK" THEN d
      ELSE IF n <= k.free THEN filled
      ELSE pib_queue_work(filled, c, race)

insert_wc(d, c, q, wc, race) == insert_wcs(d, c, q, wc, 1, race)

(* pib_util_insert_wc_error: an error completion counts as solicited. *)
ErrorWc == [sol |-> TRUE, owed |-> "error"]

insert_wc_error(d, c, q, race) == insert_wc(d, c, q, ErrorWc, race)

(* Mutant: a CQE taken back is not free again. *)
RemoveNotFree(k, q) ==
  [k EXCEPT !.cqes = Entries(@, {i \in DOMAIN k.cqes : k.cqes[i].qp # q})]

pib_util_remove_cq(k, q) ==
  LET left == Entries(k.cqes, {i \in DOMAIN k.cqes : k.cqes[i].qp # q})
  IN  [k EXCEPT !.cqes = left, !.free = @ + Len(k.cqes) - Len(left)]

-----------------------------------------------------------------------------
(* The shared receive queue *)

NewSrq == [state |-> "OK", nr_recv_wqe |-> 0, free |-> MaxSrqWr, lost |-> 0,
           srq_limit |-> 0, issue_srq_limit |-> FALSE, events |-> 0]

(* pib_util_get_srq: the WQE leaves the SRQ; below the limit the consumer  *)
(* is told, once per pib_modify_srq.  events counts since then.            *)
(* Mutant: told every time. *)
GetAndTellAgain(s) ==
  LET n == s.nr_recv_wqe - 1
      tell == s.srq_limit # 0 /\ n < s.srq_limit
  IN  [s EXCEPT !.nr_recv_wqe = n, !.events = IF tell THEN @ + 1 ELSE @]

pib_util_get_srq(s) ==
  LET n == s.nr_recv_wqe - 1
      tell == s.srq_limit # 0 /\ ~s.issue_srq_limit /\ n < s.srq_limit
  IN  [s EXCEPT !.nr_recv_wqe = n, !.issue_srq_limit = @ \/ tell,
                !.events = IF tell THEN @ + 1 ELSE @]

pib_util_free_recv_wqe(d) == [d EXCEPT !.srq.free = @ + 1]

-----------------------------------------------------------------------------
(* Queue pairs: sends counts the send WQEs, rq is 1 while a message uses a *)
(* WQE of the SRQ.                                                         *)
NewQp == [state |-> "RTS", sends |-> 0, rq |-> 0]

(* pib_util_flush_qp: sends first, then the WQE of the message in progress *)
(* Mutant: the WQE is completed but not returned to the SRQ. *)
FlushLosesRwqe(d, q, race) ==
  LET sends == insert_wcs(d, SendCq[q], q, ErrorWc, d.qp[q].sends, race)
      recvs == IF d.qp[q].rq = 1
               THEN insert_wc_error(sends, RecvCq[q], q, race) ELSE sends
  IN  [recvs EXCEPT !.qp[q] = [state |-> "ERR", sends |-> 0, rq |-> 0]]

FlushToError(d, q, race) ==
  LET sends == insert_wcs(d, SendCq[q], q, ErrorWc, d.qp[q].sends, race)
      recvs == IF d.qp[q].rq = 1
               THEN pib_util_free_recv_wqe(
                      insert_wc_error(sends, RecvCq[q], q, race))
               ELSE sends
  IN  [recvs EXCEPT !.qp[q] = [state |-> "ERR", sends |-> 0, rq |-> 0]]

(* What the handler of a work does before it walks over the QPs of the     *)
(* device, and the QPs it is going to fail then.                           *)
Living(d, attached) == {q \in attached : d.qp[q].state # "NONE"}

pib_util_insert_async_cq_error(d, c) ==
  [dev |-> [d EXCEPT !.cq[c].state = "ERR", !.cq[c].reported = TRUE],
   failing |-> Living(d, {q \in QPs : c \in {SendCq[q], RecvCq[q]}})]

pib_util_insert_async_srq_error(d) ==
  [dev |-> [d EXCEPT !.srq.state = "ERR"], failing |-> Living(d, QPs)]

(* reset_qp: WQEs freed, completions taken back. *)
reset_qp(d, q, state) ==
  [d EXCEPT !.qp[q] = [state |-> state, sends |-> 0, rq |-> 0],
            !.srq.free = @ + d.qp[q].rq,
            !.cq = [c \in CQs |->
                      IF c \in {SendCq[q], RecvCq[q]}
                      THEN pib_util_remove_cq(d.cq[c], q) ELSE d.cq[c]]]

-----------------------------------------------------------------------------
(* Calls of the application.  They run beside the thread; those that need  *)
(* dev->lock wait while it is held.  Raced is whether pib_queue_work meets *)
(* the thread's removal of a work.                                         *)
DevLocked == picked \/ failing # {}
Raced == IF picked THEN {"no", "lost", "broken"} ELSE {"no"}

Bounded(call, max) == /\ calls[call] < max
                      /\ calls' = [calls EXCEPT ![call] = @ + 1]

pib_post_send(q) ==
  /\ Bounded("send", MaxPost)
  /\ \/ /\ dev.qp[q].state = "RTS"
        /\ dev' = [dev EXCEPT !.qp[q].sends = @ + 1]
     \/ /\ dev.qp[q].state = "ERR"
        /\ \E race \in Raced : dev' = insert_wc_error(dev, SendCq[q], q, race)
  /\ UNCHANGED <<consumer, picked, failing>>

(* pib_modify_qp to ERR, and to RESET and on to RTS again. *)
ModifyToErr(q) ==
  /\ dev.qp[q].state = "RTS" /\ Bounded("modify", MaxModify)
  /\ \E race \in Raced : dev' = FlushToError(dev, q, race)
  /\ UNCHANGED <<consumer, picked, failing>>

ModifyToReset(q) ==
  /\ dev.qp[q].state # "NONE" /\ Bounded("modify", MaxModify)
  /\ dev' = reset_qp(dev, q, "RTS")
  /\ UNCHANGED <<consumer, picked, failing>>

pib_destroy_qp(q) ==
  /\ dev.qp[q].state # "NONE" /\ ~DevLocked
  /\ dev' = reset_qp(dev, q, "NONE")
  /\ UNCHANGED <<consumer, picked, failing, calls>>

(* pib_destroy_cq, which the kernel allows when no QP uses the CQ: first   *)
(* the CQEs under cq->lock, then the work and the CQ under dev->lock.      *)
DestroyCqes(c) ==
  /\ dev.cq[c].mem = "live"
  /\ \A q \in QPs : c \in {SendCq[q], RecvCq[q]} => dev.qp[q].state = "NONE"
  /\ dev' = [dev EXCEPT !.cq[c].mem = "freed", !.cq[c].cqes = <<>>,
                        !.cq[c].free = 0]
  /\ consumer' = [consumer EXCEPT ![c] = "gone"]
  /\ UNCHANGED <<picked, failing, calls>>

pib_destroy_cq(c) ==
  /\ dev.cq[c].mem = "freed" /\ ~DevLocked
  /\ dev' = pib_cancel_work([dev EXCEPT !.cq[c].mem = "gone"], c)
  /\ UNCHANGED <<consumer, picked, failing, calls>>

(* pib_post_srq_recv, in any state of the SRQ.  A request that is too long *)
(* is refused after its WQE left the free list, which loses the WQE.       *)
pib_post_srq_recv ==
  /\ dev.srq.free > 0 /\ Bounded("srq", MaxPostSrq)
  /\ dev' \in {[dev EXCEPT !.srq.free = @ - 1, !.srq.nr_recv_wqe = @ + 1],
               [dev EXCEPT !.srq.free = @ - 1, !.srq.lost = @ + 1]}
  /\ UNCHANGED <<consumer, picked, failing>>

pib_modify_srq(limit) ==
  /\ dev.srq.state = "OK" /\ Bounded("modify", MaxModify)
  /\ dev' = [dev EXCEPT !.srq.srq_limit = limit, !.srq.events = 0,
                        !.srq.issue_srq_limit = FALSE]
  /\ UNCHANGED <<consumer, picked, failing>>

(* inject_err_write: one error at a time. *)
inject_err_write(target) ==
  /\ ~DevLocked /\ Bounded("modify", MaxModify)
  /\ "inject" \notin Range(dev.works) \cup dev.lost
  /\ dev' = pib_queue_work([dev EXCEPT !.inject = target], "inject", "no")
  /\ UNCHANGED <<consumer, picked, failing>>

-----------------------------------------------------------------------------
(* The consumer's loop *)

GetEvent(c) ==
  /\ consumer[c] = "wait" /\ dev.cq[c].event
  /\ dev' = [dev EXCEPT !.cq[c].event = FALSE]
  /\ consumer' = [consumer EXCEPT ![c] = "arm"]
  /\ UNCHANGED <<picked, failing, calls>>

(* Mutant: the request is noted, has_notified is not cleared. *)
ArmOnce(k, flag) == [k EXCEPT !.notify_flag = flag]

Arm(k, flag) == [k EXCEPT !.notify_flag = flag, !.has_notified = FALSE]

pib_req_notify_cq(c) ==
  /\ consumer[c] = "arm"
  /\ IF dev.cq[c].state = "OK"
     THEN /\ dev' = [dev EXCEPT !.cq[c] = Arm(dev.cq[c], Notify[c])]
          /\ consumer' = [consumer EXCEPT ![c] = "poll"]
     ELSE /\ consumer' = [consumer EXCEPT ![c] = "gone"]
          /\ UNCHANGED dev
  /\ UNCHANGED <<picked, failing, calls>>

pib_poll_cq(c) ==
  /\ consumer[c] = "poll"
  /\ IF dev.cq[c].state # "OK"
     THEN consumer' = [consumer EXCEPT ![c] = "gone"] /\ UNCHANGED dev
     ELSE IF dev.cq[c].cqes = <<>>
     THEN consumer' = [consumer EXCEPT ![c] = "wait"] /\ UNCHANGED dev
     ELSE /\ dev' = [dev EXCEPT !.cq[c].cqes = Tail(@), !.cq[c].free = @ + 1]
          /\ UNCHANGED consumer
  /\ UNCHANGED <<picked, failing, calls>>

-----------------------------------------------------------------------------
(* The thread *)

(* A send WQE completes, or fails the QP and is flushed with the rest. *)
CompleteSend(q) ==
  /\ ~DevLocked /\ dev.qp[q].state = "RTS" /\ dev.qp[q].sends > 0
  /\ LET d == [dev EXCEPT !.qp[q].sends = @ - 1]
         wc == [sol |-> FALSE, owed |-> "no"]
     IN  \/ dev' = insert_wc(d, SendCq[q], q, wc, "no")
         \/ dev' = FlushToError(insert_wc_error(d, SendCq[q], q, "no"), q,
                                "no")
  /\ UNCHANGED <<consumer, picked, failing, calls>>

(* The first packet of a SEND moves one WQE from the SRQ to the QP. *)
(* Mutant: whether or not there is one. *)
TakeFromEmpty(s) == s.state = "OK"

SrqHasWqe(s) == s.state = "OK" /\ s.nr_recv_wqe > 0

ReceiveFirst(q) ==
  /\ ~DevLocked /\ dev.qp[q].state = "RTS" /\ dev.qp[q].rq = 0
  /\ SrqHasWqe(dev.srq)
  /\ dev' = [dev EXCEPT !.srq = pib_util_get_srq(dev.srq), !.qp[q].rq = 1]
  /\ UNCHANGED <<consumer, picked, failing, calls>>

(* The last one completes it.  For its solicited bit the code passes the   *)
(* pad count, of which only whether it is zero matters.                    *)
Received(q, padded) ==
  [sol |-> padded, owed |-> IF q \in Solicited THEN "solicited" ELSE "no"]

ReceiveLast(q, padded) ==
  /\ ~DevLocked /\ dev.qp[q].state = "RTS" /\ dev.qp[q].rq = 1
  /\ LET d == [dev EXCEPT !.qp[q].rq = 0]
     IN  \/ dev' = pib_util_free_recv_wqe(
                     insert_wc(d, RecvCq[q], q, Received(q, padded), "no"))
         \/ dev' = FlushToError(
                     pib_util_free_recv_wqe(
                       insert_wc_error(d, RecvCq[q], q, "no")), q, "no")
  /\ UNCHANGED <<consumer, picked, failing, calls>>

(* process_on_wq_scheduler: take dev->lock and find the first work, then   *)
(* remove it, run it and release the lock.                                 *)
PickWork ==
  /\ ~DevLocked /\ dev.works # <<>>
  /\ picked' = TRUE
  /\ UNCHANGED <<dev, consumer, failing, calls>>

pib_inject_err_handler(d) ==
  CASE d.inject \in CQs /\ d.cq[d.inject].mem # "gone" ->
         pib_util_insert_async_cq_error(d, d.inject)
    [] d.inject \in QPs -> [dev |-> d, failing |-> Living(d, {d.inject})]
    [] d.inject = SRQ    -> pib_util_insert_async_srq_error(d)
    [] OTHER             -> [dev |-> d, failing |-> {}]

RunWork ==
  /\ picked
  /\ LET w == Head(dev.works)
         d == [dev EXCEPT !.works = Tail(@)]
         run == IF w = "inject" THEN pib_inject_err_handler(d)
                ELSE pib_util_insert_async_cq_error(d, w)
     IN  dev' = run.dev /\ failing' = run.failing
  /\ picked' = FALSE
  /\ UNCHANGED <<consumer, calls>>

(* One QP of the walk, under its own lock. *)
FailNext(q) ==
  /\ q \in failing
  /\ dev' = FlushToError(dev, q, "no")
  /\ failing' = failing \ {q}
  /\ UNCHANGED <<consumer, picked, calls>>

-----------------------------------------------------------------------------
Init ==
  /\ dev = [cq |-> [c \in CQs |-> NewCq], qp |-> [q \in QPs |-> NewQp],
            srq |-> NewSrq, works |-> <<>>, lost |-> {},
            broken |-> FALSE, inject |-> SRQ]
  /\ consumer = [c \in CQs |-> "arm"]
  /\ picked = FALSE /\ failing = {}
  /\ calls = [k \in {"send", "srq", "modify"} |-> 0]

Application ==
  \/ \E q \in QPs : \/ pib_post_send(q) \/ ModifyToErr(q)
                    \/ ModifyToReset(q) \/ pib_destroy_qp(q)
  \/ \E c \in CQs : DestroyCqes(c) \/ pib_destroy_cq(c)
  \/ pib_post_srq_recv
  \/ \E limit \in Limits : pib_modify_srq(limit)
  \/ \E t \in CQs \cup QPs \cup {SRQ} : inject_err_write(t)

Consumer(c) ==
  \/ GetEvent(c)
  \/ pib_req_notify_cq(c)
  \/ pib_poll_cq(c)

Transport ==
  \E q \in QPs : \/ CompleteSend(q) \/ ReceiveFirst(q)
                 \/ \E padded \in BOOLEAN : ReceiveLast(q, padded)

Next == Application \/ (\E c \in CQs : Consumer(c)) \/ Transport
        \/ PickWork \/ RunWork \/ (\E q \in QPs : FailNext(q))

Spec == Init /\ [][Next]_vars

-----------------------------------------------------------------------------
(* Properties *)

CqType == [state : {"OK", "ERR"}, mem : {"live", "freed", "gone"},
           cqes : Seq([qp : QPs, owed : Owed]), free : 0 .. CqEntries,
           notify_flag : {"NONE", "NEXT_COMP", "SOLICITED"},
           has_notified : BOOLEAN, event : BOOLEAN, reported : BOOLEAN]
SrqType == [state : {"OK", "ERR"}, nr_recv_wqe : 0 .. MaxSrqWr,
            free : 0 .. MaxSrqWr, lost : 0 .. MaxSrqWr, srq_limit : Nat,
            issue_srq_limit : BOOLEAN, events : Nat]

(* The device is well formed; no counter leaves its range. *)
TypeOK ==
  /\ dev.cq \in [CQs -> CqType] /\ dev.srq \in SrqType
  /\ dev.qp \in [QPs -> [state : {"RTS", "ERR", "NONE"}, sends : 0 .. MaxPost,
                         rq : {0, 1}]]
  /\ dev.works \in Seq(CQs \cup {"inject"})
  /\ dev.lost \subseteq CQs \cup {"inject"} /\ dev.broken \in BOOLEAN
  /\ dev.inject \in CQs \cup QPs \cup {SRQ}
  /\ consumer \in [CQs -> {"arm", "poll", "wait", "gone"}]
  /\ picked \in BOOLEAN /\ failing \subseteq QPs

(* No CQE is lost or made by polling, flushing, reset and overflow: a CQ   *)
(* can always hold ib_cq.cqe completions.                                  *)
CqesConserved ==
  \A c \in CQs : dev.cq[c].mem = "live" =>
                   dev.cq[c].free + Len(dev.cq[c].cqes) = CqEntries

(* A receive WQE of the SRQ is free, posted or in use by one QP, through   *)
(* errors, resets and destructions of the QPs that share it; the only ones *)
(* missing were lost by posts that pib_post_srq_recv refused as too long.  *)
SrqWqesConserved ==
  /\ dev.srq.free + dev.srq.nr_recv_wqe + dev.srq.lost
       + Cardinality({q \in QPs : dev.qp[q].rq = 1}) = MaxSrqWr

(* A consumer asleep in the usual loop misses no completion when it asked  *)
(* for all, and no failure when it asked for solicited ones: while it      *)
(* waits with no event under way, what its CQ holds are successes and it   *)
(* asked for solicited completions only (insert_wc against                 *)
(* pib_req_notify_cq and pib_poll_cq).                                     *)
NoLostWakeup ==
  \A c \in CQs :
    LET k == dev.cq[c]
    IN  consumer[c] = "wait" /\ ~k.event /\ k.state = "OK" =>
          \A i \in DOMAIN k.cqes :
            k.notify_flag = "SOLICITED" /\ k.cqes[i].owed # "error"

(* "Add solicited event processing" (ChangesLog): a consumer that asked    *)
(* for solicited completions only does not sleep over one.  Does not hold: *)
(* the pad count of the last packet decides, not its solicited bit.        *)
SolicitedWakes ==
  \A c \in CQs :
    LET k == dev.cq[c]
    IN  consumer[c] = "wait" /\ ~k.event /\ k.state = "OK" =>
          \A i \in DOMAIN k.cqes : k.cqes[i].owed # "solicited"

(* A work is queued at most once and never for a CQ whose memory was       *)
(* returned (pib_destroy_cq cancels it under dev->lock).                   *)
WorksAreLive ==
  /\ \A i, j \in DOMAIN dev.works : dev.works[i] = dev.works[j] => i = j
  /\ \A c \in CQs \cap Range(dev.works) : dev.cq[c].mem # "gone"

(* SRQ_LIMIT_REACHED is raised at most once for each pib_modify_srq.       *)
LimitEventOnce == dev.srq.events <= 1

(* The overflow of a CQ is never forgotten: a CQ in error was reported to  *)
(* its consumer, or its work is still queued, or it was destroyed, unless  *)
(* the race of process_on_wq_scheduler lost the work; through cascades of  *)
(* overflows, cancelled works and injected errors.                         *)
OverflowIsReported ==
  \A c \in CQs :
    dev.cq[c].state = "ERR" /\ dev.cq[c].mem # "gone" =>
      dev.cq[c].reported \/ c \in Range(dev.works) \cup dev.lost

=============================================================================
