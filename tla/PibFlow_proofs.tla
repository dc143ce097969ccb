--------------------------- MODULE PibFlow_proofs ---------------------------
(***************************************************************************)
(* Packet sequence numbers, the limit on RDMA READ and Atomic operations,  *)
(* fences, errors and progress of PibRC: PsnChain, FenceHolds,             *)
(* ErrorEndsQueue, RdAtomicCount and NoProgressLost, proved on top of the  *)
(* order of the lists (PibRC_proofs).                                      *)
(* Since the lists hold consecutive work requests, all of it is said of    *)
(* the numbers c + 1 .. Begun(q) of the work requests under way.           *)
(***************************************************************************)
EXTENDS PibRC_proofs

(* The work requests started so far; those after it are submitted.         *)
Begun(q) == Len(q.wqe) - Len(q.submitted)

IsRd(e) == pib_is_wr_opcode_rd_atomic(e.wr.op)

(* The PSN after those of work request i.                                  *)
PsnAfter(q, i) == IF i = 0 THEN InitPsn ELSE q.wqe[i].expected_psn

(* The first n work requests cut the PSNs from InitPsn on into ranges.     *)
Chained(q, n) ==
  \A i \in 1 .. n :
    /\ q.wqe[i].based_psn = PsnAfter(q, i - 1)
    /\ q.wqe[i].expected_psn = q.wqe[i].based_psn + q.wqe[i].wr.pkts

Psns(q, c) ==
  q.state = "RTS" => /\ Chained(q, Begun(q))
                     /\ q.psn = Masked(PsnAfter(q, c))
                     /\ q.expected_psn = PsnAfter(q, Begun(q))

(* The RDMA READ and Atomic operations under way. *)
RdAtomics(q, c) == {i \in c + 1 .. Begun(q) : IsRd(q.wqe[i])}

Counts(q, c) == /\ q.nr_rd_atomic = Cardinality(RdAtomics(q, c))
                /\ q.nr_rd_atomic <= MaxRdAtomic

Fences(q, c) ==
  \A j \in c + 1 .. Begun(q) :
    q.wqe[j].wr.fence => \A i \in c + 1 .. j - 1 : ~IsRd(q.wqe[i])

(* An error is followed by flushed work requests only, and a queue pair    *)
(* that has not failed has seen none.                                      *)
AllGood(cq)  == \A i \in 1 .. Len(cq) : cq[i].status = "SUCCESS"
ErrsLast(cq) ==
  \A i, j \in 1 .. Len(cq) :
    i < j /\ cq[i].status # "SUCCESS" => cq[j].status = "WR_FLUSH_ERR"
Errs(q) == ErrsLast(q.cq) /\ (q.state = "RTS" => AllGood(q.cq))

Flow(q, c) == Psns(q, c) /\ Counts(q, c) /\ Fences(q, c) /\ Errs(q)

FlowInv(q) == ReqInv(q) /\ Flow(q, Len(q.cq))

-----------------------------------------------------------------------------
(* Operations that leave all of this alone: they move WQEs between the     *)
(* waiting and the sending list or change their counters and status.       *)
SameWqes(l, m) ==
  /\ Len(m) = Len(l)
  /\ \A i \in 1 .. Len(l) : /\ m[i].wr = l[i].wr
                            /\ m[i].based_psn = l[i].based_psn
                            /\ m[i].expected_psn = l[i].expected_psn

SameFlow(q, p) ==
  /\ p.state = q.state /\ p.cq = q.cq /\ p.psn = q.psn
  /\ p.expected_psn = q.expected_psn /\ p.nr_rd_atomic = q.nr_rd_atomic
  /\ Len(p.submitted) = Len(q.submitted) /\ SameWqes(q.wqe, p.wqe)

(* The numbers of work requests that a queue pair counts with.             *)
LEMMA Numbers ==
  ASSUME NEW q, NEW c \in Nat, Requester(q, c)
  PROVE  /\ Begun(q) \in Nat /\ c <= Begun(q) /\ Begun(q) <= Len(q.wqe)
         /\ Begun(q) = c + Len(Started(q)) /\ Len(q.wqe) \in Nat
         /\ Len(q.submitted) \in Nat
         /\ \A i \in 1 .. Len(q.wqe) : q.wqe[i] \in SwqeType
<1>1. /\ q.waiting \in Seq(Nat) /\ q.sending \in Seq(Nat) /\ q.wqe \in Seq(SwqeType)
      /\ q.submitted \in Seq(Nat)
      /\ InOrder(q.waiting, q.sending, q.submitted, Len(q.wqe), c)
  BY RequesterFacts
<1>2. Len(Started(q)) = Len(q.waiting) + Len(q.sending)
  BY ListsExist
<1> DEFINE W == Len(q.waiting)
           S == Len(q.sending)
           U == Len(q.submitted)
           N == Len(q.wqe)
           L == Len(Started(q))
<1>3. W \in Nat /\ S \in Nat /\ U \in Nat /\ N \in Nat
  BY <1>1
<1>4. N = c + W + S + U /\ L = W + S
  BY <1>1, <1>2 DEF InOrder
<1>5. Begun(q) = N - U
  BY DEF Begun
<1>6. \A i \in 1 .. N : q.wqe[i] \in SwqeType
  BY <1>1
<1> HIDE DEF W, S, U, N, L
<1>7. Begun(q) \in Nat /\ c <= Begun(q) /\ Begun(q) <= N /\ Begun(q) = c + L
  BY <1>3, <1>4, <1>5
<1> QED
  BY <1>3, <1>6, <1>7 DEF N, L, U

(* What Flow depends on: a copy may hold more submitted work requests.     *)
Copies(q, p) ==
  /\ p.state = q.state /\ p.cq = q.cq /\ p.psn = q.psn
  /\ p.expected_psn = q.expected_psn /\ p.nr_rd_atomic = q.nr_rd_atomic
  /\ Begun(p) = Begun(q)
  /\ \A i \in 1 .. Begun(q) : /\ p.wqe[i].wr = q.wqe[i].wr
                              /\ p.wqe[i].based_psn = q.wqe[i].based_psn
                              /\ p.wqe[i].expected_psn = q.wqe[i].expected_psn

LEMMA CopyKeepsFlow ==
  ASSUME NEW q, NEW p, NEW c \in Nat, Begun(q) \in Nat, c <= Begun(q),
         Flow(q, c), Copies(q, p)
  PROVE  Flow(p, c)
<1> DEFINE n == Begun(q)
<1> HIDE DEF n
<1>3. /\ n \in Nat /\ c <= n /\ Begun(p) = n /\ Begun(q) = n
  BY DEF n, Copies
<1>4. \A i \in 1 .. n : /\ p.wqe[i].wr = q.wqe[i].wr
                        /\ p.wqe[i].based_psn = q.wqe[i].based_psn
                        /\ p.wqe[i].expected_psn = q.wqe[i].expected_psn
  BY DEF n, Copies
<1>5. \A i \in 0 .. n : PsnAfter(p, i) = PsnAfter(q, i)
  BY <1>3, <1>4 DEF PsnAfter
<1>6. Psns(p, c)
  <2>1. Chained(q, n) => Chained(p, n)
    <3> SUFFICES ASSUME Chained(q, n), NEW i \in 1 .. n
                 PROVE  /\ p.wqe[i].based_psn = PsnAfter(p, i - 1)
                        /\ p.wqe[i].expected_psn = p.wqe[i].based_psn + p.wqe[i].wr.pkts
      BY DEF Chained
    <3>1. i - 1 \in 0 .. n
      BY <1>3
    <3> QED BY <1>4, <1>5, <3>1 DEF Chained
  <2>2. p.state = q.state /\ p.psn = q.psn /\ p.expected_psn = q.expected_psn
    BY DEF Copies
  <2>3. PsnAfter(p, c) = PsnAfter(q, c) /\ PsnAfter(p, n) = PsnAfter(q, n)
    BY <1>3, <1>5
  <2> QED BY <1>3, <2>1, <2>2, <2>3 DEF Psns, Flow
<1>7. \A i \in c + 1 .. n : i \in 1 .. n /\ IsRd(p.wqe[i]) = IsRd(q.wqe[i])
  BY <1>3, <1>4 DEF IsRd
<1>8. Counts(p, c)
  <2>1. RdAtomics(p, c) = RdAtomics(q, c)
    BY <1>3, <1>7 DEF RdAtomics
  <2> QED BY <2>1 DEF Counts, Flow, Copies
<1>9. Fences(p, c)
  <2> SUFFICES ASSUME NEW j \in c + 1 .. n, p.wqe[j].wr.fence,
                      NEW i \in c + 1 .. j - 1
               PROVE  ~IsRd(p.wqe[i])
    BY <1>3 DEF Fences
  <2>1. i \in c + 1 .. n
    BY <1>3
  <2>2. q.wqe[j].wr.fence
    BY <1>4, <1>7
  <2>3. ~IsRd(q.wqe[i])
    BY <1>3, <2>2 DEF Flow, Fences
  <2> QED BY <1>7, <2>1, <2>3
<1>10. Errs(p)
  BY DEF Flow, Errs, Copies
<1> QED
  BY <1>6, <1>8, <1>9, <1>10 DEF Flow

LEMMA SameKeepsFlow ==
  ASSUME NEW q, NEW p, NEW c \in Nat, Requester(q, c), Flow(q, c), SameFlow(q, p)
  PROVE  Flow(p, c)
<1>1. /\ Begun(q) \in Nat /\ c <= Begun(q) /\ Begun(q) <= Len(q.wqe)
      /\ Len(q.wqe) \in Nat
  BY Numbers
<1>2. Begun(p) = Begun(q)
  BY DEF Begun, SameFlow, SameWqes
<1>3. \A i \in 1 .. Begun(q) : i \in 1 .. Len(q.wqe)
  BY <1>1
<1>4. Copies(q, p)
  BY <1>2, <1>3 DEF SameFlow, SameWqes, Copies
<1> QED BY <1>1, <1>4, CopyKeepsFlow

LEMMA SameRefl ==
  ASSUME NEW q
  PROVE  SameFlow(q, q)
BY DEF SameFlow, SameWqes

LEMMA SameTrans ==
  ASSUME NEW q, NEW p, NEW r, SameFlow(q, p), SameFlow(p, r)
  PROVE  SameFlow(q, r)
<1>1. SameWqes(q.wqe, r.wqe)
  BY DEF SameFlow, SameWqes
<1> QED BY <1>1 DEF SameFlow

LEMMA SameUpdate ==
  ASSUME NEW q \in ReqType, NEW wqe, SameWqes(q.wqe, wqe)
  PROVE  SameFlow(q, [q EXCEPT !.wqe = wqe])
BY DEF SameFlow, ReqType

(* Changing one WQE, but neither its work request nor its PSNs.            *)
LEMMA SameSet ==
  ASSUME NEW q \in ReqType, NEW id \in DOMAIN q.wqe, NEW e,
         e.wr = q.wqe[id].wr, e.based_psn = q.wqe[id].based_psn,
         e.expected_psn = q.wqe[id].expected_psn
  PROVE  SameFlow(q, [q EXCEPT !.wqe[id] = e])
<1> DEFINE wqe == [q.wqe EXCEPT ![id] = e]
<1>1. q.wqe \in Seq(SwqeType) /\ Len(q.wqe) \in Nat /\ DOMAIN q.wqe = 1 .. Len(q.wqe)
  BY ReqFields
<1>2. Len(wqe) = Len(q.wqe)
  <2>1. DOMAIN wqe = 1 .. Len(q.wqe)
    BY <1>1
  <2> HIDE DEF wqe
  <2> QED BY <1>1, <2>1
<1>3. \A i \in 1 .. Len(q.wqe) : /\ wqe[i].wr = q.wqe[i].wr
                                 /\ wqe[i].based_psn = q.wqe[i].based_psn
                                 /\ wqe[i].expected_psn = q.wqe[i].expected_psn
  BY <1>1
<1>4. [q EXCEPT !.wqe[id] = e] = [q EXCEPT !.wqe = wqe]
  OBVIOUS
<1> HIDE DEF wqe
<1>5. SameWqes(q.wqe, wqe)
  BY <1>2, <1>3 DEF SameWqes
<1> QED BY <1>4, <1>5, SameUpdate

LEMMA reschedule_reqSame ==
  ASSUME NEW q \in ReqType
  PROVE  SameFlow(q, reschedule_req(q))
<1> DEFINE on == /\ q.state = "RTS"
                 /\ q.waiting # <<>> \/ SendDue(q) \/ StartDue(q)
<1>1. reschedule_req(q) = [q EXCEPT !.on = on]
  BY DEF reschedule_req
<1> HIDE DEF on
<1> QED BY <1>1 DEF SameFlow, SameWqes, ReqType

LEMMA ToWaitingSame ==
  ASSUME NEW q \in ReqType
  PROVE  SameFlow(q, ToWaiting(q))
<1> DEFINE w == Append(q.waiting, Head(q.sending))
           s == Tail(q.sending)
<1>1. ToWaiting(q) = [q EXCEPT !.waiting = w, !.sending = s]
  BY DEF ToWaiting
<1> HIDE DEF w, s
<1> QED BY <1>1 DEF SameFlow, SameWqes, ReqType

LEMMA CancelStartedSame ==
  ASSUME NEW q \in ReqType
  PROVE  SameFlow(q, CancelStarted(q))
<1> DEFINE wqe == [i \in DOMAIN q.wqe |->
                     IF InList(Started(q), i) THEN Cancel(q.wqe[i])
                     ELSE q.wqe[i]]
<1>1. /\ q.wqe \in Seq(SwqeType) /\ Len(q.wqe) \in Nat
      /\ DOMAIN q.wqe = 1 .. Len(q.wqe)
      /\ \A i \in 1 .. Len(q.wqe) : q.wqe[i] \in SwqeType
  <2>1. /\ q.wqe \in Seq(SwqeType) /\ Len(q.wqe) \in Nat
        /\ DOMAIN q.wqe = 1 .. Len(q.wqe)
    BY ReqFields
  <2> QED BY <2>1
<1>2. \A e \in SwqeType : /\ Cancel(e).wr = e.wr /\ Cancel(e).based_psn = e.based_psn
                          /\ Cancel(e).expected_psn = e.expected_psn
  BY DEF Cancel, SwqeType
<1>3. Len(wqe) = Len(q.wqe)
  <2>1. DOMAIN wqe = 1 .. Len(q.wqe)
    BY <1>1
  <2> HIDE DEF wqe
  <2> QED BY <1>1, <2>1
<1>4. \A i \in 1 .. Len(q.wqe) : wqe[i] = Cancel(q.wqe[i]) \/ wqe[i] = q.wqe[i]
  BY <1>1
<1>5. CancelStarted(q) = [q EXCEPT !.wqe = wqe]
  BY DEF CancelStarted
<1> HIDE DEF wqe
<1>6. SameWqes(q.wqe, wqe)
  BY <1>1, <1>2, <1>3, <1>4 DEF SameWqes
<1> QED BY <1>5, <1>6, SameUpdate

LEMMA PostponeSame ==
  ASSUME NEW q \in ReqType
  PROVE  SameFlow(q, postpone_local_ack_timeout(q))
<1> DEFINE Set(e) == [e EXCEPT !.retry_cnt = RetryCnt]
           wqe == [i \in DOMAIN q.wqe |->
                     IF InList(q.waiting, i) THEN Set(q.wqe[i]) ELSE q.wqe[i]]
<1>1. /\ q.wqe \in Seq(SwqeType) /\ Len(q.wqe) \in Nat
      /\ DOMAIN q.wqe = 1 .. Len(q.wqe)
      /\ \A i \in 1 .. Len(q.wqe) : q.wqe[i] \in SwqeType
  <2>1. /\ q.wqe \in Seq(SwqeType) /\ Len(q.wqe) \in Nat
        /\ DOMAIN q.wqe = 1 .. Len(q.wqe)
    BY ReqFields
  <2> QED BY <2>1
<1>2. \A e \in SwqeType : /\ Set(e).wr = e.wr /\ Set(e).based_psn = e.based_psn
                          /\ Set(e).expected_psn = e.expected_psn
  BY DEF SwqeType
<1>3. Len(wqe) = Len(q.wqe)
  <2>1. DOMAIN wqe = 1 .. Len(q.wqe)
    BY <1>1
  <2> HIDE DEF wqe
  <2> QED BY <1>1, <2>1
<1>4. \A i \in 1 .. Len(q.wqe) : wqe[i] = Set(q.wqe[i]) \/ wqe[i] = q.wqe[i]
  BY <1>1
<1>5. postpone_local_ack_timeout(q) = [q EXCEPT !.wqe = wqe]
  BY DEF postpone_local_ack_timeout
<1> HIDE DEF wqe, Set
<1>6. SameWqes(q.wqe, wqe)
  BY <1>1, <1>2, <1>3, <1>4 DEF SameWqes
<1> QED BY <1>5, <1>6, SameUpdate

LEMMA ResendSame ==
  ASSUME NEW q, NEW c \in Nat, Requester(q, c)
  PROVE  SameFlow(q, Resend(q))
<1> DEFINE r == CancelStarted(q)
           s == Started(q)
           e == <<>>
           p == [r EXCEPT !.waiting = e, !.sending = s]
<1>1. q \in ReqType
  BY DEF Requester
<1>2. SameFlow(q, r) /\ r \in ReqType
  BY <1>1, CancelStartedSame, CancelStartedType DEF Requester
<1>3. Resend(q) = p
  BY DEF Resend
<1> HIDE DEF r, s, e
<1>4. SameFlow(r, p)
  BY <1>2 DEF SameFlow, SameWqes, ReqType
<1> HIDE DEF p
<1> QED BY <1>2, <1>3, <1>4, SameTrans

LEMMA LocalAckTimeoutSame ==
  ASSUME NEW q, NEW c \in Nat, Requester(q, c), q.waiting # <<>>
  PROVE  SameFlow(q, LocalAckTimeout(q))
<1> DEFINE id == Head(q.waiting)
           k  == q.wqe[id].retry_cnt - 1
           e  == [q.wqe[id] EXCEPT !.retry_cnt = k]
           p  == [q EXCEPT !.wqe[id] = e]
<1>1. q.wqe[id] \in SwqeType /\ q \in ReqType /\ id \in DOMAIN q.wqe
  BY FirstWqe, ListsExist, RequesterFacts
<1>2. k \in Int
  BY <1>1, SwqeFields
<1> HIDE DEF k, id
<1>3. /\ e \in SwqeType /\ e.wr = q.wqe[id].wr
      /\ e.based_psn = q.wqe[id].based_psn /\ e.expected_psn = q.wqe[id].expected_psn
  BY <1>1, <1>2 DEF SwqeType
<1>4. LocalAckTimeout(q) = Resend(p)
  BY DEF LocalAckTimeout, id, k
<1> HIDE DEF e
<1>5. SameFlow(q, p) /\ Requester(p, c)
  BY <1>1, <1>3, SameSet, WqeSet
<1> HIDE DEF p
<1> QED BY <1>4, <1>5, ResendSame, SameTrans

LEMMA SetStatusSame ==
  ASSUME NEW q, NEW c \in Nat, Requester(q, c), NEW id \in DOMAIN q.wqe,
         NEW status
  PROVE  SameFlow(q, SetStatus(q, id, status))
<1> DEFINE e == [q.wqe[id] EXCEPT !.status = status]
           p == [q EXCEPT !.wqe[id] = e]
<1>1. q.wqe[id] \in SwqeType /\ q \in ReqType
  BY FirstWqe, RequesterFacts
<1>2. /\ e.wr = q.wqe[id].wr
      /\ e.based_psn = q.wqe[id].based_psn /\ e.expected_psn = q.wqe[id].expected_psn
  BY <1>1 DEF SwqeType
<1>3. SetStatus(q, id, status) = p
  BY DEF SetStatus
<1> HIDE DEF e
<1> QED BY <1>1, <1>2, <1>3, SameSet

LEMMA set_send_wqe_to_errorSame ==
  ASSUME NEW q, NEW c \in Nat, Requester(q, c), NEW psn, NEW status
  PROVE  SameFlow(q, set_send_wqe_to_error(q, psn, status))
<1> DEFINE hits == match_send_wqe(q, psn)
           id   == Started(q)[Min(hits)]
<1>1. CASE hits = {}
  BY <1>1, SameRefl DEF set_send_wqe_to_error
<1>2. CASE hits # {}
  <2>1. id \in DOMAIN q.wqe
    BY <1>2, MatchExists
  <2>2. set_send_wqe_to_error(q, psn, status) = SetStatus(q, id, status)
    BY <1>2 DEF set_send_wqe_to_error
  <2> HIDE DEF id, hits
  <2> QED BY <2>1, <2>2, SetStatusSame
<1> QED
  BY <1>1, <1>2

LEMMA CountRnrSame ==
  ASSUME NEW q, NEW c \in Nat, Requester(q, c)
  PROVE  SameFlow(q, CountRnr(q))
<1> DEFINE id == Head(q.sending)
           k  == q.wqe[id].rnr_retry - 1
           e  == [q.wqe[id] EXCEPT !.rnr_retry = k]
           p  == [q EXCEPT !.wqe[id] = e]
<1>1. CountRnr(q) = q \/ (q.sending # <<>> /\ CountRnr(q) = p)
  BY DEF CountRnr
<1>2. ASSUME q.sending # <<>> PROVE SameFlow(q, p)
  <2>1. q.wqe[id] \in SwqeType /\ q \in ReqType /\ id \in DOMAIN q.wqe
    BY <1>2, FirstWqe, ListsExist, RequesterFacts
  <2> HIDE DEF k, id
  <2>2. /\ e.wr = q.wqe[id].wr
        /\ e.based_psn = q.wqe[id].based_psn /\ e.expected_psn = q.wqe[id].expected_psn
    BY <2>1 DEF SwqeType
  <2> HIDE DEF e
  <2> QED BY <2>1, <2>2, SameSet
<1> HIDE DEF p
<1> QED
  BY <1>1, <1>2, SameRefl

LEMMA CnpNotifySame ==
  ASSUME NEW q \in ReqType
  PROVE  SameFlow(q, process_cnp_notify_request(q))
<1> DEFINE tx == <<CNP>>
           z  == 0
           k  == q.nr_contig_read_acks + 1
           p1 == [q EXCEPT !.tx = tx, !.nr_contig_read_acks = z]
           p2 == [q EXCEPT !.nr_contig_read_acks = k]
<1>1. process_cnp_notify_request(q) = p1 \/ process_cnp_notify_request(q) = p2
  BY DEF process_cnp_notify_request
<1> HIDE DEF tx, z, k
<1>2. SameFlow(q, p1) /\ SameFlow(q, p2)
  BY DEF SameFlow, SameWqes, ReqType
<1> HIDE DEF p1, p2
<1> QED BY <1>1, <1>2

LEMMA TransmitSame ==
  ASSUME NEW q, NEW c \in Nat, Requester(q, c), NEW id \in DOMAIN q.wqe
  PROVE  SameFlow(q, Transmit(q, id))
<1> DEFINE e   == q.wqe[id]
           pkt == RequestPacket(q, id)
           tx  == <<pkt>>
           k   == IF e.wr.op = "READ" THEN e.sent_packets
                  ELSE e.sent_packets + 1
           f   == [e EXCEPT !.sent_packets = k]
           n   == IF e.wr.op = "READ" THEN q.nr_contig_requests
                  ELSE IF WithReth(pkt.op) THEN 1 ELSE q.nr_contig_requests + 1
           r   == [q EXCEPT !.wqe[id] = f]
           q1  == [r EXCEPT !.tx = tx, !.nr_contig_requests = n]
<1>1. e \in SwqeType /\ q \in ReqType
  BY RequesterFacts, FirstWqe
<1>2. k \in Int
  <2>1. e.sent_packets \in Int
    BY <1>1, SwqeFields
  <2> HIDE DEF e
  <2> QED BY <2>1
<1>3. \/ Transmit(q, id) = q1
      \/ Transmit(q, id) = ToWaiting(q1)
  <2> DEFINE p == [q EXCEPT
                     !.tx = tx,
                     !.wqe[id].sent_packets =
                        IF e.wr.op = "READ" THEN @ ELSE @ + 1,
                     !.nr_contig_requests =
                        IF e.wr.op = "READ" THEN @
                        ELSE IF WithReth(pkt.op) THEN 1 ELSE @ + 1]
  <2>1. \/ Transmit(q, id) = p
        \/ Transmit(q, id) = ToWaiting(p)
    <3>1. Transmit(q, id) = IF e.wr.op # "READ" /\ e.sent_packets + 1 < e.wr.pkts
                            THEN p ELSE ToWaiting(p)
      BY DEF Transmit
    <3> HIDE DEF p
    <3> QED BY <3>1
  <2>2. p = [q EXCEPT !.tx = tx, !.wqe[id].sent_packets = k,
                      !.nr_contig_requests = n]
    OBVIOUS
  <2>3. p = q1
    <3> HIDE DEF tx, k, n, p
    <3> QED BY <1>1, <2>2 DEF ReqType
  <2> QED BY <2>1, <2>3
<1>4. n \in Nat /\ tx \in Seq(RequestType)
  <2>1. q.nr_contig_requests \in Nat
    BY <1>1 DEF ReqType
  <2>2. n \in Nat
    <3> HIDE DEF e, pkt
    <3> QED BY <2>1
  <2>3. id \in Nat
    <3>1. DOMAIN q.wqe = 1 .. Len(q.wqe) /\ Len(q.wqe) \in Nat
      BY <1>1, ReqFields
    <3> QED BY <3>1
  <2>4. pkt \in RequestType
    BY <1>1, <2>3, RequestPacketType
  <2> HIDE DEF pkt, n
  <2> QED BY <2>2, <2>4
<1> HIDE DEF k, n, tx, pkt
<1>5. f \in SwqeType /\ f.wr = e.wr /\ f.based_psn = e.based_psn /\ f.expected_psn = e.expected_psn
  <2> HIDE DEF e
  <2> QED BY <1>1, <1>2 DEF SwqeType
<1> HIDE DEF f
<1>6. SameFlow(q, r) /\ r \in ReqType
  BY <1>1, <1>5, SameSet, WqeSet DEF Requester
<1> HIDE DEF r
<1>7. SameFlow(r, q1) /\ q1 \in ReqType
  BY <1>4, <1>6 DEF SameFlow, SameWqes, ReqType
<1> HIDE DEF q1
<1>8. SameFlow(q, q1)
  BY <1>6, <1>7, SameTrans
<1>9. SameFlow(q, ToWaiting(q1))
  BY <1>7, <1>8, ToWaitingSame, SameTrans
<1> QED
  BY <1>3, <1>8, <1>9

LEMMA pib_process_rc_qp_requestSame ==
  ASSUME NEW q, NEW c \in Nat, Requester(q, c), NEW id \in DOMAIN q.wqe
  PROVE  SameFlow(q, pib_process_rc_qp_request(q, id))
<1>1. SameFlow(q, SetStatus(q, id, "RETRY_EXC_ERR"))
  BY SetStatusSame
<1>2. SameFlow(q, SetStatus(q, id, "RNR_RETRY_EXC_ERR"))
  BY SetStatusSame
<1>3. SameFlow(q, SetStatus(q, id, "LOC_PROT_ERR"))
  BY SetStatusSame
<1>4. SameFlow(q, Transmit(q, id))
  BY TransmitSame
<1> QED
  BY <1>1, <1>2, <1>3, <1>4 DEF pib_process_rc_qp_request

-----------------------------------------------------------------------------
(* Starting a work request *)

LEMMA FirstSubmitted ==
  ASSUME NEW q, NEW c \in Nat, Requester(q, c), q.submitted # <<>>
  PROVE  /\ Head(q.submitted) = Begun(q) + 1 /\ Begun(q) + 1 \in 1 .. Len(q.wqe)
         /\ Len(Tail(q.submitted)) = Len(q.submitted) - 1 /\ q.state = "RTS"
<1> DEFINE w == q.waiting
           s == q.sending
           u == q.submitted
           n == Len(q.wqe)
<1>1. /\ w \in Seq(Nat) /\ s \in Seq(Nat) /\ u \in Seq(Nat) /\ u # <<>>
      /\ InOrder(w, s, u, n, c) /\ n \in Nat
  BY RequesterFacts, ReqFields
<1>2. Begun(q) = n - Len(u)
  BY DEF Begun
<1>3. q.state \in {"RTS", "ERR"} /\ q.state # "ERR"
  BY DrainedLists DEF Requester, ReqType
<1> HIDE DEF w, s, u, n
<1>4. /\ Head(u) = c + Len(w) + Len(s) + 1 /\ Len(Tail(u)) = Len(u) - 1
      /\ n = c + Len(w) + Len(s) + Len(u)
  <2> DEFINE d == c + Len(w) + Len(s)
  <2>1. d \in Nat /\ Consecutive(u, d) /\ n = d + Len(u)
    BY <1>1 DEF InOrder
  <2> HIDE DEF d
  <2>2. Head(u) = d + 1 /\ Len(Tail(u)) = Len(u) - 1
    BY <1>1, <2>1, ConsecutiveTail
  <2> QED BY <2>1, <2>2 DEF d
<1>5. Len(u) \in Nat /\ Len(u) # 0 /\ Len(w) \in Nat /\ Len(s) \in Nat
  BY <1>1
<1>6. Head(u) = n - Len(u) + 1 /\ n - Len(u) + 1 \in 1 .. n
  BY <1>1, <1>4, <1>5
<1> QED
  BY <1>2, <1>3, <1>4, <1>6 DEF u, n

(* What process_new_send_wr does to the flow.                              *)
Starts(q, p, id) ==
  /\ p.state = q.state /\ p.cq = q.cq /\ p.psn = q.psn
  /\ p.expected_psn = q.expected_psn + q.wqe[id].wr.pkts
  /\ p.nr_rd_atomic = IF IsRd(q.wqe[id]) THEN q.nr_rd_atomic + 1
                      ELSE q.nr_rd_atomic
  /\ Begun(p) = id
  /\ \A i \in 1 .. id : p.wqe[i].wr = q.wqe[i].wr
  /\ \A i \in 1 .. id - 1 : /\ p.wqe[i].based_psn = q.wqe[i].based_psn
                            /\ p.wqe[i].expected_psn = q.wqe[i].expected_psn
  /\ p.wqe[id].based_psn = q.expected_psn
  /\ p.wqe[id].expected_psn = q.expected_psn + q.wqe[id].wr.pkts

LEMMA process_new_send_wrStarts ==
  ASSUME NEW q, NEW c \in Nat, Requester(q, c), q.submitted # <<>>
  PROVE  Starts(q, process_new_send_wr(q), Begun(q) + 1)
<1> DEFINE id == Head(q.submitted)
           w  == q.wqe[id].wr
           b  == q.expected_psn
           m  == q.expected_psn + w.pkts
           nr == IF IsRd(q.wqe[id]) THEN q.nr_rd_atomic + 1 ELSE q.nr_rd_atomic
           z  == 0
           e  == [q.wqe[id] EXCEPT !.based_psn = b, !.expected_psn = m,
                                   !.ack_packets = z, !.sent_packets = z,
                                   !.retry_cnt = RetryCnt,
                                   !.rnr_retry = RnrRetry]
           wqe == [q.wqe EXCEPT ![id] = e]
           u  == Tail(q.submitted)
           s  == Append(q.sending, id)
           p  == [q EXCEPT !.submitted = u, !.sending = s,
                           !.nr_rd_atomic = nr, !.expected_psn = m, !.wqe = wqe]
<1>1. /\ q.wqe[id] \in SwqeType /\ q \in ReqType
      /\ q.wqe \in Seq(SwqeType) /\ Len(q.wqe) \in Nat
      /\ DOMAIN q.wqe = 1 .. Len(q.wqe) /\ Len(q.submitted) \in Nat
  BY RequesterFacts, FirstWqe, ReqFields
<1>2. /\ id = Begun(q) + 1 /\ id \in 1 .. Len(q.wqe)
      /\ Len(u) = Len(q.submitted) - 1
  BY FirstSubmitted
<1>3. process_new_send_wr(q) = p
  BY <1>1 DEF process_new_send_wr, ReqType, NumOfPsns, IsRd
<1>4. e.wr = w /\ e.based_psn = b /\ e.expected_psn = m
  <2> HIDE DEF id, b, m, z
  <2> QED BY <1>1 DEF SwqeType
<1> HIDE DEF e
<1>5. /\ Len(wqe) = Len(q.wqe) /\ wqe[id] = e
      /\ \A i \in 1 .. Len(q.wqe) : i # id => wqe[i] = q.wqe[i]
  <2> HIDE DEF id
  <2>1. DOMAIN wqe = 1 .. Len(q.wqe)
    BY <1>1
  <2>2. Len(wqe) = Len(q.wqe)
    <3> HIDE DEF wqe
    <3> QED BY <1>1, <2>1
  <2> QED BY <1>1, <1>2, <2>2
<1> HIDE DEF wqe, id, u, s, nr, m
<1>6. /\ p.state = q.state /\ p.cq = q.cq /\ p.psn = q.psn
      /\ p.expected_psn = m /\ p.nr_rd_atomic = nr /\ p.wqe = wqe
      /\ p.submitted = u
  BY <1>1 DEF ReqType
<1> HIDE DEF p
<1>7. Begun(p) = id
  <2> DEFINE N == Len(q.wqe)
             U == Len(q.submitted)
  <2>1. N \in Nat /\ U \in Nat /\ id = N - U + 1 /\ Begun(p) = N - (U - 1)
    BY <1>1, <1>2, <1>5, <1>6 DEF Begun
  <2> HIDE DEF N, U
  <2> QED BY <2>1
<1>8. \A i \in 1 .. id : i \in 1 .. Len(q.wqe)
  BY <1>1, <1>2
<1>9. \A i \in 1 .. id - 1 : i \in 1 .. Len(q.wqe) /\ i # id
  BY <1>1, <1>2
<1>10. \A i \in 1 .. id : p.wqe[i].wr = q.wqe[i].wr
  BY <1>4, <1>5, <1>6, <1>8
<1>11. \A i \in 1 .. id - 1 : /\ p.wqe[i].based_psn = q.wqe[i].based_psn
                              /\ p.wqe[i].expected_psn = q.wqe[i].expected_psn
  BY <1>5, <1>6, <1>9
<1>12. Starts(q, p, id)
  BY <1>4, <1>5, <1>6, <1>7, <1>10, <1>11 DEF Starts, m, nr
<1> QED
  BY <1>2, <1>3, <1>12

LEMMA RdAtomicsFinite ==
  ASSUME NEW q, NEW c \in Nat, NEW n \in Nat, Begun(q) = n
  PROVE  /\ IsFiniteSet(RdAtomics(q, c)) /\ Cardinality(RdAtomics(q, c)) \in Nat
         /\ RdAtomics(q, c) = {} <=> Cardinality(RdAtomics(q, c)) = 0
<1>1. IsFiniteSet(c + 1 .. n)
  BY FS_Interval
<1>2. RdAtomics(q, c) \subseteq c + 1 .. n
  BY DEF RdAtomics
<1>3. IsFiniteSet(RdAtomics(q, c))
  BY <1>1, <1>2, FS_Subset
<1> QED BY <1>3, FS_CardinalityType, FS_EmptySet

LEMMA StartFlow ==
  ASSUME NEW q, NEW c \in Nat, Requester(q, c), Flow(q, c), MayStart(q)
  PROVE  Flow(process_new_send_wr(q), c)
<1> DEFINE p  == process_new_send_wr(q)
           n  == Begun(q)
           id == n + 1
<1>1. q.submitted # <<>>
  BY DEF MayStart
<1>2. Starts(q, p, id)
  BY <1>1, process_new_send_wrStarts
<1>3. Head(q.submitted) = id /\ q.state = "RTS"
  BY <1>1, FirstSubmitted
<1>4. n \in Nat /\ c <= n /\ q \in ReqType /\ MaxRdAtomic \in Nat
  BY Numbers, ConstantTypes DEF Requester
<1>5. /\ Chained(q, n) /\ q.psn = Masked(PsnAfter(q, c))
      /\ q.expected_psn = PsnAfter(q, n)
  BY <1>3 DEF Flow, Psns
<1>6. /\ q.wqe[id].wr.fence => q.nr_rd_atomic = 0
      /\ IsRd(q.wqe[id]) => q.nr_rd_atomic < MaxRdAtomic
  BY <1>3 DEF MayStart, IsRd
<1> HIDE DEF p, n
<1>7. \A i \in 0 .. n : PsnAfter(p, i) = PsnAfter(q, i)
  BY <1>2, <1>4 DEF PsnAfter, Starts
<1>8. Psns(p, c)
  <2>1. ASSUME NEW i \in 1 .. id
        PROVE  /\ p.wqe[i].based_psn = PsnAfter(p, i - 1)
               /\ p.wqe[i].expected_psn = p.wqe[i].based_psn + p.wqe[i].wr.pkts
    <3>1. CASE i = id
      <4>1. p.wqe[i].based_psn = q.expected_psn
            /\ p.wqe[i].expected_psn = q.expected_psn + q.wqe[i].wr.pkts
            /\ p.wqe[i].wr = q.wqe[i].wr
        BY <1>2, <3>1 DEF Starts
      <4>2. PsnAfter(p, i - 1) = PsnAfter(q, n)
        BY <1>4, <1>7, <3>1
      <4> QED BY <1>5, <4>1, <4>2
    <3>2. CASE i # id
      <4>1. i \in 1 .. n /\ i \in 1 .. id - 1 /\ i - 1 \in 0 .. n
        BY <1>4, <3>2
      <4>2. /\ q.wqe[i].based_psn = PsnAfter(q, i - 1)
            /\ q.wqe[i].expected_psn = q.wqe[i].based_psn + q.wqe[i].wr.pkts
        BY <1>5, <4>1 DEF Chained
      <4>3. /\ p.wqe[i].based_psn = q.wqe[i].based_psn
            /\ p.wqe[i].expected_psn = q.wqe[i].expected_psn
            /\ p.wqe[i].wr = q.wqe[i].wr
        BY <1>2, <4>1 DEF Starts
      <4>4. PsnAfter(p, i - 1) = PsnAfter(q, i - 1)
        BY <1>7, <4>1
      <4> QED BY <4>2, <4>3, <4>4
    <3> QED BY <3>1, <3>2
  <2>2. Begun(p) = id /\ p.psn = q.psn
    BY <1>2 DEF Starts
  <2>3. PsnAfter(p, c) = PsnAfter(q, c)
    BY <1>4, <1>7
  <2>4. p.expected_psn = PsnAfter(p, id)
    BY <1>2, <1>4 DEF PsnAfter, Starts
  <2> QED BY <1>5, <2>1, <2>2, <2>3, <2>4 DEF Psns, Chained
<1>9. \A i \in c + 1 .. id : i \in 1 .. id /\ IsRd(p.wqe[i]) = IsRd(q.wqe[i])
  BY <1>2, <1>4 DEF IsRd, Starts
<1>10. /\ q.nr_rd_atomic = Cardinality(RdAtomics(q, c))
       /\ q.nr_rd_atomic <= MaxRdAtomic /\ Begun(p) = id /\ Begun(q) = n
  BY <1>2 DEF Flow, Counts, Starts, n
<1>11. /\ IsFiniteSet(RdAtomics(q, c)) /\ Cardinality(RdAtomics(q, c)) \in Nat
       /\ RdAtomics(q, c) = {} <=> Cardinality(RdAtomics(q, c)) = 0
  BY <1>4, <1>10, RdAtomicsFinite
<1>12. Counts(p, c)
  <2>1. CASE IsRd(q.wqe[id])
    <3>1. id \notin RdAtomics(q, c)
      BY <1>4, <1>10 DEF RdAtomics
    <3>2. RdAtomics(p, c) = RdAtomics(q, c) \cup {id}
      <4>1. id \in c + 1 .. id
        BY <1>4
      <4>2. \A i : i \in c + 1 .. id <=> i \in c + 1 .. n \/ i = id
        BY <1>4
      <4> QED BY <1>9, <1>10, <2>1, <4>1, <4>2 DEF RdAtomics
    <3>3. Cardinality(RdAtomics(p, c)) = Cardinality(RdAtomics(q, c)) + 1
      BY <1>11, <3>1, <3>2, FS_AddElement
    <3>4. p.nr_rd_atomic = q.nr_rd_atomic + 1 /\ q.nr_rd_atomic < MaxRdAtomic
      BY <1>2, <1>6, <2>1 DEF Starts
    <3> QED BY <1>4, <1>10, <1>11, <3>3, <3>4 DEF Counts
  <2>2. CASE ~IsRd(q.wqe[id])
    <3>1. RdAtomics(p, c) = RdAtomics(q, c)
      <4>1. \A i : i \in c + 1 .. id <=> i \in c + 1 .. n \/ i = id
        BY <1>4
      <4> QED BY <1>9, <1>10, <2>2, <4>1 DEF RdAtomics
    <3>2. p.nr_rd_atomic = q.nr_rd_atomic
      BY <1>2, <2>2 DEF Starts
    <3> QED BY <1>10, <3>1, <3>2 DEF Counts
  <2> QED BY <2>1, <2>2
<1>13. Fences(p, c)
  <2> SUFFICES ASSUME NEW j \in c + 1 .. id, p.wqe[j].wr.fence,
                      NEW i \in c + 1 .. j - 1
               PROVE  ~IsRd(p.wqe[i])
    BY <1>10 DEF Fences
  <2>1. i \in c + 1 .. n /\ i \in c + 1 .. id
    BY <1>4
  <2>2. q.wqe[j].wr.fence
    BY <1>2, <1>9 DEF Starts
  <2>3. ~IsRd(q.wqe[i])
    <3>1. CASE j = id
      <4>1. RdAtomics(q, c) = {}
        BY <1>6, <1>10, <1>11, <2>2, <3>1
      <4> QED BY <1>10, <2>1, <4>1 DEF RdAtomics
    <3>2. CASE j # id
      <4>1. j \in c + 1 .. n
        BY <1>4, <3>2
      <4> QED BY <1>10, <2>2, <4>1 DEF Flow, Fences
    <3> QED BY <3>1, <3>2
  <2> QED BY <1>9, <2>1, <2>3
<1>14. Errs(p)
  BY <1>2 DEF Flow, Errs, Starts
<1> QED
  BY <1>8, <1>12, <1>13, <1>14 DEF Flow, p

-----------------------------------------------------------------------------
(* Completing work requests *)

LEMMA DropStartedSame ==
  ASSUME NEW q \in ReqType, NEW n
  PROVE  SameFlow(q, DropStarted(q, n))
<1> DEFINE w1 == Drop(q.waiting, n)
           w2 == <<>>
           s2 == Drop(q.sending, n - Len(q.waiting))
           p1 == [q EXCEPT !.waiting = w1]
           p2 == [q EXCEPT !.waiting = w2, !.sending = s2]
<1>1. DropStarted(q, n) = p1 \/ DropStarted(q, n) = p2
  BY DEF DropStarted
<1> HIDE DEF w1, w2, s2
<1>2. SameFlow(q, p1) /\ SameFlow(q, p2)
  BY DEF SameFlow, SameWqes, ReqType
<1> HIDE DEF p1, p2
<1> QED BY <1>1, <1>2

(* Success after success is success. *)
LEMMA GoodConcat ==
  ASSUME NEW cq \in Seq(SendWc), AllGood(cq), NEW n \in Nat,
         NEW wcs \in Seq(SendWc), Len(wcs) = n,
         \A i \in 1 .. n : wcs[i].status = "SUCCESS"
  PROVE  AllGood(cq \o wcs) /\ ErrsLast(cq \o wcs)
<1>1. /\ Len(cq) \in Nat /\ Len(cq \o wcs) = Len(cq) + n
      /\ \A i \in 1 .. Len(cq) + n :
           (cq \o wcs)[i] = IF i <= Len(cq) THEN cq[i] ELSE wcs[i - Len(cq)]
  <2>1. Len(cq) \in Nat /\ Len(cq \o wcs) = Len(cq) + Len(wcs)
    OBVIOUS
  <2>2. \A i \in 1 .. Len(cq) + Len(wcs) :
          (cq \o wcs)[i] = IF i <= Len(cq) THEN cq[i] ELSE wcs[i - Len(cq)]
    BY ConcatProperties
  <2> QED BY <2>1, <2>2
<1> DEFINE l == cq \o wcs
           m == Len(cq)
<1>2. m \in Nat /\ Len(l) = m + n
      /\ \A i \in 1 .. m + n : l[i] = IF i <= m THEN cq[i] ELSE wcs[i - m]
  BY <1>1
<1>3. \A i \in 1 .. m : cq[i].status = "SUCCESS"
  BY DEF AllGood
<1> HIDE DEF l, m
<1>4. ASSUME NEW i \in 1 .. m + n PROVE l[i].status = "SUCCESS"
  <2>1. CASE i <= m
    BY <1>2, <1>3, <2>1
  <2>2. CASE i > m
    <3>1. i - m \in 1 .. n
      BY <1>2, <2>2
    <3> QED BY <1>2, <2>2, <3>1
  <2> QED BY <1>2, <2>1, <2>2
<1>5. AllGood(l) /\ ErrsLast(l)
  BY <1>2, <1>4 DEF AllGood, ErrsLast
<1> QED BY <1>5 DEF l

(* The n oldest work requests complete; the flow goes on after number      *)
(* c + n.                                                                  *)
Completes(q, p, c, n) ==
  /\ p.state = q.state /\ p.wqe = q.wqe /\ Begun(p) = Begun(q)
  /\ p.expected_psn = q.expected_psn /\ p.nr_rd_atomic = q.nr_rd_atomic
  /\ p.psn = IF n = 0 THEN q.psn ELSE Masked(PsnAfter(q, c + n))
  /\ AllGood(p.cq) /\ ErrsLast(p.cq)

LEMMA CompleteStartedCompletes ==
  ASSUME NEW q, ReqInv(q), AllGood(q.cq), NEW n \in 0 .. Len(Started(q))
  PROVE  Completes(q, CompleteStarted(q, n), Len(q.cq), n)
<1> DEFINE all == Started(q)
           wcs == [i \in 1 .. n |-> [wr |-> all[i], status |-> "SUCCESS"]]
           c   == Len(q.cq)
           r   == DropStarted(q, n)
           cq  == q.cq \o wcs
           psn == IF n = 0 THEN q.psn ELSE Masked(q.wqe[all[n]].expected_psn)
           p   == [r EXCEPT !.cq = cq, !.psn = psn]
<1>1. /\ q \in ReqType /\ q.cq \in Seq(SendWc) /\ c \in Nat /\ Requester(q, c)
  BY ReqFields DEF SendWc, ReqInv, Requester
<1>2. /\ SameFlow(q, r) /\ r \in ReqType /\ r.wqe = q.wqe
  BY <1>1, DropStartedSame, DropStartedType DEF Requester
<1>3. /\ all \in Seq(Nat) /\ Len(all) \in Nat
      /\ \A i \in 1 .. Len(all) : all[i] = c + i /\ all[i] \in DOMAIN q.wqe
  BY <1>1, ListsExist
<1>4. CompleteStarted(q, n) = p
  BY <1>2 DEF CompleteStarted, SameFlow
<1>5. AllGood(cq) /\ ErrsLast(cq)
  <2>1. n \in Nat
    BY <1>3
  <2>2. wcs \in [1 .. n -> SendWc]
    <3>1. "SUCCESS" \in Statuses
      BY DEF Statuses
    <3>2. \A i \in 1 .. n : all[i] \in Nat
      BY <1>1, <1>3
    <3> HIDE DEF all
    <3> QED BY <3>1, <3>2 DEF SendWc
  <2>3. \A i \in 1 .. n : wcs[i].status = "SUCCESS"
    OBVIOUS
  <2> HIDE DEF wcs
  <2>4. wcs \in Seq(SendWc) /\ Len(wcs) = n
    BY <2>1, <2>2, SeqDef
  <2> QED BY <1>1, <2>1, <2>3, <2>4, GoodConcat
<1>6. psn = IF n = 0 THEN q.psn ELSE Masked(PsnAfter(q, c + n))
  <2>1. CASE n # 0
    <3>1. n \in 1 .. Len(all) /\ c + n # 0
      BY <1>1, <1>3, <2>1
    <3> QED BY <1>3, <2>1, <3>1 DEF PsnAfter
  <2> QED BY <2>1
<1> HIDE DEF all, wcs, cq, psn, r
<1>7. /\ p.state = r.state /\ p.wqe = r.wqe /\ p.submitted = r.submitted
      /\ p.expected_psn = r.expected_psn /\ p.nr_rd_atomic = r.nr_rd_atomic
      /\ p.psn = psn /\ p.cq = cq
  BY <1>2 DEF ReqType
<1> HIDE DEF p
<1>8. Begun(p) = Begun(q)
  BY <1>2, <1>7 DEF Begun, SameFlow
<1> QED
  BY <1>2, <1>4, <1>5, <1>6, <1>7, <1>8 DEF Completes, SameFlow

LEMMA CompletesFlow ==
  ASSUME NEW q, NEW p, NEW c \in Nat, Requester(q, c), Flow(q, c), q.state = "RTS",
         NEW n \in Nat, c + n <= Begun(q), Completes(q, p, c, n)
  PROVE  /\ Psns(p, c + n) /\ Fences(p, c + n) /\ Errs(p)
         /\ RdAtomics(p, c + n) = RdAtomics(q, c) \ (c + 1 .. c + n)
<1>1. Begun(q) \in Nat /\ c <= Begun(q)
  BY Numbers
<1> DEFINE b == Begun(q)
<1> HIDE DEF b
<1>2. /\ p.wqe = q.wqe /\ Begun(p) = b /\ Begun(q) = b /\ p.state = q.state
      /\ p.expected_psn = q.expected_psn /\ b \in Nat /\ c + n <= b
  BY <1>1 DEF Completes, b
<1>3. \A i : PsnAfter(p, i) = PsnAfter(q, i)
  BY <1>2 DEF PsnAfter
<1>4. Psns(p, c + n)
  <2>1. Chained(p, b)
    BY <1>2, <1>3 DEF Chained, Flow, Psns
  <2>2. p.psn = Masked(PsnAfter(p, c + n))
    <3>1. CASE n = 0
      BY <1>3, <3>1 DEF Completes, Flow, Psns
    <3>2. CASE n # 0
      BY <1>3, <3>2 DEF Completes
    <3> QED BY <3>1, <3>2
  <2> QED BY <1>2, <1>3, <2>1, <2>2 DEF Psns, Flow
<1>5. Fences(p, c + n)
  <2> SUFFICES ASSUME NEW j \in c + n + 1 .. b, q.wqe[j].wr.fence,
                      NEW i \in c + n + 1 .. j - 1
               PROVE  ~IsRd(q.wqe[i])
    BY <1>2 DEF Fences
  <2>1. j \in c + 1 .. b /\ i \in c + 1 .. j - 1
    BY <1>2
  <2> QED BY <1>2, <2>1 DEF Flow, Fences
<1>6. Errs(p)
  BY DEF Errs, Completes
<1>7. RdAtomics(p, c + n) = RdAtomics(q, c) \ (c + 1 .. c + n)
  <2>1. \A i : i \in c + n + 1 .. b <=> i \in c + 1 .. b /\ i \notin c + 1 .. c + n
    BY <1>2
  <2> QED BY <1>2, <2>1 DEF RdAtomics
<1> QED BY <1>4, <1>5, <1>6, <1>7

(* An acknowledge completes work requests that are not RDMA READ or Atomic.*)
LEMMA AcknowledgedFlow ==
  ASSUME NEW q, FlowInv(q), q.state = "RTS", NEW n \in 0 .. Len(Started(q)),
         \A i \in Len(q.cq) + 1 .. Len(q.cq) + n : ~IsRd(q.wqe[i])
  PROVE  FlowInv(CompleteStarted(q, n)) /\ CompleteStarted(q, n).state = "RTS"
<1> DEFINE c == Len(q.cq)
           p == CompleteStarted(q, n)
<1>1. /\ c \in Nat /\ Requester(q, c) /\ ReqInv(q) /\ Flow(q, c) /\ AllGood(q.cq)
  BY ReqFields DEF FlowInv, ReqInv, Requester, Flow, Errs
<1>2. Begun(q) = c + Len(Started(q)) /\ Len(Started(q)) \in Nat
  BY <1>1, Numbers, ListsExist
<1>3. ReqInv(p) /\ Len(p.cq) = c + n /\ Completes(q, p, c, n)
  BY <1>1, CompleteStartedType, CompleteStartedCompletes
<1>4. n \in Nat /\ c + n <= Begun(q)
  BY <1>1, <1>2
<1> HIDE DEF p
<1>5. /\ Psns(p, c + n) /\ Fences(p, c + n) /\ Errs(p)
      /\ RdAtomics(p, c + n) = RdAtomics(q, c) \ (c + 1 .. c + n)
  BY <1>1, <1>3, <1>4, CompletesFlow
<1>6. RdAtomics(p, c + n) = RdAtomics(q, c)
  BY <1>5 DEF RdAtomics
<1>7. Counts(p, c + n)
  BY <1>1, <1>3, <1>6 DEF Counts, Flow, Completes
<1>8. FlowInv(p) /\ p.state = "RTS"
  BY <1>3, <1>5, <1>7 DEF FlowInv, Flow, Completes
<1> QED BY <1>8 DEF p

LEMMA CompleteRdAtomicFlow ==
  ASSUME NEW q, FlowInv(q), q.state = "RTS", Len(Started(q)) >= 1,
         IsRd(q.wqe[Len(q.cq) + 1])
  PROVE  FlowInv(CompleteRdAtomic(q))
<1> DEFINE c == Len(q.cq)
           n == 1
           r == CompleteStarted(q, n)
           k == r.nr_rd_atomic - 1
           p == [r EXCEPT !.nr_rd_atomic = k]
<1>1. /\ c \in Nat /\ Requester(q, c) /\ ReqInv(q) /\ Flow(q, c) /\ AllGood(q.cq)
  BY ReqFields DEF FlowInv, ReqInv, Requester, Flow, Errs
<1>2. /\ Begun(q) = c + Len(Started(q)) /\ Len(Started(q)) \in Nat
      /\ Begun(q) \in Nat
  BY <1>1, Numbers, ListsExist
<1>3. n \in 0 .. Len(Started(q)) /\ n \in Nat /\ c + n <= Begun(q)
  BY <1>1, <1>2
<1>4. ReqInv(r) /\ Len(r.cq) = c + n /\ Completes(q, r, c, n)
  <2> HIDE DEF n
  <2> QED BY <1>1, <1>3, CompleteStartedType, CompleteStartedCompletes
<1>5. CompleteRdAtomic(q) = postpone_local_ack_timeout(p)
  BY DEF CompleteRdAtomic
<1>6. /\ Psns(r, c + n) /\ Fences(r, c + n) /\ Errs(r)
      /\ RdAtomics(r, c + n) = RdAtomics(q, c) \ (c + 1 .. c + n)
  <2> HIDE DEF n, r
  <2> QED BY <1>1, <1>3, <1>4, CompletesFlow
<1>7. RdAtomics(r, c + 1) = RdAtomics(q, c) \ {c + 1} /\ c + 1 \in RdAtomics(q, c)
  <2>1. c + 1 .. c + 1 = {c + 1}
    BY <1>1
  <2>2. c + 1 \in c + 1 .. Begun(q)
    BY <1>1, <1>2, <1>3
  <2> QED BY <1>6, <2>1, <2>2 DEF RdAtomics
<1>8. /\ q.nr_rd_atomic = Cardinality(RdAtomics(q, c))
      /\ q.nr_rd_atomic <= MaxRdAtomic /\ MaxRdAtomic \in Nat
      /\ r.nr_rd_atomic = q.nr_rd_atomic
  BY <1>1, <1>4, ConstantTypes DEF Flow, Counts, Completes
<1>9. /\ IsFiniteSet(RdAtomics(q, c)) /\ Cardinality(RdAtomics(q, c)) \in Nat
  BY <1>1, <1>2, RdAtomicsFinite
<1>10. Cardinality(RdAtomics(r, c + 1)) = Cardinality(RdAtomics(q, c)) - 1
  BY <1>7, <1>9, FS_RemoveElement
<1> HIDE DEF r
<1>11. k = Cardinality(RdAtomics(r, c + 1)) /\ k <= MaxRdAtomic /\ k \in Int
  BY <1>8, <1>9, <1>10
<1>12. r \in ReqType /\ Requester(r, c + n)
  BY <1>4 DEF ReqInv, Requester
<1> HIDE DEF k
<1>13. /\ p \in ReqType /\ p.cq = r.cq /\ p.waiting = r.waiting
       /\ p.sending = r.sending /\ p.submitted = r.submitted /\ p.wqe = r.wqe
       /\ p.state = r.state /\ p.psn = r.psn /\ p.expected_psn = r.expected_psn
       /\ p.nr_rd_atomic = k
  BY <1>11, <1>12 DEF ReqType
<1> HIDE DEF p
<1>14. Requester(p, c + 1)
  BY <1>12, <1>13 DEF Requester, OrderedFrom, Drained
<1>15. Begun(p) = Begun(r) /\ \A i : PsnAfter(p, i) = PsnAfter(r, i)
  BY <1>13 DEF Begun, PsnAfter
<1>16. Flow(p, c + 1)
  <2>1. Psns(p, c + 1)
    BY <1>6, <1>13, <1>15 DEF Psns, Chained
  <2>2. RdAtomics(p, c + 1) = RdAtomics(r, c + 1)
    BY <1>13, <1>15 DEF RdAtomics
  <2>3. Counts(p, c + 1)
    BY <1>11, <1>13, <2>2 DEF Counts
  <2>4. Fences(p, c + 1)
    BY <1>6, <1>13, <1>15 DEF Fences
  <2>5. Errs(p)
    BY <1>6, <1>13 DEF Errs
  <2> QED BY <2>1, <2>3, <2>4, <2>5 DEF Flow
<1> DEFINE s == postpone_local_ack_timeout(p)
<1>17. Requester(s, c + 1) /\ s.cq = p.cq /\ SameFlow(p, s) /\ c + 1 \in Nat
  BY <1>1, <1>13, <1>14, PostponeType, PostponeSame
<1>18. Flow(s, c + 1)
  BY <1>14, <1>16, <1>17, SameKeepsFlow
<1> HIDE DEF s
<1> QED
  BY <1>4, <1>5, <1>13, <1>17, <1>18 DEF FlowInv, ReqInv, s

-----------------------------------------------------------------------------
(* Failing *)

(* Flushed work requests may follow anything. *)
LEMMA FlushConcat ==
  ASSUME NEW cq \in Seq(SendWc), ErrsLast(cq), NEW wcs \in Seq(SendWc),
         \A i \in 1 .. Len(wcs) : wcs[i].status = "WR_FLUSH_ERR"
  PROVE  ErrsLast(cq \o wcs)
<1> DEFINE l == cq \o wcs
           m == Len(cq)
           n == Len(wcs)
<1>1. m \in Nat /\ n \in Nat /\ Len(l) = m + n
  OBVIOUS
<1>2. \A i \in 1 .. m + n : l[i] = IF i <= m THEN cq[i] ELSE wcs[i - m]
  BY ConcatProperties
<1>3. \A i, j \in 1 .. m :
        i < j /\ cq[i].status # "SUCCESS" => cq[j].status = "WR_FLUSH_ERR"
  BY DEF ErrsLast
<1>4. \A i \in 1 .. n : wcs[i].status = "WR_FLUSH_ERR"
  OBVIOUS
<1> HIDE DEF l, m, n
<1>5. ASSUME NEW i \in 1 .. m + n, NEW j \in 1 .. m + n, i < j,
             l[i].status # "SUCCESS"
      PROVE  l[j].status = "WR_FLUSH_ERR"
  <2>1. CASE j <= m
    BY <1>1, <1>2, <1>3, <1>5, <2>1
  <2>2. CASE j > m
    <3>1. j - m \in 1 .. n
      BY <1>1, <2>2
    <3> QED BY <1>1, <1>2, <1>4, <2>2, <3>1
  <2> QED BY <1>1, <2>1, <2>2
<1>6. ErrsLast(l)
  BY <1>1, <1>5 DEF ErrsLast
<1> QED BY <1>6 DEF l

(* One failure may follow success. *)
LEMMA FailAppend ==
  ASSUME NEW cq \in Seq(SendWc), AllGood(cq), NEW wc \in SendWc
  PROVE  ErrsLast(Append(cq, wc))
<1> DEFINE l == Append(cq, wc)
           m == Len(cq)
<1>1. m \in Nat /\ Len(l) = m + 1 /\ \A i \in 1 .. m : l[i] = cq[i]
  OBVIOUS
<1>2. \A i \in 1 .. m : l[i].status = "SUCCESS"
  BY <1>1 DEF AllGood
<1> HIDE DEF l, m
<1>3. ErrsLast(l)
  BY <1>1, <1>2 DEF ErrsLast
<1> QED BY <1>3 DEF l

LEMMA flush_reqFlow ==
  ASSUME NEW q, ReqInv(q), ErrsLast(q.cq)
  PROVE  FlowInv(flush_req(q))
<1> DEFINE left == Started(q) \o q.submitted
           wcs == [i \in 1 .. Len(left) |->
                     [wr |-> left[i], status |-> "WR_FLUSH_ERR"]]
           cq  == q.cq \o wcs
           e   == <<>>
           z   == 0
           err == "ERR"
           p1  == [q EXCEPT !.state = err, !.waiting = e, !.sending = e,
                            !.submitted = e, !.nr_rd_atomic = z, !.cq = cq]
           p2  == reschedule_req(p1)
           p3  == [p2 EXCEPT !.nr_contig_requests = z, !.nr_contig_read_acks = z]
           f   == flush_req(q)
<1>1. q \in ReqType /\ q.cq \in Seq(SendWc) /\ ReqInv(f)
  BY ReqFields, flush_reqType DEF SendWc, ReqInv, Requester
<1>2. f = p3
  BY DEF flush_req
<1>3. /\ q.waiting \in Seq(Nat) /\ q.sending \in Seq(Nat) /\ q.submitted \in Seq(Nat)
  BY <1>1, ReqFields
<1>4. left \in Seq(Nat) /\ Len(left) \in Nat /\ \A i \in 1 .. Len(left) : left[i] \in Nat
  <2>1. left \in Seq(Nat)
    BY <1>3 DEF Started
  <2> HIDE DEF left
  <2> QED BY <2>1
<1> HIDE DEF left
<1>5. wcs \in Seq(SendWc) /\ \A i \in 1 .. Len(wcs) : wcs[i].status = "WR_FLUSH_ERR"
  <2>1. "WR_FLUSH_ERR" \in Statuses
    BY DEF Statuses
  <2>2. wcs \in [1 .. Len(left) -> SendWc]
    BY <1>4, <2>1 DEF SendWc
  <2>3. \A i \in 1 .. Len(left) : wcs[i].status = "WR_FLUSH_ERR"
    OBVIOUS
  <2> HIDE DEF wcs
  <2>4. wcs \in Seq(SendWc) /\ Len(wcs) = Len(left)
    BY <1>4, <2>2, SeqDef, SMTT(30)
  <2> QED BY <2>3, <2>4
<1> HIDE DEF wcs
<1>6. ErrsLast(cq) /\ cq \in Seq(SendWc)
  BY <1>1, <1>5, FlushConcat
<1>7. e \in Seq(Nat) /\ z \in Int /\ z \in Nat /\ err \in {"RTS", "ERR"}
  OBVIOUS
<1> HIDE DEF cq, e, z, err, f
<1>8. /\ p1 \in ReqType /\ p1.state = err /\ p1.cq = cq /\ p1.submitted = e
      /\ p1.nr_rd_atomic = z
  BY <1>1, <1>6, <1>7 DEF ReqType, SendWc
<1> HIDE DEF p1
<1>9. SameFlow(p1, p2) /\ p2 \in ReqType
  <2>1. SameFlow(p1, p2)
    BY <1>8, reschedule_reqSame
  <2>2. p2 \in ReqType
    <3> DEFINE on == /\ p1.state = "RTS"
                     /\ p1.waiting # <<>> \/ SendDue(p1) \/ StartDue(p1)
    <3>1. p2 = [p1 EXCEPT !.on = on] /\ on \in BOOLEAN
      BY DEF reschedule_req
    <3> HIDE DEF on, p2
    <3> QED BY <1>8, <3>1 DEF ReqType
  <2> QED BY <2>1, <2>2
<1> HIDE DEF p2
<1>10. SameFlow(p2, p3)
  BY <1>9 DEF SameFlow, SameWqes, ReqType
<1> HIDE DEF p3
<1>11. /\ f.state = "ERR" /\ f.cq = cq /\ f.nr_rd_atomic = 0
       /\ Len(f.submitted) = 0
  BY <1>2, <1>8, <1>9, <1>10 DEF SameFlow, err, z, e
<1>12. Len(f.cq) = Len(f.wqe) /\ Len(f.cq) \in Nat
  BY <1>1, <1>11, ReqFields DEF ReqInv, Requester, Drained
<1>13. Begun(f) = Len(f.cq)
  BY <1>11, <1>12 DEF Begun
<1> DEFINE c == Len(f.cq)
<1> HIDE DEF c
<1>14. c + 1 .. c = {} /\ c \in Nat /\ Begun(f) = c
  BY <1>12, <1>13 DEF c
<1>15. RdAtomics(f, c) = {}
  BY <1>14 DEF RdAtomics
<1>16. Counts(f, c)
  <2>1. Cardinality(RdAtomics(f, c)) = 0
    BY <1>15, FS_EmptySet
  <2>2. 0 <= MaxRdAtomic
    BY ConstantTypes
  <2> QED BY <1>11, <2>1, <2>2 DEF Counts
<1>17. Psns(f, c) /\ Fences(f, c) /\ Errs(f)
  BY <1>6, <1>11, <1>14 DEF Psns, Fences, Errs
<1> QED
  BY <1>1, <1>16, <1>17 DEF FlowInv, Flow, c, f

LEMMA CompletionErrorFlow ==
  ASSUME NEW q, Requester(q, Len(q.cq) + 1), NEW id, id = Len(q.cq) + 1,
         id \in DOMAIN q.wqe, AllGood(q.cq)
  PROVE  FlowInv(CompletionError(q, id))
<1>1. Len(q.cq) \in Nat /\ q.wqe \in Seq(SwqeType) /\ q.cq \in Seq(SendWc)
  BY ReqFields DEF Requester, SendWc
<1>2. q.wqe[id] \in SwqeType
  BY <1>1
<1>3. q.wqe[id].status \in Statuses
  BY <1>2 DEF SwqeType
<1> DEFINE st == q.wqe[id].status
           p  == insert_send_wc(q, id, st)
           wc == [wr |-> id, status |-> st]
           cq == Append(q.cq, wc)
<1>4. id \in Nat
  BY <1>1
<1>5. Requester(p, id) /\ Len(p.cq) = id
  BY <1>3, <1>4, insert_send_wcType
<1>6. wc \in SendWc
  BY <1>3, <1>4 DEF SendWc
<1> HIDE DEF wc
<1>7. ErrsLast(cq)
  BY <1>1, <1>6, FailAppend
<1> HIDE DEF cq
<1>8. p.cq = cq
  BY DEF insert_send_wc, cq, wc, Requester, ReqType
<1> HIDE DEF p
<1>9. FlowInv(flush_req(p))
  BY <1>5, <1>7, <1>8, flush_reqFlow DEF ReqInv
<1> QED
  BY <1>9 DEF CompletionError, p

(* The oldest started work request fails.                                  *)
LEMMA FailFirstFlow ==
  ASSUME NEW q, ReqInv(q), Len(Started(q)) >= 1, NEW id, id = Len(q.cq) + 1,
         AllGood(q.cq)
  PROVE  FlowInv(CompletionError(DropStarted(q, 1), id))
<1> DEFINE c == Len(q.cq)
           p == DropStarted(q, 1)
<1>1. c \in Nat /\ Requester(q, c) /\ Len(Started(q)) \in Nat
  BY ReqFields, ListsExist DEF ReqInv, Requester
<1>2. 1 \in 0 .. Len(Started(q)) /\ 1 \in 1 .. Len(Started(q))
  BY <1>1
<1>3. Requester(p, c + 1) /\ p.cq = q.cq /\ p.wqe = q.wqe
  BY <1>1, <1>2, DropStartedType
<1>4. id \in DOMAIN q.wqe
  BY <1>1, <1>2, ListsExist
<1> HIDE DEF p
<1>5. FlowInv(CompletionError(p, id))
  BY <1>3, <1>4, CompletionErrorFlow
<1> QED
  BY <1>5 DEF p

-----------------------------------------------------------------------------
(* Serving the lists *)

(* An operation that leaves the flow alone keeps the invariant.            *)
LEMMA SameInv ==
  ASSUME NEW q, NEW p, FlowInv(q), SameFlow(q, p), ReqInv(p)
  PROVE  FlowInv(p)
<1>1. Len(q.cq) \in Nat /\ Requester(q, Len(q.cq)) /\ Flow(q, Len(q.cq))
  BY ReqFields DEF FlowInv, ReqInv, Requester
<1>2. Flow(p, Len(q.cq)) /\ p.cq = q.cq
  BY <1>1, SameKeepsFlow DEF SameFlow
<1> QED BY <1>2 DEF FlowInv

LEMMA FlowFacts ==
  ASSUME NEW q, FlowInv(q)
  PROVE  /\ ReqInv(q) /\ Len(q.cq) \in Nat /\ Requester(q, Len(q.cq))
         /\ Flow(q, Len(q.cq)) /\ q \in ReqType /\ ErrsLast(q.cq)
         /\ q.state = "RTS" => AllGood(q.cq)
BY ReqFields DEF FlowInv, ReqInv, Requester, Flow, Errs

LEMMA process_send_wrFlow ==
  ASSUME NEW q, FlowInv(q), q.sending # <<>>,
         q.wqe[Head(q.sending)].status # "SUCCESS" => q.waiting = <<>>
  PROVE  FlowInv(process_send_wr(q))
<1> DEFINE id == Head(q.sending)
           s  == Tail(q.sending)
           c  == Len(q.cq)
           p  == [q EXCEPT !.sending = s]
<1>1. /\ c \in Nat /\ Requester(q, c) /\ ReqInv(q) /\ q \in ReqType
      /\ q.state = "RTS" => AllGood(q.cq)
  BY FlowFacts
<1>2. q.state = "RTS"
  BY <1>1, DrainedLists DEF ReqType
<1>3. ReqInv(process_send_wr(q)) /\ id \in DOMAIN q.wqe
  BY <1>1, process_send_wrType, ListsExist
<1>4. CASE q.wqe[id].status = "SUCCESS"
  <2>1. process_send_wr(q) = pib_process_rc_qp_request(q, id)
    BY <1>4 DEF process_send_wr
  <2>2. SameFlow(q, pib_process_rc_qp_request(q, id))
    <3> HIDE DEF id, c
    <3> QED BY <1>1, <1>3, pib_process_rc_qp_requestSame
  <2> QED BY <1>3, <2>1, <2>2, SameInv
<1>5. CASE q.wqe[id].status # "SUCCESS"
  <2>1. q.waiting = <<>>
    BY <1>5
  <2>2. process_send_wr(q) = CompletionError(p, id)
    BY <1>5 DEF process_send_wr
  <2>3. /\ CompletedInOrder(q.cq)
        /\ q.sending \in Seq(Nat) /\ q.submitted \in Seq(Nat)
        /\ InOrder(<<>>, q.sending, q.submitted, Len(q.wqe), c)
    BY <1>1, <2>1, RequesterFacts
  <2>4. id = c + 1 /\ s \in Seq(Nat) /\ InOrder(<<>>, s, q.submitted, Len(q.wqe), c + 1)
    <3> DEFINE t == q.sending
    <3>1. t \in Seq(Nat) /\ t # <<>> /\ id = Head(t) /\ s = Tail(t)
          /\ InOrder(<<>>, t, q.submitted, Len(q.wqe), c)
      BY <2>3
    <3> HIDE DEF t, id, s, c
    <3> QED BY <1>1, <2>3, <3>1, InOrderFirst
  <2> HIDE DEF id, s, c
  <2>5. /\ p \in ReqType /\ p.cq = q.cq /\ p.waiting = q.waiting
        /\ p.sending = s /\ p.submitted = q.submitted /\ p.wqe = q.wqe
        /\ p.state = q.state
    BY <1>1, <2>4 DEF ReqType
  <2> HIDE DEF p
  <2>6. Drained(q, c + 1)
    BY <1>2 DEF Drained
  <2>7. Requester(p, c + 1)
    BY <2>1, <2>3, <2>4, <2>5, <2>6, RequesterIntro
  <2>8. id \in DOMAIN p.wqe /\ Len(p.cq) = c /\ AllGood(p.cq)
    BY <1>1, <1>2, <1>3, <2>5 DEF c
  <2>9. FlowInv(CompletionError(p, id))
    BY <2>4, <2>7, <2>8, CompletionErrorFlow
  <2> QED BY <2>2, <2>9
<1> QED
  BY <1>4, <1>5

LEMMA StartNextFlow ==
  ASSUME NEW q, FlowInv(q)
  PROVE  FlowInv(StartNext(q))
<1>1. /\ Len(q.cq) \in Nat /\ Requester(q, Len(q.cq)) /\ Flow(q, Len(q.cq))
      /\ ReqInv(StartNext(q))
  BY FlowFacts, StartNextType
<1>2. CASE q.sending = <<>> /\ MayStart(q)
  <2>1. StartNext(q) = process_new_send_wr(q)
    BY <1>2 DEF StartNext
  <2>2. q.submitted # <<>>
    BY <1>2 DEF MayStart
  <2>3. process_new_send_wr(q).cq = q.cq
    BY <1>1, <2>2, process_new_send_wrType
  <2>4. Flow(process_new_send_wr(q), Len(q.cq))
    BY <1>1, <1>2, StartFlow
  <2> QED BY <1>1, <2>1, <2>3, <2>4 DEF FlowInv
<1>3. CASE ~ (q.sending = <<>> /\ MayStart(q))
  BY <1>3 DEF StartNext
<1> QED
  BY <1>2, <1>3

LEMMA SendFirstFlow ==
  ASSUME NEW q, FlowInv(q)
  PROVE  FlowInv(SendFirst(q))
<1>1. CASE q.sending = <<>> \/ HeldBack(q)
  BY <1>1 DEF SendFirst
<1>2. CASE ~ (q.sending = <<>> \/ HeldBack(q))
  <2>1. /\ q.sending # <<>>
        /\ q.wqe[Head(q.sending)].status # "SUCCESS" => q.waiting = <<>>
    BY <1>2 DEF HeldBack
  <2>2. SendFirst(q) = process_send_wr(q)
    BY <1>2 DEF SendFirst
  <2> QED BY <2>1, <2>2, process_send_wrFlow
<1> QED
  BY <1>1, <1>2

LEMMA LocalAckTimeoutFlow ==
  ASSUME NEW q, FlowInv(q), q.waiting # <<>>
  PROVE  FlowInv(LocalAckTimeout(q))
<1>1. Len(q.cq) \in Nat /\ Requester(q, Len(q.cq))
  BY FlowFacts
<1>2. /\ Requester(LocalAckTimeout(q), Len(q.cq)) /\ LocalAckTimeout(q).cq = q.cq
      /\ SameFlow(q, LocalAckTimeout(q))
  BY <1>1, LocalAckTimeoutType, LocalAckTimeoutSame
<1> QED BY <1>2, SameInv DEF ReqInv

-----------------------------------------------------------------------------
(* Responses *)

LEMMA receive_ACK_responseFlow ==
  ASSUME NEW q, FlowInv(q), q.state = "RTS", NEW psn \in Int
  PROVE  FlowInv(receive_ACK_response(q, psn))
<1> DEFINE all == Started(q)
           out == [i \in DOMAIN all |-> process_acknowledge(q.wqe[all[i]], psn)]
           cut == {i \in DOMAIN all : out[i] # "COMPLETE"}
           n   == IF cut = {} THEN Len(all) ELSE Min(cut) - 1
           q1  == CompleteStarted(q, n)
           id  == all[n + 1]
           c   == Len(q.cq)
           v   == get_psn_diff(psn, q.wqe[id].based_psn) + 1
           q2  == [q1 EXCEPT !.wqe[id].ack_packets = v]
           q3  == SetStatus(q1, id, "BAD_RESP_ERR")
<1>1. /\ c \in Nat /\ Requester(q, c) /\ all \in Seq(Nat) /\ Len(all) \in Nat
      /\ \A i \in 1 .. Len(all) : all[i] = c + i /\ all[i] \in DOMAIN q.wqe
      /\ ReqInv(q)
  BY FlowFacts, ListsExist
<1>2. \/ cut = {} /\ receive_ACK_response(q, psn) = postpone_local_ack_timeout(q1)
      \/ cut # {} /\ \/ receive_ACK_response(q, psn) = postpone_local_ack_timeout(q1)
                     \/ receive_ACK_response(q, psn) = postpone_local_ack_timeout(q2)
                     \/ receive_ACK_response(q, psn)
                          = CompletionError(DropStarted(q1, 1), id)
                     \/ receive_ACK_response(q, psn)
                          = CompletionError(DropStarted(q3, 1), id)
  <2> HIDE DEF q1, q2, q3, id
  <2>1. receive_ACK_response(q, psn) =
          IF cut = {} THEN postpone_local_ack_timeout(q1)
          ELSE CASE out[n + 1] = "ERROR" -> CompletionError(DropStarted(q1, 1), id)
                 [] out[n + 1] = "BAD_RESP" ->
                      CompletionError(DropStarted(q3, 1), id)
                 [] out[n + 1] = "CONTINUE" -> postpone_local_ack_timeout(q2)
                 [] OTHER -> postpone_local_ack_timeout(q1)
    BY DEF receive_ACK_response, q1, q2, q3, id
  <2> DEFINE o == out[n + 1]
             empty == cut = {}
  <2> HIDE DEF o, empty, all, out, cut, n
  <2>2. receive_ACK_response(q, psn) =
          IF empty THEN postpone_local_ack_timeout(q1)
          ELSE CASE o = "ERROR" -> CompletionError(DropStarted(q1, 1), id)
                 [] o = "BAD_RESP" -> CompletionError(DropStarted(q3, 1), id)
                 [] o = "CONTINUE" -> postpone_local_ack_timeout(q2)
                 [] OTHER -> postpone_local_ack_timeout(q1)
    BY <2>1 DEF o, empty
  <2>3. CASE o \notin {"ERROR", "BAD_RESP", "CONTINUE"}
    BY <2>2, <2>3 DEF empty
  <2>4. CASE o = "ERROR"
    BY <2>2, <2>4 DEF empty
  <2>5. CASE o = "BAD_RESP"
    BY <2>2, <2>5 DEF empty
  <2>6. CASE o = "CONTINUE"
    BY <2>2, <2>6 DEF empty
  <2> QED BY <2>3, <2>4, <2>5, <2>6
<1>3. /\ n \in 0 .. Len(all) /\ (cut # {} => n + 1 \in 1 .. Len(all))
      /\ \A i \in 1 .. n : i \in 1 .. Len(all) /\ i \notin cut
  <2>1. cut \subseteq 1 .. Len(all)
    BY <1>1
  <2>2. cut # {} => Min(cut) \in cut /\ \A i \in cut : Min(cut) <= i
    <3>1. cut \subseteq Nat
      BY <1>1, <2>1
    <3> HIDE DEF cut
    <3> QED BY <3>1, MinIsElement
  <2> HIDE DEF cut, all
  <2> QED BY <1>1, <2>1, <2>2, SMTT(30)
<1>4. \A i \in c + 1 .. c + n : ~IsRd(q.wqe[i])
  <2>1. ASSUME NEW i \in 1 .. n PROVE ~IsRd(q.wqe[c + i])
    <3>0. i \in 1 .. Len(all) /\ i \notin cut
      BY <1>3
    <3>a. i \in DOMAIN all /\ all[i] = c + i
      <4> HIDE DEF all, c, cut
      <4> QED BY <1>1, <3>0
    <3>b. out[i] = "COMPLETE"
      <4> HIDE DEF all, out
      <4> QED BY <3>0, <3>a
    <3>1. i \in DOMAIN all /\ out[i] = "COMPLETE" /\ all[i] = c + i
      BY <3>a, <3>b
    <3>2. process_acknowledge(q.wqe[c + i], psn) = "COMPLETE"
      BY <3>1
    <3> QED BY <3>2 DEF process_acknowledge, IsRd
  <2>2. \A j \in c + 1 .. c + n : j - c \in 1 .. n /\ c + (j - c) = j
    <3> HIDE DEF n, c, all
    <3> QED BY <1>1, <1>3
  <2> HIDE DEF n, c
  <2> QED BY <2>1, <2>2
<1> HIDE DEF cut, out, n
<1>5. /\ ReqInv(q1) /\ Len(q1.cq) = c + n /\ q1.wqe = q.wqe
      /\ Len(Started(q1)) = Len(all) - n
  BY <1>1, <1>3, CompleteStartedType
<1>6. FlowInv(q1) /\ q1.state = "RTS"
  BY <1>3, <1>4, AcknowledgedFlow
<1> HIDE DEF q1
<1>7. /\ c + n \in Nat /\ Requester(q1, c + n) /\ AllGood(q1.cq) /\ q1 \in ReqType
  BY <1>1, <1>3, <1>5, <1>6, FlowFacts DEF ReqInv
<1>8. FlowInv(postpone_local_ack_timeout(q1))
  <2>1. ReqInv(postpone_local_ack_timeout(q1))
    BY <1>5, <1>7, PostponeType DEF ReqInv
  <2> QED BY <1>6, <1>7, <2>1, PostponeSame, SameInv
<1>9. ASSUME cut # {}
      PROVE  /\ FlowInv(postpone_local_ack_timeout(q2))
             /\ FlowInv(CompletionError(DropStarted(q1, 1), id))
             /\ FlowInv(CompletionError(DropStarted(q3, 1), id))
  <2>1. id = c + (n + 1) /\ id \in DOMAIN q1.wqe
    BY <1>1, <1>3, <1>5, <1>9
  <2> HIDE DEF id
  <2>2. q1.wqe[id] \in SwqeType
    BY <1>7, <2>1, FirstWqe
  <2>3. id = Len(q1.cq) + 1 /\ Len(Started(q1)) >= 1
    <3> DEFINE L == Len(q1.cq)
               S == Len(Started(q1))
               A == Len(all)
    <3> HIDE DEF L, S, A, c, all
    <3>1. id = L + 1 /\ S >= 1
      BY <1>1, <1>3, <1>5, <1>9, <2>1 DEF L, S, A
    <3> QED BY <3>1 DEF L, S
  <2>4. FlowInv(CompletionError(DropStarted(q1, 1), id))
    BY <1>5, <1>7, <2>3, FailFirstFlow
  <2>5. /\ Requester(q3, c + n) /\ q3.cq = q1.cq /\ q3.waiting = q1.waiting
        /\ q3.sending = q1.sending
    <3>1. "BAD_RESP_ERR" \in Statuses
      BY DEF Statuses
    <3> QED BY <1>7, <2>1, <3>1, SetStatusType
  <2> HIDE DEF q3
  <2>6. ReqInv(q3) /\ Started(q3) = Started(q1) /\ AllGood(q3.cq)
    BY <1>5, <1>7, <2>5 DEF ReqInv, Started
  <2>7. FlowInv(CompletionError(DropStarted(q3, 1), id))
    BY <2>3, <2>5, <2>6, FailFirstFlow
  <2>8. v \in Int
    <3>1. q.wqe[id].based_psn \in Int
      BY <1>5, <2>2, SwqeFields
    <3> DEFINE b == q.wqe[id].based_psn
    <3> HIDE DEF b
    <3>2. get_psn_diff(psn, b) \in Int
      BY <3>1, PsnDiffType DEF b
    <3> QED BY <3>2 DEF b
  <2> HIDE DEF v
  <2> DEFINE e == [q1.wqe[id] EXCEPT !.ack_packets = v]
  <2>9. /\ e \in SwqeType /\ e.wr = q1.wqe[id].wr
        /\ e.based_psn = q1.wqe[id].based_psn
        /\ e.expected_psn = q1.wqe[id].expected_psn
    BY <2>2, <2>8 DEF SwqeType
  <2>10. q2 = [q1 EXCEPT !.wqe[id] = e]
    OBVIOUS
  <2> HIDE DEF e, q2
  <2>11. Requester(q2, c + n) /\ q2.cq = q1.cq /\ SameFlow(q1, q2)
    <3>1. Requester(q2, c + n) /\ q2.cq = q1.cq
      BY <1>7, <2>9, <2>10, WqeSet, ZenonT(30)
    <3>2. SameFlow(q1, q2)
      BY <1>7, <2>1, <2>9, <2>10, SameSet
    <3> QED BY <3>1, <3>2
  <2>12. FlowInv(q2) /\ q2 \in ReqType
    BY <1>5, <1>6, <2>11, SameInv DEF ReqInv, Requester
  <2>13. ReqInv(postpone_local_ack_timeout(q2))
    BY <1>5, <1>7, <2>11, PostponeType DEF ReqInv
  <2>14. FlowInv(postpone_local_ack_timeout(q2))
    BY <2>12, <2>13, PostponeSame, SameInv
  <2> QED BY <2>4, <2>7, <2>14
<1> HIDE DEF q2, q3, id
<1> QED
  BY <1>2, <1>8, <1>9

(* An answer to the oldest started RDMA READ or Atomic operation.          *)
LEMMA AnswerFlow ==
  ASSUME NEW q, FlowInv(q), q.state = "RTS", Len(Started(q)) >= 1,
         IsRd(q.wqe[Len(q.cq) + 1]),
         NEW p, SameFlow(q, p), ReqInv(p), Started(p) = Started(q)
  PROVE  FlowInv(p) /\ FlowInv(CompleteRdAtomic(p))
<1> DEFINE c == Len(q.cq)
<1>1. c \in Nat /\ Requester(q, c) /\ Len(Started(q)) \in Nat
  BY FlowFacts, ListsExist
<1>2. FlowInv(p)
  BY SameInv
<1>3. p.state = "RTS" /\ p.cq = q.cq /\ SameWqes(q.wqe, p.wqe)
  BY DEF SameFlow
<1>4. c + 1 \in 1 .. Len(q.wqe)
  <2> DEFINE L == Len(Started(q))
             B == Begun(q)
             W == Len(q.wqe)
  <2>1. B \in Nat /\ W \in Nat /\ B <= W /\ B = c + L
    BY <1>1, Numbers
  <2>2. c \in Nat /\ L \in Nat /\ L >= 1
    BY <1>1
  <2> HIDE DEF L, B, W, c
  <2>3. c + 1 \in 1 .. W
    BY <2>1, <2>2
  <2> QED BY <2>3 DEF W
<1>5. p.wqe[c + 1].wr = q.wqe[c + 1].wr
  <2> HIDE DEF c
  <2> QED BY <1>3, <1>4 DEF SameWqes
<1>6. IsRd(p.wqe[Len(p.cq) + 1])
  BY <1>3, <1>5 DEF IsRd
<1> QED
  BY <1>2, <1>3, <1>6, CompleteRdAtomicFlow

LEMMA receive_Atomic_responseFlow ==
  ASSUME NEW q, FlowInv(q), q.state = "RTS", NEW p \in ResponseType
  PROVE  FlowInv(receive_Atomic_response(q, p))
<1> DEFINE hits == match_send_wqe(q, p.psn)
           id   == Started(q)[Min(hits)]
           e    == q.wqe[id]
           res  == p.res
           f    == [e EXCEPT !.res = res]
           q1   == [q EXCEPT !.wqe[id] = f]
           mine == Min(hits) = 1 /\ e.wr.op \in {"CAS", "FADD"}
<1>1. Len(q.cq) \in Nat /\ Requester(q, Len(q.cq)) /\ ReqInv(q) /\ q \in ReqType
  BY FlowFacts
<1>2. \/ receive_Atomic_response(q, p) = q
      \/ hits # {} /\ \/ receive_Atomic_response(q, p)
                           = SetStatus(q, id, "BAD_RESP_ERR")
                      \/ receive_Atomic_response(q, p)
                           = SetStatus(q, id, "LOC_PROT_ERR")
                      \/ /\ receive_Atomic_response(q, p) = CompleteRdAtomic(q1)
                         /\ mine
  <2>1. [q EXCEPT !.wqe[id].res = p.res] = q1
    OBVIOUS
  <2>2. receive_Atomic_response(q, p) =
      IF hits = {} THEN q
      ELSE IF e.wr.op \notin {"CAS", "FADD"} THEN SetStatus(q, id, "BAD_RESP_ERR")
      ELSE IF Min(hits) # 1 \/ get_psn_diff(e.based_psn, p.psn) # 0 THEN q
      ELSE IF e.wr.fault = "local" THEN SetStatus(q, id, "LOC_PROT_ERR")
      ELSE CompleteRdAtomic(q1)
    <3> HIDE DEF q1, hits
    <3> QED BY <2>1 DEF receive_Atomic_response, hits
  <2> HIDE DEF hits, id, e, q1
  <2> QED BY <2>2
<1>3. ASSUME hits # {}
      PROVE  /\ FlowInv(SetStatus(q, id, "BAD_RESP_ERR"))
             /\ FlowInv(SetStatus(q, id, "LOC_PROT_ERR"))
             /\ mine => FlowInv(CompleteRdAtomic(q1))
  <2>1. id \in DOMAIN q.wqe /\ Min(hits) \in 1 .. Len(Started(q))
    BY <1>1, <1>3, MatchExists
  <2>2. Len(Started(q)) \in Nat /\ \A i \in 1 .. Len(Started(q)) : Started(q)[i] = Len(q.cq) + i
    BY <1>1, ListsExist
  <2>3. e \in SwqeType
    BY <1>1, <2>1, FirstWqe
  <2>4. "BAD_RESP_ERR" \in Statuses /\ "LOC_PROT_ERR" \in Statuses
    BY DEF Statuses
  <2>5. /\ FlowInv(SetStatus(q, id, "BAD_RESP_ERR"))
        /\ FlowInv(SetStatus(q, id, "LOC_PROT_ERR"))
    <3> HIDE DEF id
    <3> QED BY <1>1, <2>1, <2>4, SetStatusInv, SetStatusSame, SameInv
  <2>6. res \in Int
    BY DEF ResponseType
  <2>7. /\ f \in SwqeType /\ f.wr = e.wr /\ f.based_psn = e.based_psn
        /\ f.expected_psn = e.expected_psn
    <3> HIDE DEF e, res
    <3> QED BY <2>3, <2>6 DEF SwqeType
  <2> HIDE DEF f
  <2>8. ReqInv(q1) /\ Started(q1) = Started(q)
    BY <1>1, <2>7, WqeSetInv
  <2>9. SameFlow(q, q1)
    <3> HIDE DEF id
    <3> QED BY <1>1, <2>1, <2>7, SameSet
  <2> HIDE DEF q1
  <2>10. ASSUME mine PROVE FlowInv(CompleteRdAtomic(q1))
    <3>1. Len(Started(q)) >= 1 /\ id = Len(q.cq) + 1
      <4> DEFINE L == Len(Started(q))
                 m == Min(hits)
      <4>1. m = 1 /\ m \in 1 .. L /\ L \in Nat
        BY <2>1, <2>2, <2>10
      <4> HIDE DEF L, m, hits
      <4>2. L >= 1 /\ 1 \in 1 .. L
        BY <4>1
      <4>3. Started(q)[1] = Len(q.cq) + 1
        BY <2>2, <4>2 DEF L
      <4> QED BY <4>1, <4>2, <4>3 DEF L, m
    <3>2. IsRd(q.wqe[Len(q.cq) + 1])
      <4>1. e.wr.op \in {"CAS", "FADD"}
        BY <2>10
      <4>2. q.wqe[Len(q.cq) + 1].wr.op \in {"CAS", "FADD"}
        <5> HIDE DEF id
        <5> QED BY <3>1, <4>1
      <4> QED BY <4>2 DEF IsRd, pib_is_wr_opcode_rd_atomic
    <3> QED BY <2>8, <2>9, <3>1, <3>2, AnswerFlow
  <2> HIDE DEF id, mine
  <2> QED BY <2>5, <2>10
<1> HIDE DEF hits, id, q1, mine
<1> QED
  BY <1>2, <1>3

LEMMA receive_RDMA_READ_responseFlow ==
  ASSUME NEW q, FlowInv(q), q.state = "RTS", NEW p \in ResponseType
  PROVE  FlowInv(receive_RDMA_READ_response(q, p))
<1> DEFINE hits == match_send_wqe(q, p.psn)
           id   == Started(q)[Min(hits)]
           e    == q.wqe[id]
           skew == p.op = "READ_MIDDLE"
           d    == [wr |-> p.wr, k |-> p.k, skew |-> skew]
           data == Append(e.data, d)
           s    == e.sent_packets + 1
           a    == e.ack_packets + 1
           f    == [e EXCEPT !.sent_packets = s, !.ack_packets = a, !.data = data]
           r    == [q EXCEPT !.wqe[id] = f]
           q1   == process_cnp_notify_request(r)
           mine == Min(hits) = 1 /\ e.wr.op = "READ"
<1>1. Len(q.cq) \in Nat /\ Requester(q, Len(q.cq)) /\ ReqInv(q) /\ q \in ReqType
  BY FlowFacts
<1>2. \/ receive_RDMA_READ_response(q, p) = q
      \/ hits # {} /\ \/ receive_RDMA_READ_response(q, p)
                           = SetStatus(q, id, "BAD_RESP_ERR")
                      \/ receive_RDMA_READ_response(q, p)
                           = SetStatus(q, id, "LOC_PROT_ERR")
                      \/ receive_RDMA_READ_response(q, p) = q1 /\ mine
                      \/ /\ receive_RDMA_READ_response(q, p) = CompleteRdAtomic(q1)
                         /\ mine
  <2>2. receive_RDMA_READ_response(q, p) =
      IF hits = {} THEN q
      ELSE IF e.wr.op # "READ" THEN SetStatus(q, id, "BAD_RESP_ERR")
      ELSE IF \/ Min(hits) # 1
              \/ get_psn_diff(e.based_psn + e.sent_packets, p.psn) # 0
              \/ get_psn_diff(e.based_psn + e.ack_packets, p.psn) # 0
           THEN q
      ELSE IF e.wr.fault = "local" THEN SetStatus(q, id, "LOC_PROT_ERR")
      ELSE IF e.sent_packets + 1 < e.wr.pkts THEN q1
      ELSE CompleteRdAtomic(q1)
    BY Zenon DEF receive_RDMA_READ_response
  <2> HIDE DEF hits, id, e, q1
  <2> QED BY <2>2
<1>3. ASSUME hits # {}
      PROVE  /\ FlowInv(SetStatus(q, id, "BAD_RESP_ERR"))
             /\ FlowInv(SetStatus(q, id, "LOC_PROT_ERR"))
             /\ mine => FlowInv(q1) /\ FlowInv(CompleteRdAtomic(q1))
  <2>1. id \in DOMAIN q.wqe /\ Min(hits) \in 1 .. Len(Started(q))
    BY <1>1, <1>3, MatchExists
  <2>2. Len(Started(q)) \in Nat /\ \A i \in 1 .. Len(Started(q)) : Started(q)[i] = Len(q.cq) + i
    BY <1>1, ListsExist
  <2>3. e \in SwqeType
    BY <1>1, <2>1, FirstWqe
  <2>4. "BAD_RESP_ERR" \in Statuses /\ "LOC_PROT_ERR" \in Statuses
    BY DEF Statuses
  <2>5. /\ FlowInv(SetStatus(q, id, "BAD_RESP_ERR"))
        /\ FlowInv(SetStatus(q, id, "LOC_PROT_ERR"))
    <3> HIDE DEF id
    <3> QED BY <1>1, <2>1, <2>4, SetStatusInv, SetStatusSame, SameInv
  <2>6. s \in Int /\ a \in Int
    <3>1. e.sent_packets \in Int /\ e.ack_packets \in Int
      BY <2>3, SwqeFields
    <3> HIDE DEF e
    <3> QED BY <3>1
  <2>7. data \in Seq([wr : Nat, k : Int, skew : BOOLEAN])
    <3>1. e.data \in Seq([wr : Nat, k : Int, skew : BOOLEAN])
      <4> HIDE DEF e
      <4> QED BY <2>3 DEF SwqeType
    <3>2. d \in [wr : Nat, k : Int, skew : BOOLEAN]
      <4>1. p.wr \in Nat /\ p.k \in Int
        BY DEF ResponseType
      <4>2. skew \in BOOLEAN
        OBVIOUS
      <4> HIDE DEF skew
      <4> QED BY <4>1, <4>2
    <3> HIDE DEF d, e
    <3> QED BY <3>1, <3>2
  <2> HIDE DEF s, a, data
  <2>8. /\ f \in SwqeType /\ f.wr = e.wr /\ f.based_psn = e.based_psn
        /\ f.expected_psn = e.expected_psn
    <3> HIDE DEF e
    <3> QED BY <2>3, <2>6, <2>7 DEF SwqeType
  <2> HIDE DEF f
  <2>9. ReqInv(r) /\ Started(r) = Started(q) /\ r \in ReqType
    BY <1>1, <2>8, WqeSetInv DEF ReqInv, Requester
  <2>10. SameFlow(q, r)
    <3> HIDE DEF id
    <3> QED BY <1>1, <2>1, <2>8, SameSet
  <2> HIDE DEF r
  <2>11. ReqInv(q1) /\ Started(q1) = Started(q)
    BY <2>9, CnpNotifyType
  <2>12. SameFlow(q, q1)
    <3>1. SameFlow(r, q1)
      BY <2>9, CnpNotifySame
    <3> HIDE DEF q1
    <3> QED BY <2>10, <3>1, SameTrans
  <2> HIDE DEF q1
  <2>13. ASSUME mine PROVE FlowInv(q1) /\ FlowInv(CompleteRdAtomic(q1))
    <3>1. Len(Started(q)) >= 1 /\ id = Len(q.cq) + 1
      <4> DEFINE L == Len(Started(q))
                 m == Min(hits)
      <4>1. m = 1 /\ m \in 1 .. L /\ L \in Nat
        BY <2>1, <2>2, <2>13
      <4> HIDE DEF L, m, hits
      <4>2. L >= 1 /\ 1 \in 1 .. L
        BY <4>1
      <4>3. Started(q)[1] = Len(q.cq) + 1
        BY <2>2, <4>2 DEF L
      <4> QED BY <4>1, <4>2, <4>3 DEF L, m
    <3>2. IsRd(q.wqe[Len(q.cq) + 1])
      <4>1. e.wr.op = "READ"
        BY <2>13
      <4>2. q.wqe[Len(q.cq) + 1].wr.op = "READ"
        <5> HIDE DEF id
        <5> QED BY <3>1, <4>1
      <4> QED BY <4>2 DEF IsRd, pib_is_wr_opcode_rd_atomic
    <3> QED BY <2>11, <2>12, <3>1, <3>2, AnswerFlow
  <2> HIDE DEF id, mine
  <2> QED BY <2>5, <2>13
<1> HIDE DEF hits, id, q1, mine
<1> QED
  BY <1>2, <1>3

LEMMA receive_responseFlow ==
  ASSUME NEW q0, FlowInv(q0), q0.state = "RTS", NEW p \in ResponseType
  PROVE  FlowInv(receive_response(q0, p))
<1> DEFINE z == 0
           q == [q0 EXCEPT !.nr_contig_requests = z]
           s == NakStatus[p.synd]
           n == IF p.synd \in DOMAIN NakStatus
                THEN set_send_wqe_to_error(q, p.psn, s) ELSE q
           c == Len(q0.cq)
<1>1. q0 \in ReqType /\ c \in Nat /\ Requester(q0, c) /\ z \in Nat
  BY FlowFacts
<1>2. \/ receive_response(q0, p) = CountRnr(Resend(q))
      \/ receive_response(q0, p) = Resend(q)
      \/ receive_response(q0, p) = receive_ACK_response(n, p.psn)
      \/ receive_response(q0, p) = receive_Atomic_response(n, p)
      \/ receive_response(q0, p) = receive_RDMA_READ_response(n, p)
  <2>1. receive_response(q0, p) =
          CASE p.synd = "RNR"     -> CountRnr(Resend(q))
            [] p.synd = "PSN_SEQ" -> Resend(q)
            [] p.synd \notin {"RNR", "PSN_SEQ"} /\ p.op = "ACK" ->
                 receive_ACK_response(n, p.psn)
            [] p.synd \notin {"RNR", "PSN_SEQ"} /\ p.op = "ATOMIC_ACK" ->
                 receive_Atomic_response(n, p)
            [] OTHER -> receive_RDMA_READ_response(n, p)
    BY Zenon DEF receive_response
  <2> HIDE DEF q, n
  <2>2. CASE p.synd = "RNR"
    BY <2>1, <2>2
  <2>3. CASE p.synd = "PSN_SEQ"
    BY <2>1, <2>3
  <2>4. CASE p.synd \notin {"RNR", "PSN_SEQ"} /\ p.op = "ACK"
    BY <2>1, <2>4
  <2>5. CASE p.synd \notin {"RNR", "PSN_SEQ"} /\ p.op = "ATOMIC_ACK"
    BY <2>1, <2>5
  <2>6. CASE p.synd \notin {"RNR", "PSN_SEQ"} /\ p.op \notin {"ACK", "ATOMIC_ACK"}
    BY <2>1, <2>6
  <2> QED BY <2>2, <2>3, <2>4, <2>5, <2>6
<1> HIDE DEF z
<1>3. /\ q \in ReqType /\ q.cq = q0.cq /\ q.waiting = q0.waiting
      /\ q.sending = q0.sending /\ q.submitted = q0.submitted
      /\ q.wqe = q0.wqe /\ q.state = q0.state /\ q.psn = q0.psn
      /\ q.expected_psn = q0.expected_psn /\ q.nr_rd_atomic = q0.nr_rd_atomic
  BY <1>1 DEF ReqType
<1> HIDE DEF q
<1>4. Requester(q, c) /\ q.cq = q0.cq /\ q.state = "RTS"
  BY <1>1, <1>3 DEF Requester, OrderedFrom, Drained
<1>5. SameFlow(q0, q)
  BY <1>3 DEF SameFlow, SameWqes
<1>6. FlowInv(Resend(q)) /\ FlowInv(CountRnr(Resend(q)))
  <2>1. Requester(Resend(q), c) /\ Resend(q).cq = q.cq /\ SameFlow(q0, Resend(q))
    BY <1>1, <1>4, <1>5, ResendType, ResendSame, SameTrans
  <2> DEFINE r == Resend(q)
  <2> HIDE DEF r
  <2>2. Requester(r, c) /\ r.cq = q.cq /\ SameFlow(q0, r)
    BY <2>1 DEF r
  <2>3. Requester(CountRnr(r), c) /\ CountRnr(r).cq = r.cq /\ SameFlow(q0, CountRnr(r))
    BY <1>1, <2>2, CountRnrType, CountRnrSame, SameTrans
  <2>4. FlowInv(r) /\ FlowInv(CountRnr(r))
    BY <1>4, <2>2, <2>3, SameInv DEF ReqInv
  <2> QED BY <2>4 DEF r
<1>7. FlowInv(n) /\ n.state = "RTS"
  <2>1. CASE p.synd \in DOMAIN NakStatus
    <3>1. s \in Statuses
      BY <2>1 DEF NakStatus, Statuses
    <3> HIDE DEF s
    <3>2. n = set_send_wqe_to_error(q, p.psn, s)
      BY <2>1
    <3>3. Requester(n, c) /\ n.cq = q.cq /\ SameFlow(q, n)
      BY <1>1, <1>4, <3>1, <3>2, set_send_wqe_to_errorType, set_send_wqe_to_errorSame
    <3> HIDE DEF n
    <3>4. SameFlow(q0, n)
      BY <1>5, <3>3, SameTrans
    <3> QED BY <1>4, <3>3, <3>4, SameInv DEF ReqInv, SameFlow
  <2>2. CASE p.synd \notin DOMAIN NakStatus
    <3>1. n = q
      BY <2>2
    <3>2. ReqInv(q)
      BY <1>4 DEF ReqInv
    <3> QED BY <1>4, <1>5, <3>1, <3>2, SameInv
  <2> QED BY <2>1, <2>2
<1>8. p.psn \in Int
  BY DEF ResponseType
<1> HIDE DEF n
<1>9. /\ FlowInv(receive_ACK_response(n, p.psn))
      /\ FlowInv(receive_Atomic_response(n, p))
      /\ FlowInv(receive_RDMA_READ_response(n, p))
  BY <1>7, <1>8, receive_ACK_responseFlow, receive_Atomic_responseFlow,
     receive_RDMA_READ_responseFlow
<1> QED
  BY <1>2, <1>6, <1>9

-----------------------------------------------------------------------------
(* The requester's steps *)

(* Posting to a queue pair in error completes the work request at once.    *)
LEMMA FlushPostFlow ==
  ASSUME NEW q, FlowInv(q), q.state = "ERR", NEW w \in WRs
  PROVE  FlowInv(post_send(q, w))
<1> DEFINE n   == Len(q.wqe)
           id  == n + 1
           wqe == Append(q.wqe, NewSwqe(w))
           q1  == [q EXCEPT !.wqe = wqe]
           wc  == [wr |-> id, status |-> "WR_FLUSH_ERR"]
           cq  == Append(q.cq, wc)
           f   == post_send(q, w)
<1>1. /\ q \in ReqType /\ q.wqe \in Seq(SwqeType) /\ q.cq \in Seq(SendWc)
      /\ n \in Nat /\ ErrsLast(q.cq) /\ Requester(q, Len(q.cq))
      /\ Len(q.cq) \in Nat /\ Flow(q, Len(q.cq))
  BY FlowFacts, ReqFields DEF SendWc
<1>2. ReqInv(f)
  BY <1>1, post_sendType DEF FlowInv
<1>3. f = [q1 EXCEPT !.cq = Append(@, wc)]
  BY DEF post_send, insert_send_wc
<1>4. /\ Len(q.cq) = n /\ q.submitted = <<>>
  BY <1>1, DrainedLists DEF Requester, Drained
<1>5. wc \in SendWc /\ wc.status = "WR_FLUSH_ERR"
  <2>1. "WR_FLUSH_ERR" \in Statuses /\ id \in Nat
    BY <1>1 DEF Statuses
  <2> HIDE DEF id
  <2> QED BY <2>1 DEF SendWc
<1> HIDE DEF wc
<1>6. ErrsLast(cq) /\ Len(cq) = id
  <2>1. <<wc>> \in Seq(SendWc) /\ Len(<<wc>>) = 1 /\ <<wc>>[1] = wc
    BY <1>5
  <2> DEFINE l == <<wc>>
  <2> HIDE DEF l
  <2>2. l \in Seq(SendWc) /\ \A i \in 1 .. Len(l) : l[i].status = "WR_FLUSH_ERR"
    BY <1>5, <2>1 DEF l
  <2>3. ErrsLast(q.cq \o l)
    BY <1>1, <2>2, FlushConcat
  <2>4. cq = q.cq \o l
    BY <1>1, <1>5 DEF l
  <2>5. Len(cq) = Len(q.cq) + 1
    BY <1>1, <1>5
  <2> QED BY <1>4, <2>3, <2>4, <2>5
<1>7. Len(wqe) = id /\ wqe \in Seq(SwqeType)
  <2> DEFINE e == NewSwqe(w)
  <2> HIDE DEF e
  <2>1. e \in SwqeType
    BY NewSwqeType DEF e
  <2>2. Len(Append(q.wqe, e)) = Len(q.wqe) + 1 /\ Append(q.wqe, e) \in Seq(SwqeType)
    BY <1>1, <2>1
  <2> QED BY <2>2 DEF e
<1> HIDE DEF wqe
<1>8. /\ q1 \in ReqType /\ q1.state = q.state /\ q1.cq = q.cq /\ q1.wqe = wqe
      /\ q1.submitted = q.submitted /\ q1.nr_rd_atomic = q.nr_rd_atomic
  BY <1>1, <1>7 DEF ReqType
<1> HIDE DEF q1
<1>9. /\ f.state = "ERR" /\ f.cq = Append(q1.cq, wc) /\ f.wqe = q1.wqe
      /\ f.submitted = q1.submitted /\ f.nr_rd_atomic = q1.nr_rd_atomic
  BY <1>3, <1>8 DEF ReqType
<1> HIDE DEF f, cq
<1>10. f.cq = cq
  BY <1>8, <1>9 DEF cq
<1> DEFINE c == Len(f.cq)
<1>11. c = id /\ Len(f.wqe) = id /\ Len(f.submitted) = 0 /\ Len(q.submitted) = 0
  BY <1>4, <1>6, <1>7, <1>8, <1>9, <1>10
<1>12. q.nr_rd_atomic = 0
  <2>1. Begun(q) = n
    BY <1>1, <1>11 DEF Begun
  <2>2. RdAtomics(q, n) = {}
    <3> HIDE DEF n
    <3> QED BY <1>1, <2>1 DEF RdAtomics
  <2>3. q.nr_rd_atomic = Cardinality(RdAtomics(q, n))
    BY <1>1, <1>4 DEF Flow, Counts
  <2> QED BY <2>2, <2>3, FS_EmptySet
<1>13. Begun(f) = c /\ c \in Nat
  <2> HIDE DEF n, c
  <2> QED BY <1>1, <1>11 DEF Begun
<1> HIDE DEF c
<1>14. c + 1 .. c = {}
  BY <1>13
<1>15. RdAtomics(f, c) = {}
  BY <1>13, <1>14 DEF RdAtomics
<1>16. Counts(f, c)
  <2>1. Cardinality(RdAtomics(f, c)) = 0
    BY <1>15, FS_EmptySet
  <2>2. 0 <= MaxRdAtomic
    BY ConstantTypes
  <2> QED BY <1>8, <1>9, <1>12, <2>1, <2>2 DEF Counts
<1>17. Psns(f, c) /\ Fences(f, c) /\ Errs(f)
  BY <1>6, <1>9, <1>10, <1>13, <1>14 DEF Psns, Fences, Errs
<1> QED
  BY <1>2, <1>16, <1>17 DEF FlowInv, Flow, c, f

LEMMA post_sendFlow ==
  ASSUME NEW q, FlowInv(q), NEW w \in WRs
  PROVE  FlowInv(post_send(q, w))
<1> DEFINE n   == Len(q.wqe)
           id  == n + 1
           wqe == Append(q.wqe, NewSwqe(w))
           u   == Append(q.submitted, id)
           q2  == [[q EXCEPT !.wqe = wqe] EXCEPT !.submitted = u]
           q3  == reschedule_req(q2)
           z   == 0
           q4  == [q3 EXCEPT !.nr_contig_requests = z, !.nr_contig_read_acks = z]
           c   == Len(q.cq)
<1>1. /\ q \in ReqType /\ q.wqe \in Seq(SwqeType) /\ q.submitted \in Seq(Nat)
      /\ n \in Nat /\ Requester(q, c) /\ c \in Nat /\ Flow(q, c) /\ ReqInv(q)
      /\ Len(q.submitted) \in Nat
  BY FlowFacts, ReqFields
<1>2. CASE q.state = "ERR"
  BY <1>2, FlushPostFlow
<1>3. CASE q.state # "ERR"
  <2>1. post_send(q, w) = q4
    BY <1>3 DEF post_send
  <2>2. ReqInv(q4)
    BY <1>1, <2>1, post_sendType
  <2>3. /\ wqe \in Seq(SwqeType) /\ Len(wqe) = n + 1
        /\ \A i \in 1 .. n : wqe[i] = q.wqe[i]
    <3> DEFINE l == q.wqe
               e == NewSwqe(w)
    <3> HIDE DEF l, e
    <3>1. e \in SwqeType
      BY NewSwqeType DEF e
    <3>2. l \in Seq(SwqeType)
      BY <1>1 DEF l
    <3>3. /\ Append(l, e) \in Seq(SwqeType) /\ Len(Append(l, e)) = Len(l) + 1
          /\ \A i \in 1 .. Len(l) : Append(l, e)[i] = l[i]
      BY <3>1, <3>2
    <3> QED BY <3>3 DEF l, e
  <2>4. u \in Seq(Nat) /\ Len(u) = Len(q.submitted) + 1
    <3> DEFINE l == q.submitted
    <3> HIDE DEF l, n
    <3>1. id \in Nat /\ l \in Seq(Nat)
      BY <1>1 DEF l
    <3> HIDE DEF id
    <3>2. Append(l, id) \in Seq(Nat) /\ Len(Append(l, id)) = Len(l) + 1
      BY <3>1
    <3> QED BY <3>2 DEF l
  <2> HIDE DEF wqe, u
  <2>5. /\ q2 \in ReqType /\ q2.state = q.state /\ q2.cq = q.cq /\ q2.psn = q.psn
        /\ q2.expected_psn = q.expected_psn /\ q2.nr_rd_atomic = q.nr_rd_atomic
        /\ q2.wqe = wqe /\ q2.submitted = u
    BY <1>1, <2>3, <2>4 DEF ReqType
  <2> HIDE DEF q2
  <2>6. Begun(q) \in Nat /\ c <= Begun(q) /\ Begun(q) <= n
    BY <1>1, Numbers
  <2>7. Begun(q2) = Begun(q)
    <3> DEFINE s == Len(q.submitted)
    <3>1. Len(wqe) = n + 1 /\ Len(u) = s + 1 /\ n \in Nat /\ s \in Nat
      BY <1>1, <2>3, <2>4
    <3> HIDE DEF n, s
    <3>2. Len(wqe) - Len(u) = n - s
      BY <3>1
    <3> QED BY <2>5, <3>2 DEF Begun, n, s
  <2>8. \A i \in 1 .. Begun(q) : q2.wqe[i] = q.wqe[i]
    <3> DEFINE b == Begun(q)
    <3> HIDE DEF n, b
    <3>1. \A i \in 1 .. b : i \in 1 .. n
      BY <1>1, <2>6 DEF b
    <3> QED BY <2>3, <2>5, <3>1 DEF b
  <2>9. Flow(q2, c)
    <3>1. Copies(q, q2)
      BY <2>5, <2>7, <2>8 DEF Copies
    <3> QED BY <1>1, <2>6, <3>1, CopyKeepsFlow
  <2>10. SameFlow(q2, q3) /\ q3 \in ReqType
    <3>1. SameFlow(q2, q3)
      BY <2>5, reschedule_reqSame
    <3>2. q3 \in ReqType
      <4> DEFINE on == /\ q2.state = "RTS"
                       /\ q2.waiting # <<>> \/ SendDue(q2) \/ StartDue(q2)
      <4>1. q3 = [q2 EXCEPT !.on = on] /\ on \in BOOLEAN
        BY DEF reschedule_req
      <4> HIDE DEF on, q3
      <4> QED BY <2>5, <4>1 DEF ReqType
    <3> QED BY <3>1, <3>2
  <2> HIDE DEF q3, z
  <2>11. SameFlow(q3, q4)
    BY <2>10 DEF SameFlow, SameWqes, ReqType
  <2> HIDE DEF q4
  <2>12. SameFlow(q2, q4)
    BY <2>10, <2>11, SameTrans
  <2>13. Begun(q4) = Begun(q2) /\ q4.cq = q.cq /\ Len(q2.wqe) = n + 1
    BY <2>3, <2>5, <2>12 DEF Begun, SameFlow, SameWqes
  <2>14. Flow(q4, c)
    <3>1. Begun(q2) \in Nat /\ c <= Begun(q2) /\ \A i \in 1 .. Begun(q2) : i \in 1 .. n + 1
      <4> DEFINE b == Begun(q)
      <4> HIDE DEF n, b, c
      <4>1. b \in Nat /\ c <= b /\ \A i \in 1 .. b : i \in 1 .. n + 1
        BY <1>1, <2>6 DEF b
      <4> QED BY <2>7, <4>1 DEF b
    <3>2. Copies(q2, q4)
      BY <2>12, <2>13, <3>1 DEF Copies, SameFlow, SameWqes
    <3> QED BY <1>1, <2>9, <3>1, <3>2, CopyKeepsFlow
  <2> QED BY <2>1, <2>2, <2>13, <2>14 DEF FlowInv
<1> QED
  BY <1>2, <1>3

(* A step of the requester's thread.                                       *)
LEMMA RequesterStepFlow ==
  ASSUME NEW q, FlowInv(q), toRsp \in Seq(RequestType), RequesterStep(q)
  PROVE  FlowInv(req')
<1> DEFINE r == reschedule_req(q)
           e == <<>>
           p == [r EXCEPT !.tx = e]
<1>1. req' = p
  BY DEF RequesterStep
<1>2. q \in ReqType /\ Len(q.cq) \in Nat /\ Requester(q, Len(q.cq)) /\ ReqInv(q)
  BY FlowFacts
<1>3. ReqInv(req')
  BY <1>2, RequesterStepType
<1>4. SameFlow(q, r) /\ r \in ReqType
  BY <1>2, reschedule_reqSame, reschedule_reqType DEF Requester
<1> HIDE DEF r, e
<1>5. SameFlow(r, p)
  BY <1>4 DEF SameFlow, SameWqes, ReqType
<1> HIDE DEF p
<1> QED
  BY <1>1, <1>3, <1>4, <1>5, SameTrans, SameInv

-----------------------------------------------------------------------------
(* The responder counts the RDMA READ and Atomic answers on its list.      *)
RdAcks(l) == {i \in 1 .. Len(l) : IsRdAtomicAck(l[i])}
RdCount(l) == Cardinality(RdAcks(l))
Counted(r) == r.nr_rd_atomic = RdCount(r.acks)

One(a) == IF IsRdAtomicAck(a) THEN 1 ELSE 0

LEMMA RdAcksFinite ==
  ASSUME NEW S, NEW l \in Seq(S)
  PROVE  IsFiniteSet(RdAcks(l)) /\ RdCount(l) \in Nat
<1>1. Len(l) \in Nat
  OBVIOUS
<1>2. IsFiniteSet(1 .. Len(l))
  BY <1>1, FS_Interval
<1>3. RdAcks(l) \subseteq 1 .. Len(l)
  BY DEF RdAcks
<1>4. IsFiniteSet(RdAcks(l))
  BY <1>2, <1>3, FS_Subset
<1> QED
  BY <1>4, FS_CardinalityType DEF RdCount

LEMMA CountEmpty == RdCount(<<>>) = 0
<1>1. RdAcks(<<>>) = {}
  BY DEF RdAcks
<1> QED
  BY <1>1, FS_EmptySet DEF RdCount

LEMMA CountAppend ==
  ASSUME NEW S, NEW l \in Seq(S), NEW a \in S
  PROVE  RdCount(Append(l, a)) = RdCount(l) + One(a)
<1> DEFINE n == Len(l)
           m == Append(l, a)
<1>1. n \in Nat /\ Len(m) = n + 1 /\ m[n + 1] = a /\ \A i \in 1 .. n : m[i] = l[i]
  OBVIOUS
<1>2. IsFiniteSet(RdAcks(l)) /\ RdCount(l) \in Nat
  BY RdAcksFinite
<1>3. n + 1 \notin RdAcks(l)
  BY <1>1 DEF RdAcks
<1> HIDE DEF n, m
<1>4. CASE IsRdAtomicAck(a)
  <2>1. RdAcks(m) = RdAcks(l) \cup {n + 1}
    BY <1>1, <1>4 DEF RdAcks, n
  <2>2. Cardinality(RdAcks(m)) = Cardinality(RdAcks(l)) + 1
    BY <1>2, <1>3, <2>1, FS_AddElement
  <2> QED BY <1>4, <2>2 DEF RdCount, One, m
<1>5. CASE ~IsRdAtomicAck(a)
  <2>1. RdAcks(m) = RdAcks(l)
    BY <1>1, <1>5 DEF RdAcks, n
  <2> QED BY <1>2, <1>5, <2>1 DEF RdCount, One, m
<1> QED
  BY <1>4, <1>5

LEMMA CountTail ==
  ASSUME NEW S, NEW l \in Seq(S), l # <<>>
  PROVE  RdCount(Tail(l)) = RdCount(l) - One(Head(l))
<1> DEFINE n == Len(l)
           t == Tail(l)
           a == Head(l)
           f == [i \in RdAcks(t) |-> i + 1]
           R == RdAcks(l) \ {1}
<1>1. /\ n \in Nat /\ n >= 1 /\ Len(t) = n - 1 /\ l[1] = a
      /\ \A i \in 1 .. n - 1 : t[i] = l[i + 1]
  OBVIOUS
<1>2. t \in Seq(S)
  OBVIOUS
<1>3. /\ IsFiniteSet(RdAcks(l)) /\ RdCount(l) \in Nat
      /\ IsFiniteSet(RdAcks(t)) /\ RdCount(t) \in Nat
  BY <1>2, RdAcksFinite
<1> HIDE DEF n, t, a
<1>4. f \in Bijection(RdAcks(t), R)
  <2>1. \A i \in RdAcks(t) : i \in Nat /\ i + 1 \in R
    BY <1>1 DEF RdAcks, n
  <2>2. ASSUME NEW j \in R PROVE j - 1 \in RdAcks(t) /\ (j - 1) + 1 = j
    BY <1>1 DEF RdAcks, n
  <2>3. f \in [RdAcks(t) -> R]
    BY <2>1
  <2>4. \A i, j \in RdAcks(t) : f[i] = f[j] => i = j
    BY <2>1
  <2>5. \A j \in R : \E i \in RdAcks(t) : f[i] = j
    BY <2>2
  <2> HIDE DEF f, R
  <2>6. f \in Injection(RdAcks(t), R)
    BY <2>3, <2>4 DEF Injection, IsInjective
  <2>7. f \in Surjection(RdAcks(t), R)
    BY <2>3, <2>5 DEF Surjection
  <2> QED BY <2>6, <2>7 DEF Bijection
<1>5. Cardinality(RdAcks(t)) = Cardinality(R)
  <2>1. ExistsBijection(RdAcks(t), R)
    BY <1>4 DEF ExistsBijection
  <2> QED BY <1>3, <2>1, FS_Bijection
<1>6. Cardinality(R) = IF 1 \in RdAcks(l) THEN RdCount(l) - 1 ELSE RdCount(l)
  BY <1>3, FS_RemoveElement DEF RdCount
<1>7. 1 \in RdAcks(l) <=> IsRdAtomicAck(a)
  BY <1>1 DEF RdAcks, n
<1>8. RdCount(t) = RdCount(l) - One(a)
  BY <1>3, <1>5, <1>6, <1>7 DEF RdCount, One
<1> QED
  BY <1>8 DEF t, a

LEMMA CountSet ==
  ASSUME NEW S, NEW l \in Seq(S), NEW i \in 1 .. Len(l), NEW a \in S,
         IsRdAtomicAck(a) = IsRdAtomicAck(l[i])
  PROVE  RdCount([l EXCEPT ![i] = a]) = RdCount(l)
<1> DEFINE m == [l EXCEPT ![i] = a]
<1>1. Len(m) = Len(l) /\ Len(l) \in Nat
  BY SetElement
<1>2. \A j \in 1 .. Len(l) : IsRdAtomicAck(m[j]) = IsRdAtomicAck(l[j])
  OBVIOUS
<1> HIDE DEF m
<1>3. RdAcks(m) = RdAcks(l)
  BY <1>1, <1>2 DEF RdAcks
<1> QED
  BY <1>3 DEF RdCount, m

(* Acknowledges removed from the list are no longer counted.               *)
LEMMA CountWithout ==
  ASSUME NEW S, NEW l \in Seq(S), NEW gone \in SUBSET (1 .. Len(l))
  PROVE  RdCount(Without(l, gone))
           = RdCount(l) - Cardinality({i \in gone : IsRdAtomicAck(l[i])})
<1> DEFINE L    == Len(l)
           K(n) == {i \in 1 .. n : i \notin gone /\ IsRdAtomicAck(l[i])}
           G    == {i \in gone : IsRdAtomicAck(l[i])}
<1>1. L \in Nat /\ \A i \in 1 .. L : l[i] \in S
  OBVIOUS
<1>2. PICK kept :
        /\ Without(l, gone) = kept[L] /\ kept[0] = <<>>
        /\ \A i \in 1 .. L :
             kept[i] = IF i \in gone THEN kept[i - 1] ELSE Append(kept[i - 1], l[i])
  BY WithoutKept
<1> DEFINE U == {n \in Nat : n <= L => /\ kept[n] \in Seq(S)
                                       /\ RdCount(kept[n]) = Cardinality(K(n))}
<1> HIDE DEF L
<1>3. \A n \in Nat : IsFiniteSet(K(n)) /\ Cardinality(K(n)) \in Nat
  <2> TAKE n \in Nat
  <2>1. IsFiniteSet(1 .. n)
    BY FS_Interval
  <2>2. K(n) \subseteq 1 .. n
    OBVIOUS
  <2> HIDE DEF K
  <2> QED BY <2>1, <2>2, FS_Subset, FS_CardinalityType
<1>4. 0 \in U
  <2>1. <<>> \in Seq(S) /\ K(0) = {}
    OBVIOUS
  <2> HIDE DEF K
  <2>2. kept[0] \in Seq(S) /\ RdCount(kept[0]) = Cardinality(K(0))
    BY <1>2, <2>1, CountEmpty, FS_EmptySet
  <2> QED BY <2>2
<1>5. ASSUME NEW n \in U PROVE n + 1 \in U
  <2> SUFFICES ASSUME n + 1 <= L
               PROVE  /\ kept[n + 1] \in Seq(S)
                      /\ RdCount(kept[n + 1]) = Cardinality(K(n + 1))
    OBVIOUS
  <2>1. n \in Nat /\ n + 1 \in 1 .. L /\ (n + 1) - 1 = n /\ n <= L
    BY <1>1
  <2>2. kept[n] \in Seq(S) /\ RdCount(kept[n]) = Cardinality(K(n))
    BY <2>1
  <2>3. kept[n + 1] = IF n + 1 \in gone THEN kept[n] ELSE Append(kept[n], l[n + 1])
    BY <1>2, <2>1
  <2>4. l[n + 1] \in S
    BY <1>1, <2>1
  <2>5. IsFiniteSet(K(n)) /\ Cardinality(K(n)) \in Nat /\ n + 1 \notin K(n)
    BY <1>3, <2>1
  <2> HIDE DEF U
  <2>6. CASE n + 1 \in gone
    <3>1. K(n + 1) = K(n)
      BY <2>1, <2>6
    <3> HIDE DEF K
    <3> QED BY <2>2, <2>3, <2>6, <3>1
  <2>7. CASE n + 1 \notin gone /\ IsRdAtomicAck(l[n + 1])
    <3>1. K(n + 1) = K(n) \cup {n + 1}
      BY <2>1, <2>7
    <3> HIDE DEF K
    <3>2. Cardinality(K(n + 1)) = Cardinality(K(n)) + 1
      BY <2>5, <3>1, FS_AddElement
    <3>3. kept[n + 1] = Append(kept[n], l[n + 1]) /\ One(l[n + 1]) = 1
      BY <2>3, <2>7 DEF One
    <3>4. RdCount(Append(kept[n], l[n + 1])) = RdCount(kept[n]) + One(l[n + 1])
      BY <2>2, <2>4, CountAppend
    <3>5. Append(kept[n], l[n + 1]) \in Seq(S)
      BY <2>2, <2>4
    <3> QED BY <2>2, <3>2, <3>3, <3>4, <3>5
  <2>8. CASE n + 1 \notin gone /\ ~IsRdAtomicAck(l[n + 1])
    <3>1. K(n + 1) = K(n)
      BY <2>1, <2>8
    <3> HIDE DEF K
    <3>3. kept[n + 1] = Append(kept[n], l[n + 1]) /\ One(l[n + 1]) = 0
      BY <2>3, <2>8 DEF One
    <3>4. RdCount(Append(kept[n], l[n + 1])) = RdCount(kept[n]) + One(l[n + 1])
      BY <2>2, <2>4, CountAppend
    <3>5. Append(kept[n], l[n + 1]) \in Seq(S)
      BY <2>2, <2>4
    <3> QED BY <2>2, <2>5, <3>1, <3>3, <3>4, <3>5
  <2> QED BY <2>6, <2>7, <2>8
<1>6. L \in U
  <2>1. U \subseteq Nat
    OBVIOUS
  <2> HIDE DEF U
  <2>2. \A n \in U : n + 1 \in U
    BY <1>5
  <2> QED BY <1>1, <1>4, <2>1, <2>2, SetInduction
<1>7. RdCount(Without(l, gone)) = Cardinality(K(L))
  BY <1>1, <1>2, <1>6
<1>8. /\ IsFiniteSet(RdAcks(l)) /\ RdCount(l) \in Nat
      /\ K(L) \cup G = RdAcks(l) /\ K(L) \cap G = {}
  <2>1. K(L) \cup G = RdAcks(l)
    BY DEF RdAcks, L
  <2> QED BY <2>1, RdAcksFinite
<1>9. IsFiniteSet(K(L)) /\ Cardinality(K(L)) \in Nat
  BY <1>1, <1>3
<1> HIDE DEF K, G
<1>10. IsFiniteSet(G) /\ Cardinality(G) \in Nat
  <2>1. G \subseteq RdAcks(l)
    BY <1>8
  <2> QED BY <1>8, <2>1, FS_Subset, FS_CardinalityType
<1>11. Cardinality(RdAcks(l)) = Cardinality(K(L)) + Cardinality(G)
  <2>1. Cardinality(K(L) \cup G)
          = Cardinality(K(L)) + Cardinality(G) - Cardinality(K(L) \cap G)
    BY <1>9, <1>10, FS_Union
  <2>2. Cardinality(K(L) \cap G) = 0
    BY <1>8, FS_EmptySet
  <2>3. Cardinality(K(L) \cup G) = Cardinality(RdAcks(l))
    BY <1>8
  <2> QED BY <1>9, <1>10, <2>1, <2>2, <2>3
<1>12. RdCount(Without(l, gone)) = RdCount(l) - Cardinality(G)
  BY <1>7, <1>9, <1>10, <1>11 DEF RdCount
<1> QED
  BY <1>12 DEF G

-----------------------------------------------------------------------------
(* What every operation of the responder does: it keeps the count right,   *)
(* only adds completions, and its PSN does not go back.                    *)
CqGrows(a, b) == Len(a) <= Len(b) /\ \A i \in 1 .. Len(a) : b[i] = a[i]

Goes(r, s) == /\ s \in RspType
              /\ Counted(r) => Counted(s)
              /\ CqGrows(r.cq, s.cq)
              /\ r.psn <= s.psn

LEMMA GoesSame ==
  ASSUME NEW r \in RspType, NEW s \in RspType, s.acks = r.acks,
         s.nr_rd_atomic = r.nr_rd_atomic, s.cq = r.cq, s.psn = r.psn
  PROVE  Goes(r, s)
<1>1. r.cq \in Seq(RecvWc) /\ r.psn \in Int
  BY RspFields
<1>2. Len(r.cq) \in Nat
  BY <1>1
<1> QED
  BY <1>1, <1>2 DEF Goes, Counted, CqGrows

LEMMA GoesTrans ==
  ASSUME NEW r \in RspType, NEW s, NEW t, Goes(r, s), Goes(s, t)
  PROVE  Goes(r, t)
<1>1. s \in RspType /\ t \in RspType
  BY DEF Goes
<1>2. /\ r.cq \in Seq(RecvWc) /\ s.cq \in Seq(RecvWc) /\ t.cq \in Seq(RecvWc)
      /\ r.psn \in Int /\ s.psn \in Int /\ t.psn \in Int
  BY <1>1, RspFields
<1>3. Len(r.cq) \in Nat /\ Len(s.cq) \in Nat /\ Len(t.cq) \in Nat
  BY <1>2
<1>4. CqGrows(r.cq, t.cq)
  <2> DEFINE a == r.cq
             b == s.cq
             c == t.cq
  <2> HIDE DEF a, b, c
  <2>1. /\ Len(a) \in Nat /\ Len(b) \in Nat /\ Len(c) \in Nat
        /\ CqGrows(a, b) /\ CqGrows(b, c)
    BY <1>3 DEF a, b, c, Goes
  <2>2. CqGrows(a, c)
    BY <2>1 DEF CqGrows
  <2> QED BY <2>2 DEF a, c
<1> QED
  BY <1>1, <1>2, <1>4 DEF Goes

LEMMA CqAppend ==
  ASSUME NEW cq \in Seq(RecvWc), NEW c \in RecvWc
  PROVE  CqGrows(cq, Append(cq, c))
BY DEF CqGrows

LEMMA CqConcat ==
  ASSUME NEW cq \in Seq(RecvWc), NEW m \in Seq(RecvWc)
  PROVE  CqGrows(cq, cq \o m)
<1>1. Len(cq) \in Nat /\ Len(m) \in Nat /\ Len(cq \o m) = Len(cq) + Len(m)
  OBVIOUS
<1>2. \A i \in 1 .. Len(cq) + Len(m) :
        (cq \o m)[i] = IF i <= Len(cq) THEN cq[i] ELSE m[i - Len(cq)]
  BY ConcatProperties
<1> DEFINE n == Len(cq)
           k == Len(m)
           l == cq \o m
<1> HIDE DEF n, k, l
<1>3. n \in Nat /\ k \in Nat /\ Len(l) = n + k
  BY <1>1 DEF n, k, l
<1>4. \A i \in 1 .. n : l[i] = cq[i]
  <2>1. \A i \in 1 .. n : i \in 1 .. n + k /\ i <= n
    BY <1>3
  <2> QED BY <1>2, <2>1 DEF n, k, l
<1>5. CqGrows(cq, l)
  BY <1>3, <1>4 DEF CqGrows, n
<1> QED
  BY <1>5 DEF l

LEMMA reschedule_rspGoes ==
  ASSUME NEW r \in RspType
  PROVE  Goes(r, reschedule_rsp(r))
<1> DEFINE on == /\ r.state = "RTS" /\ r.acks # <<>>
                 /\ r.nr_contig_read_acks < MaxContigReads
<1>1. reschedule_rsp(r) \in RspType
  BY reschedule_rspType
<1>2. reschedule_rsp(r) = [r EXCEPT !.on = on]
  BY DEF reschedule_rsp
<1> HIDE DEF on
<1> QED
  BY <1>1, <1>2, GoesSame DEF RspType

LEMMA insert_recv_wcGoes ==
  ASSUME NEW r \in RspType, NEW id \in Nat, NEW status \in Statuses,
         NEW data \in Seq(Nat \X Int)
  PROVE  Goes(r, insert_recv_wc(r, id, status, data))
<1> DEFINE c  == [wr |-> id, status |-> status, data |-> data]
           cq == Append(r.cq, c)
           s  == insert_recv_wc(r, id, status, data)
<1>1. c \in RecvWc /\ r.cq \in Seq(RecvWc) /\ r.psn \in Int
  BY RspFields DEF RecvWc
<1>2. CqGrows(r.cq, cq)
  <2> HIDE DEF c
  <2> QED BY <1>1, CqAppend
<1>3. s = [r EXCEPT !.cq = cq]
  BY DEF insert_recv_wc
<1>4. s \in RspType
  BY insert_recv_wcType
<1> HIDE DEF cq
<1>5. s.cq = cq /\ s.acks = r.acks /\ s.nr_rd_atomic = r.nr_rd_atomic /\ s.psn = r.psn
  BY <1>3 DEF RspType
<1> HIDE DEF s
<1>6. Goes(r, s)
  BY <1>1, <1>2, <1>4, <1>5 DEF Goes, Counted
<1> QED
  BY <1>6 DEF s

LEMMA flush_rspGoes ==
  ASSUME NEW r \in RspType
  PROVE  Goes(r, flush_rsp(r))
<1> DEFINE e   == <<>>
           z   == 0
           wcs == [i \in DOMAIN r.rq |->
                     [wr |-> r.rq[i].id, status |-> "WR_FLUSH_ERR", data |-> e]]
           cq  == r.cq \o wcs
           r1  == [r EXCEPT !.state = "ERR", !.rq = e, !.acks = e,
                            !.nr_rd_atomic = z, !.cq = cq]
           r2  == reschedule_rsp(r1)
           r3  == [r2 EXCEPT !.nr_contig_read_acks = z]
<1>1. /\ e \in Seq(RwqeType) /\ e \in Seq(AckType)
      /\ e \in Seq(Nat \X Int) /\ z \in Int /\ z \in Nat
  OBVIOUS
<1>2. flush_rsp(r) = r3
  BY DEF flush_rsp
<1>0. RdCount(e) = z
  BY CountEmpty
<1> HIDE DEF e, z
<1>3. wcs \in Seq(RecvWc)
  <2> DEFINE l == r.rq
             W(i) == [wr |-> l[i].id, status |-> "WR_FLUSH_ERR", data |-> e]
  <2>1. l \in Seq(RwqeType)
    BY RspFields
  <2>2. wcs = [i \in 1 .. Len(l) |-> W(i)]
    <3>1. DOMAIN l = 1 .. Len(l)
      <4> HIDE DEF l
      <4> QED BY <2>1
    <3> QED BY <3>1
  <2> HIDE DEF l, wcs
  <2>3. ASSUME NEW i \in 1 .. Len(l) PROVE W(i) \in RecvWc
    <3>1. l[i] \in RwqeType
      BY <2>1
    <3>3. l[i].id \in Nat
      BY <3>1 DEF RwqeType
    <3>2. "WR_FLUSH_ERR" \in Statuses
      BY DEF Statuses
    <3> QED BY <1>1, <3>3, <3>2 DEF RecvWc
  <2> HIDE DEF W
  <2>4. Len(l) \in Nat /\ wcs \in [1 .. Len(l) -> RecvWc]
    BY <2>1, <2>2, <2>3
  <2> QED BY <2>4, SeqDef
<1>4. cq \in Seq(RecvWc) /\ CqGrows(r.cq, cq) /\ r.psn \in Int
  <2>1. r.cq \in Seq(RecvWc) /\ r.psn \in Int
    BY RspFields
  <2> HIDE DEF wcs
  <2> QED BY <1>3, <2>1, CqConcat
<1> HIDE DEF cq, wcs
<1>5. /\ r1 \in RspType /\ r1.acks = e /\ r1.nr_rd_atomic = z /\ r1.cq = cq
      /\ r1.psn = r.psn
  BY <1>1, <1>4, ZenonT(30) DEF RspType, RecvWc, RwqeType
<1> HIDE DEF r1
<1>6. Goes(r, r1)
  BY <1>0, <1>4, <1>5 DEF Goes, Counted
<1>7. Goes(r1, r2) /\ r2 \in RspType
  BY <1>5, reschedule_rspType, reschedule_rspGoes
<1> HIDE DEF r2
<1>8. r3 \in RspType
  BY <1>1, <1>7, ZenonT(30) DEF RspType
<1>9. Goes(r2, r3)
  BY <1>7, <1>8, GoesSame, ZenonT(30) DEF RspType
<1> HIDE DEF r3
<1>10. Goes(r, r2)
  BY <1>6, <1>7, GoesTrans
<1> QED
  BY <1>2, <1>9, <1>10, GoesTrans

LEMMA TakeRwqeGoes ==
  ASSUME NEW r \in RspType, r.rq # <<>>, NEW status \in Statuses,
         NEW data \in Seq(Nat \X Int)
  PROVE  Goes(r, [insert_recv_wc(r, Head(r.rq).id, status, data)
                    EXCEPT !.rq = Tail(@)])
<1> DEFINE p == insert_recv_wc(r, Head(r.rq).id, status, data)
           s == [p EXCEPT !.rq = Tail(@)]
<1>1. Head(r.rq).id \in Nat
  BY HeadRq
<1>2. p \in RspType /\ Goes(r, p)
  BY <1>1, insert_recv_wcType, insert_recv_wcGoes
<1>3. s \in RspType
  BY TakeRwqeType
<1> HIDE DEF p
<1>4. Goes(p, s)
  BY <1>2, <1>3, GoesSame, ZenonT(30) DEF RspType
<1> HIDE DEF s
<1>5. Goes(r, s)
  BY <1>2, <1>4, GoesTrans
<1> QED
  BY <1>5 DEF s, p

LEMMA FailRwqeGoes ==
  ASSUME NEW r \in RspType, r.rq # <<>>, NEW status \in Statuses
  PROVE  Goes(r, FailRwqe(r, status))
<1> DEFINE e == <<>>
<1>1. e \in Seq(Nat \X Int)
  OBVIOUS
<1>2. FailRwqe(r, status) = [insert_recv_wc(r, Head(r.rq).id, status, e)
                              EXCEPT !.rq = Tail(@)]
  BY DEF FailRwqe
<1> HIDE DEF e
<1> QED
  BY <1>1, <1>2, TakeRwqeGoes

LEMMA CompleteRwqeGoes ==
  ASSUME NEW r \in RspType, r.rq # <<>>
  PROVE  Goes(r, CompleteRwqe(r))
<1>1. r.data \in Seq(Nat \X Int) /\ "SUCCESS" \in Statuses
  BY RspFields DEF Statuses
<1> QED
  BY <1>1, TakeRwqeGoes DEF CompleteRwqe

LEMMA GoesRefl ==
  ASSUME NEW r \in RspType
  PROVE  Goes(r, r)
BY GoesSame

LEMMA insert_async_qp_errorGoes ==
  ASSUME NEW r \in RspType
  PROVE  /\ Goes(r, flush_rsp(abort_active_rwqe(r)))
         /\ Goes(r, insert_async_qp_error(r))
<1> DEFINE a == abort_active_rwqe(r)
<1>1. Goes(r, a)
  <2>1. "GENERAL_ERR" \in Statuses
    BY DEF Statuses
  <2>2. CASE r.rq = <<>> \/ r.data = <<>>
    BY <2>2, GoesRefl DEF abort_active_rwqe
  <2>3. CASE ~ (r.rq = <<>> \/ r.data = <<>>)
    BY <2>1, <2>3, FailRwqeGoes DEF abort_active_rwqe
  <2> QED BY <2>2, <2>3
<1> HIDE DEF a
<1>2. Goes(a, flush_rsp(a))
  BY <1>1, flush_rspGoes DEF Goes
<1>3. Goes(r, flush_rsp(a))
  BY <1>1, <1>2, GoesTrans
<1> QED
  BY <1>3 DEF insert_async_qp_error, a

LEMMA CompletionErrorRspGoes ==
  ASSUME NEW r \in RspType, r.rq # <<>>, NEW status \in Statuses
  PROVE  Goes(r, CompletionErrorRsp(r, status))
<1>1. Goes(r, FailRwqe(r, status)) /\ FailRwqe(r, status) \in RspType
  BY FailRwqeGoes DEF Goes
<1>2. Goes(FailRwqe(r, status), flush_rsp(FailRwqe(r, status)))
  BY <1>1, flush_rspGoes
<1> QED
  BY <1>1, <1>2, GoesTrans DEF CompletionErrorRsp

-----------------------------------------------------------------------------
(* The list of acknowledges *)

(* An operation that changes only the list of acknowledges, its count and  *)
(* the flow control.                                                       *)
LEMMA GoesAcks ==
  ASSUME NEW r \in RspType, NEW s \in RspType, s.cq = r.cq, s.psn = r.psn,
         Counted(r) => Counted(s)
  PROVE  Goes(r, s)
<1>1. r.cq \in Seq(RecvWc) /\ r.psn \in Int
  BY RspFields
<1>2. Len(r.cq) \in Nat
  BY <1>1
<1> QED
  BY <1>1, <1>2 DEF Goes, CqGrows

LEMMA push_acknowledgeGoes ==
  ASSUME NEW r \in RspType, NEW psn \in Int, NEW synd \in Syndromes
  PROVE  Goes(r, push_acknowledge(r, psn, synd))
<1> DEFINE n  == Len(r.acks)
           a  == NewAck("NORMAL", psn, psn + 1)
           b  == [a EXCEPT !.synd = synd]
           k1 == [r.acks EXCEPT ![n] = a]
           k2 == Append(r.acks, b)
           c  == IF synd = "ACK" THEN r.nr_contig_read_acks ELSE 0
           r1 == [r EXCEPT !.acks = k1]
           r2 == [r EXCEPT !.acks = k2, !.nr_contig_read_acks = c]
           p  == push_acknowledge(r, psn, synd)
<1>1. \/ p = r
      \/ p = r1 /\ r.acks # <<>> /\ r.acks[n].type = "NORMAL"
      \/ p = r2
  BY DEF push_acknowledge
<1>2. a \in AckType /\ a.type = "NORMAL"
  <2>1. psn + 1 \in Int
    OBVIOUS
  <2> QED BY <2>1, NewAckType DEF NewAck
<1> HIDE DEF a
<1>3. b \in AckType /\ b.type = "NORMAL"
  BY <1>2 DEF AckType
<1> HIDE DEF b
<1>4. r.acks \in Seq(AckType) /\ r.nr_contig_read_acks \in Nat /\ r.nr_rd_atomic \in Int
  BY RspFields
<1>5. p \in RspType
  BY push_acknowledgeType
<1>6. k2 \in Seq(AckType) /\ c \in Nat /\ RdCount(k2) = RdCount(r.acks)
  <2>1. k2 \in Seq(AckType) /\ c \in Nat
    BY <1>3, <1>4
  <2>2. RdCount(k2) = RdCount(r.acks) + One(b)
    BY <1>3, <1>4, CountAppend
  <2>3. One(b) = 0
    BY <1>3 DEF One, IsRdAtomicAck
  <2>4. RdCount(r.acks) \in Nat
    BY <1>4, RdAcksFinite
  <2> QED BY <2>1, <2>2, <2>3, <2>4
<1>7. ASSUME r.acks # <<>>, r.acks[n].type = "NORMAL"
      PROVE  RdCount(k1) = RdCount(r.acks)
  <2> DEFINE l == r.acks
  <2>1. n \in 1 .. Len(l) /\ l \in Seq(AckType)
    <3> HIDE DEF l
    <3>1. Len(l) \in 1 .. Len(l)
      BY <1>4, <1>7 DEF l
    <3> QED BY <1>4, <3>1 DEF l
  <2>2. IsRdAtomicAck(a) = IsRdAtomicAck(l[n])
    BY <1>2, <1>7 DEF IsRdAtomicAck
  <2> HIDE DEF n
  <2> QED BY <1>2, <2>1, <2>2, CountSet
<1> HIDE DEF k1, k2, c, n, p
<1>8. ASSUME p = r PROVE Goes(r, p)
  BY <1>8, GoesRefl
<1>9. ASSUME p = r1, r.acks # <<>>, r.acks[n].type = "NORMAL" PROVE Goes(r, p)
  <2>1. p.acks = k1 /\ p.nr_rd_atomic = r.nr_rd_atomic /\ p.cq = r.cq /\ p.psn = r.psn
    BY <1>9 DEF RspType
  <2> QED BY <1>5, <1>7, <1>9, <2>1, GoesAcks DEF Counted
<1>10. ASSUME p = r2 PROVE Goes(r, p)
  <2>1. p.acks = k2 /\ p.nr_rd_atomic = r.nr_rd_atomic /\ p.cq = r.cq /\ p.psn = r.psn
    BY <1>10 DEF RspType
  <2> QED BY <1>5, <1>6, <2>1, GoesAcks DEF Counted
<1>11. Goes(r, p)
  BY <1>1, <1>8, <1>9, <1>10
<1> QED
  BY <1>11 DEF p

LEMMA RefuseGoes ==
  ASSUME NEW r \in RspType, NEW psn \in Int, NEW synd \in Syndromes
  PROVE  Goes(r, Refuse(r, psn, synd))
<1> DEFINE p == push_acknowledge(r, psn, synd)
<1>1. Goes(r, p) /\ p \in RspType
  BY push_acknowledgeGoes, push_acknowledgeType
<1> HIDE DEF p
<1>2. Goes(p, insert_async_qp_error(p))
  BY <1>1, insert_async_qp_errorGoes
<1>3. Goes(r, insert_async_qp_error(p))
  BY <1>1, <1>2, GoesTrans
<1> QED
  BY <1>3 DEF Refuse, p

LEMMA RemoveOverlappedGoes ==
  ASSUME NEW r \in RspType, NEW psn, NEW expected_psn
  PROVE  Goes(r, remove_overlapped_rdma_read_acknowledge(r, psn, expected_psn))
<1> DEFINE gone == Overlapped(r, psn, expected_psn)
           T == {i \in gone : IsRdAtomicAck(r.acks[i])}
           k == Without(r.acks, gone)
           n == r.nr_rd_atomic - Cardinality(T)
           p == [r EXCEPT !.acks = k, !.nr_rd_atomic = n]
           s == remove_overlapped_rdma_read_acknowledge(r, psn, expected_psn)
<1>1. r.acks \in Seq(AckType) /\ r.nr_rd_atomic \in Int
  BY RspFields
<1>2. s \in RspType /\ s = p
  BY RemoveOverlappedType DEF remove_overlapped_rdma_read_acknowledge
<1>3. gone \in SUBSET (1 .. Len(r.acks))
  <2> DEFINE l == r.acks
  <2>1. DOMAIN l = 1 .. Len(l)
    <3> HIDE DEF l
    <3> QED BY <1>1 DEF l
  <2> QED BY <2>1 DEF Overlapped
<1> HIDE DEF gone, s
<1>4. RdCount(k) = RdCount(r.acks) - Cardinality(T)
  BY <1>1, <1>3, CountWithout
<1> HIDE DEF T, k
<1> DEFINE m == Cardinality(T)
<1>5. s.acks = k /\ s.nr_rd_atomic = n /\ s.cq = r.cq /\ s.psn = r.psn
  <2> HIDE DEF n
  <2> QED BY <1>2 DEF RspType
<1>6. Counted(r) => Counted(s)
  BY <1>4, <1>5 DEF Counted
<1>7. Goes(r, s)
  BY <1>2, <1>5, <1>6, GoesAcks
<1> QED
  BY <1>7 DEF s

(* An RDMA READ or Atomic answer joins the list and is counted.            *)
LEMMA PushCounted ==
  ASSUME NEW r \in RspType, NEW s \in RspType, NEW b \in AckType,
         IsRdAtomicAck(b), s.acks = Append(r.acks, b),
         s.nr_rd_atomic = r.nr_rd_atomic + 1, s.cq = r.cq, s.psn = r.psn
  PROVE  Goes(r, s)
<1>1. r.acks \in Seq(AckType) /\ r.nr_rd_atomic \in Int
  BY RspFields
<1>2. RdCount(s.acks) = RdCount(r.acks) + 1
  BY <1>1, CountAppend DEF One
<1> QED
  BY <1>2, GoesAcks DEF Counted

LEMMA push_atomic_acknowledgeGoes ==
  ASSUME NEW r \in RspType, NEW psn \in Int, NEW res \in Int
  PROVE  Goes(r, push_atomic_acknowledge(r, psn, res))
<1> DEFINE a == NewAck("ATOMIC", psn, psn + 1)
           b == [a EXCEPT !.res = res]
           k == Append(r.acks, b)
           n == r.nr_rd_atomic + 1
           p == [r EXCEPT !.acks = k, !.nr_rd_atomic = n]
<1>1. push_atomic_acknowledge(r, psn, res) = p
  BY DEF push_atomic_acknowledge
<1>2. a \in AckType /\ a.type = "ATOMIC"
  <2>1. psn + 1 \in Int
    OBVIOUS
  <2> QED BY <2>1, NewAckType DEF NewAck
<1> HIDE DEF a
<1>3. b \in AckType /\ b.type = "ATOMIC"
  BY <1>2 DEF AckType
<1> HIDE DEF b
<1>4. IsRdAtomicAck(b)
  BY <1>3 DEF IsRdAtomicAck
<1>5. p \in RspType
  BY <1>1, push_atomic_acknowledgeType
<1> HIDE DEF k, n
<1>6. p.acks = k /\ p.nr_rd_atomic = n /\ p.cq = r.cq /\ p.psn = r.psn
  BY DEF RspType
<1> HIDE DEF p
<1> QED
  BY <1>1, <1>3, <1>4, <1>5, <1>6, PushCounted DEF k, n

LEMMA push_rdma_read_acknowledgeGoes ==
  ASSUME NEW r \in RspType, NEW p \in RequestType, NEW expected_psn \in Int
  PROVE  Goes(r, push_rdma_read_acknowledge(r, p, expected_psn))
<1> DEFINE a == NewAck("READ", p.psn, expected_psn)
           b == [a EXCEPT !.wr = p.wr, !.k = p.k, !.size = p.dmalen]
           k == Append(r.acks, b)
           n == r.nr_rd_atomic + 1
           x == [r EXCEPT !.acks = k, !.nr_rd_atomic = n]
<1>1. push_rdma_read_acknowledge(r, p, expected_psn) = x
  BY DEF push_rdma_read_acknowledge
<1>2. p.psn \in Int /\ p.wr \in Nat /\ p.k \in Int /\ p.dmalen \in Int
  BY DEF RequestType
<1>3. a \in AckType /\ a.type = "READ"
  BY <1>2, NewAckType DEF NewAck
<1> HIDE DEF a
<1>4. b \in AckType /\ b.type = "READ"
  BY <1>2, <1>3 DEF AckType
<1> HIDE DEF b
<1>5. IsRdAtomicAck(b)
  BY <1>4 DEF IsRdAtomicAck
<1>6. x \in RspType
  BY <1>1, push_rdma_read_acknowledgeType
<1> HIDE DEF k, n
<1>7. x.acks = k /\ x.nr_rd_atomic = n /\ x.cq = r.cq /\ x.psn = r.psn
  BY DEF RspType
<1> HIDE DEF x
<1> QED
  BY <1>1, <1>4, <1>5, <1>6, <1>7, PushCounted DEF k, n

-----------------------------------------------------------------------------
(* Requests.  No request asks for a negative number of PSNs.               *)

LEMMA ArriveGoes ==
  ASSUME NEW r \in RspType, NEW p \in RequestType
  PROVE  Goes(r, [r EXCEPT !.data = Append(@, <<p.wr, p.k>>)])
<1> DEFINE s == [r EXCEPT !.data = Append(@, <<p.wr, p.k>>)]
           d == Append(r.data, <<p.wr, p.k>>)
<1>1. s \in RspType
  BY ArriveType
<1>2. s = [r EXCEPT !.data = d]
  OBVIOUS
<1> HIDE DEF d
<1>3. s.acks = r.acks /\ s.nr_rd_atomic = r.nr_rd_atomic /\ s.cq = r.cq /\ s.psn = r.psn
  BY <1>2 DEF RspType
<1> HIDE DEF s
<1>4. Goes(r, s)
  BY <1>1, <1>3, GoesSame
<1> QED
  BY <1>4 DEF s

LEMMA AcceptGoes ==
  ASSUME NEW r \in RspType, NEW p \in RequestType, p.op \in RequestOpcodes,
         NEW n \in Nat
  PROVE  Goes(r, Accept(r, p, n))
<1> DEFINE l == Append(r.log, <<p.wr, p.k>>)
           m == r.psn + n
           s == Accept(r, p, n)
<1>1. n \in Int /\ r.psn \in Int /\ r.cq \in Seq(RecvWc)
  BY RspFields
<1>2. s \in RspType
  BY <1>1, AcceptType
<1>3. s = [r EXCEPT !.psn = m, !.last_OpCode = p.op, !.log = l]
  BY DEF Accept
<1>4. r.psn <= m /\ Len(r.cq) \in Nat
  BY <1>1
<1> HIDE DEF l, m
<1>5. s.acks = r.acks /\ s.nr_rd_atomic = r.nr_rd_atomic /\ s.cq = r.cq /\ s.psn = m
  BY <1>3 DEF RspType
<1> HIDE DEF s
<1>6. Goes(r, s)
  BY <1>2, <1>4, <1>5 DEF Goes, Counted, CqGrows
<1> QED
  BY <1>6 DEF s

(* An executed packet is acknowledged.                                     *)
LEMMA ExecuteGoes ==
  ASSUME NEW r \in RspType, NEW s, Goes(r, s), NEW p \in RequestType,
         p.op \in RequestOpcodes
  PROVE  Goes(r, Accept(push_acknowledge(s, p.psn, "ACK"), p, 1))
<1> DEFINE a == push_acknowledge(s, p.psn, "ACK")
<1>1. s \in RspType /\ p.psn \in Int /\ "ACK" \in Syndromes
  BY RequestFields, SyndromeNames DEF Goes
<1>2. Goes(s, a) /\ a \in RspType
  BY <1>1, push_acknowledgeGoes, push_acknowledgeType
<1> HIDE DEF a
<1>3. Goes(a, Accept(a, p, 1))
  BY <1>2, AcceptGoes
<1>4. Goes(r, Accept(a, p, 1))
  BY <1>2, <1>3, GoesTrans
<1> QED
  BY <1>4 DEF a

LEMMA receive_SEND_packetGoes ==
  ASSUME NEW r \in RspType, NEW p \in RequestType, p.op \in RequestOpcodes
  PROVE  Goes(r, receive_SEND_packet(r, p))
<1> DEFINE r1 == [r EXCEPT !.data = Append(@, <<p.wr, p.k>>)]
           r2 == IF IsFinit(p.op) THEN CompleteRwqe(r1) ELSE r1
           nak == push_acknowledge(r, p.psn, "REM_OP")
<1>1. p.psn \in Int /\ {"ACK", "RNR", "REM_OP"} \subseteq Syndromes
  BY RequestFields, SyndromeNames
<1>2. r1 \in RspType /\ r1.rq = r.rq /\ Goes(r, r1)
  BY ArriveType, ArriveGoes
<1>3. /\ nak \in RspType /\ nak.rq = r.rq /\ Goes(r, nak)
      /\ Goes(r, push_acknowledge(r, p.psn, "RNR"))
  BY <1>1, push_acknowledgeType, push_acknowledgeGoes
<1>4. \/ receive_SEND_packet(r, p) = push_acknowledge(r, p.psn, "RNR")
      \/ r.rq # <<>> /\
           \/ receive_SEND_packet(r, p) = CompletionErrorRsp(nak, "LOC_PROT_ERR")
           \/ receive_SEND_packet(r, p) = CompletionErrorRsp(r, "MW_BIND_ERR")
           \/ receive_SEND_packet(r, p)
                = Accept(push_acknowledge(r2, p.psn, "ACK"), p, 1)
  <2>1. receive_SEND_packet(r, p) =
          IF r.rq = <<>> THEN push_acknowledge(r, p.psn, "RNR")
          ELSE IF Head(r.rq).size < Len(r.data) + 1
               THEN CompletionErrorRsp(nak, "LOC_PROT_ERR")
          ELSE IF WithInv(p.op) THEN CompletionErrorRsp(r, "MW_BIND_ERR")
          ELSE Accept(push_acknowledge(r2, p.psn, "ACK"), p, 1)
    BY Zenon DEF receive_SEND_packet
  <2> HIDE DEF r2, nak
  <2> QED BY <2>1
<1>5. ASSUME r.rq # <<>>
      PROVE  /\ Goes(r, CompletionErrorRsp(nak, "LOC_PROT_ERR"))
             /\ Goes(r, CompletionErrorRsp(r, "MW_BIND_ERR"))
             /\ Goes(r, Accept(push_acknowledge(r2, p.psn, "ACK"), p, 1))
  <2> HIDE DEF r1, nak
  <2>1. "LOC_PROT_ERR" \in Statuses /\ "MW_BIND_ERR" \in Statuses
    BY DEF Statuses
  <2>2. /\ Goes(nak, CompletionErrorRsp(nak, "LOC_PROT_ERR"))
        /\ Goes(r, CompletionErrorRsp(r, "MW_BIND_ERR"))
    BY <1>3, <1>5, <2>1, CompletionErrorRspGoes
  <2>3. Goes(r, CompletionErrorRsp(nak, "LOC_PROT_ERR"))
    BY <1>3, <2>2, GoesTrans
  <2>4. Goes(r, r2)
    <3>1. Goes(r1, CompleteRwqe(r1))
      BY <1>2, <1>5, CompleteRwqeGoes
    <3>2. Goes(r, CompleteRwqe(r1))
      BY <1>2, <3>1, GoesTrans
    <3> QED BY <1>2, <3>2
  <2> HIDE DEF r2
  <2> QED BY <2>2, <2>3, <2>4, ExecuteGoes
<1> HIDE DEF r2, nak
<1> QED
  BY <1>3, <1>4, <1>5

LEMMA receive_SEND_requestGoes ==
  ASSUME NEW r \in RspType, NEW p \in RequestType, p.op \in RequestOpcodes
  PROVE  Goes(r, receive_SEND_request(r, p))
<1> DEFINE e  == <<>>
           r1 == [r EXCEPT !.data = e]
<1>1. e \in Seq(PacketId)
  OBVIOUS
<1>2. \/ receive_SEND_request(r, p) = receive_SEND_packet(r1, p)
      \/ receive_SEND_request(r, p) = receive_SEND_packet(r, p)
  BY DEF receive_SEND_request
<1> HIDE DEF e
<1>3. r1 \in RspType
  BY <1>1 DEF RspType, PacketId
<1>4. /\ r1.acks = r.acks /\ r1.nr_rd_atomic = r.nr_rd_atomic /\ r1.cq = r.cq
      /\ r1.psn = r.psn
  BY DEF RspType
<1> HIDE DEF r1
<1>5. Goes(r, r1) /\ Goes(r1, receive_SEND_packet(r1, p))
  BY <1>3, <1>4, GoesSame, receive_SEND_packetGoes
<1>6. Goes(r, receive_SEND_packet(r1, p))
  BY <1>5, GoesTrans
<1> QED
  BY <1>2, <1>6, receive_SEND_packetGoes

LEMMA receive_RDMA_WRITE_requestGoes ==
  ASSUME NEW r0 \in RspType, NEW p \in RequestType, p.op \in RequestOpcodes
  PROVE  Goes(r0, receive_RDMA_WRITE_request(r0, p))
<1> DEFINE e  == <<>>
           ri == [r0 EXCEPT !.data = e, !.write_rkey = p.rkey,
                            !.write_dmalen = p.dmalen]
           r  == IF IsInit(p.op) THEN ri ELSE r0
           r1 == [r EXCEPT !.data = Append(@, <<p.wr, p.k>>)]
           r2 == IF WithImm(p.op) THEN CompleteRwqe(r1) ELSE r1
           nak == push_acknowledge(r, p.psn, "REM_ACCESS")
           res == receive_RDMA_WRITE_request(r0, p)
<1>1. /\ p.psn \in Int /\ p.rkey \in BOOLEAN /\ p.dmalen \in Int
      /\ {"ACK", "RNR", "INV_REQ", "REM_ACCESS"} \subseteq Syndromes
      /\ "LOC_PROT_ERR" \in Statuses
  BY RequestFields, SyndromeNames DEF Statuses
<1>2. \/ res = push_acknowledge(r, p.psn, "RNR")
      \/ res = Refuse(r, p.psn, "INV_REQ")
      \/ WithImm(p.op) /\ r.rq # <<>> /\ res = CompletionErrorRsp(nak, "LOC_PROT_ERR")
      \/ res = flush_rsp(abort_active_rwqe(nak))
      \/ /\ WithImm(p.op) => r.rq # <<>>
         /\ res = Accept(push_acknowledge(r2, p.psn, "ACK"), p, 1)
  <2>1. res =
      IF WithImm(p.op) /\ r.rq = <<>> THEN push_acknowledge(r, p.psn, "RNR")
      ELSE IF \/ r.write_dmalen < Len(r.data) + 1
              \/ IsFinit(p.op) /\ r.write_dmalen # Len(r.data) + 1
           THEN Refuse(r, p.psn, "INV_REQ")
      ELSE IF ~(r.write_rkey /\ r.mr)
           THEN IF WithImm(p.op) THEN CompletionErrorRsp(nak, "LOC_PROT_ERR")
                ELSE flush_rsp(abort_active_rwqe(nak))
      ELSE Accept(push_acknowledge(r2, p.psn, "ACK"), p, 1)
    BY Zenon DEF receive_RDMA_WRITE_request
  <2> HIDE DEF r, r1, r2, nak, res
  <2>2. CASE WithImm(p.op) /\ r.rq = <<>>
    BY <2>1, <2>2
  <2>3. CASE ~(WithImm(p.op) /\ r.rq = <<>>)
    BY <2>1, <2>3
  <2> QED BY <2>2, <2>3
<1>3. e \in Seq(PacketId)
  OBVIOUS
<1> HIDE DEF e
<1>4. ri \in RspType
  BY <1>1, <1>3 DEF RspType, PacketId
<1>5. /\ ri.acks = r0.acks /\ ri.nr_rd_atomic = r0.nr_rd_atomic /\ ri.cq = r0.cq
      /\ ri.psn = r0.psn
  BY DEF RspType
<1> HIDE DEF ri
<1>6. Goes(r0, r) /\ r \in RspType
  <2>1. Goes(r0, ri) /\ Goes(r0, r0)
    BY <1>4, <1>5, GoesSame
  <2> QED BY <1>4, <2>1
<1> HIDE DEF r
<1>7. r1 \in RspType /\ r1.rq = r.rq /\ Goes(r, r1)
  BY <1>6, ArriveType, ArriveGoes
<1>8. /\ nak \in RspType /\ nak.rq = r.rq /\ Goes(r, nak)
      /\ Goes(r, push_acknowledge(r, p.psn, "RNR"))
  BY <1>1, <1>6, push_acknowledgeType, push_acknowledgeGoes
<1>9. Goes(r, Refuse(r, p.psn, "INV_REQ"))
  BY <1>1, <1>6, RefuseGoes
<1> HIDE DEF r1, nak
<1>10. Goes(r, flush_rsp(abort_active_rwqe(nak)))
  <2>1. Goes(nak, flush_rsp(abort_active_rwqe(nak)))
    BY <1>8, insert_async_qp_errorGoes
  <2> QED BY <1>6, <1>8, <2>1, GoesTrans
<1>11. r.rq # <<>> => Goes(r, CompletionErrorRsp(nak, "LOC_PROT_ERR"))
  <2>1. r.rq # <<>> => Goes(nak, CompletionErrorRsp(nak, "LOC_PROT_ERR"))
    BY <1>1, <1>8, CompletionErrorRspGoes
  <2> QED BY <1>6, <1>8, <2>1, GoesTrans
<1>12. ASSUME WithImm(p.op) => r.rq # <<>>
       PROVE  Goes(r, Accept(push_acknowledge(r2, p.psn, "ACK"), p, 1))
  <2>1. Goes(r, r2)
    <3>1. WithImm(p.op) => Goes(r1, CompleteRwqe(r1))
      BY <1>7, <1>12, CompleteRwqeGoes
    <3>2. WithImm(p.op) => Goes(r, CompleteRwqe(r1))
      BY <1>6, <1>7, <3>1, GoesTrans
    <3> QED BY <1>7, <3>2
  <2> HIDE DEF r2
  <2> QED BY <1>6, <2>1, ExecuteGoes
<1> HIDE DEF r2, res
<1>13. Goes(r, res)
  BY <1>2, <1>8, <1>9, <1>10, <1>11, <1>12
<1>14. Goes(r0, res)
  BY <1>6, <1>13, GoesTrans
<1> QED
  BY <1>14 DEF res

LEMMA RememberSlotGoes ==
  ASSUME NEW r \in RspType, NEW p \in RequestType, p.op \in RequestOpcodes,
         NEW n \in Int, NEW res \in Int
  PROVE  Goes(r, RememberSlot(r, p, n, res))
<1> DEFINE slot == [op |-> p.op, psn |-> r.psn, expected_psn |-> r.psn + n,
                    wr |-> p.wr, k |-> p.k, dmalen |-> p.dmalen, res |-> res]
           all  == <<slot>> \o r.slots
           l    == IF Len(all) <= MaxDestRdAtomic THEN all
                   ELSE SubSeq(all, 1, MaxDestRdAtomic)
           s    == RememberSlot(r, p, n, res)
<1>1. s \in RspType
  BY RememberSlotType
<1>2. s = [r EXCEPT !.slots = l]
  BY DEF RememberSlot
<1> HIDE DEF l
<1>3. s.acks = r.acks /\ s.nr_rd_atomic = r.nr_rd_atomic /\ s.cq = r.cq /\ s.psn = r.psn
  BY <1>2 DEF RspType
<1> HIDE DEF s
<1>4. Goes(r, s)
  BY <1>1, <1>3, GoesSame
<1> QED
  BY <1>4 DEF s

LEMMA receive_Atomic_requestGoes ==
  ASSUME NEW r \in RspType, NEW p \in RequestType, p.op \in RequestOpcodes
  PROVE  Goes(r, receive_Atomic_request(r, p))
<1> DEFINE direction == IF IB_OPCODE_RC[p.op] = IB_WR_ATOMIC_CMP_AND_SWP
                        THEN "CAS" ELSE "FETCHADD"
           s  == RememberSlot(r, p, 1, r.word)
           w  == mr_copy_data_sub(s.word, direction, CompareAdd(p.op))
           r1 == [s EXCEPT !.word = w]
<1>1. r.word \in Int /\ p.psn \in Int /\ {"INV_REQ", "REM_ACCESS"} \subseteq Syndromes
  BY RspFields, RequestFields, SyndromeNames
<1>2. \/ receive_Atomic_request(r, p) = Refuse(r, p.psn, "INV_REQ")
      \/ receive_Atomic_request(r, p) = Refuse(r, p.psn, "REM_ACCESS")
      \/ receive_Atomic_request(r, p)
           = Accept(push_atomic_acknowledge(r1, p.psn, r.word), p, 1)
  <2>1. receive_Atomic_request(r, p) =
          IF MaxDestRdAtomic <= r.nr_rd_atomic THEN Refuse(r, p.psn, "INV_REQ")
          ELSE IF ~(p.rkey /\ r.mr) THEN Refuse(r, p.psn, "REM_ACCESS")
          ELSE Accept(push_atomic_acknowledge(r1, p.psn, r.word), p, 1)
    BY Zenon DEF receive_Atomic_request
  <2> HIDE DEF r1
  <2> QED BY <2>1
<1> HIDE DEF direction
<1>3. s \in RspType /\ s.word = r.word /\ Goes(r, s)
  BY <1>1, RememberSlotType, RememberSlotGoes
<1>4. w \in Int
  <2> DEFINE x == s.word
             y == CompareAdd(p.op)
  <2>1. x \in Int /\ y \in Int
    BY <1>1, <1>3 DEF CompareAdd
  <2> HIDE DEF x, y
  <2>2. mr_copy_data_sub(x, direction, y) \in Int
    BY <2>1 DEF mr_copy_data_sub, Swap
  <2> QED BY <2>2 DEF x, y
<1> HIDE DEF s, w
<1>5. /\ r1 \in RspType /\ r1.acks = s.acks /\ r1.nr_rd_atomic = s.nr_rd_atomic
      /\ r1.cq = s.cq /\ r1.psn = s.psn
  BY <1>3, <1>4, ZenonT(30) DEF RspType
<1> HIDE DEF r1
<1>6. Goes(r, r1)
  BY <1>3, <1>5, GoesSame, GoesTrans
<1> DEFINE a == push_atomic_acknowledge(r1, p.psn, r.word)
<1>7. Goes(r1, a) /\ a \in RspType
  BY <1>1, <1>5, push_atomic_acknowledgeType, push_atomic_acknowledgeGoes
<1> HIDE DEF a
<1>8. Goes(a, Accept(a, p, 1))
  BY <1>7, AcceptGoes
<1>9. Goes(r, Accept(a, p, 1))
  <2>1. Goes(r, a)
    BY <1>6, <1>7, GoesTrans
  <2> QED BY <1>8, <2>1, GoesTrans
<1> QED
  BY <1>1, <1>2, <1>9, RefuseGoes DEF a

LEMMA AnswerReadGoes ==
  ASSUME NEW r \in RspType, NEW p \in RequestType, NEW expected_psn \in Int
  PROVE  Goes(r, AnswerRead(r, p, expected_psn))
<1> DEFINE z == 0
           b == remove_overlapped_rdma_read_acknowledge(r, p.psn, expected_psn)
           a == push_rdma_read_acknowledge(b, p, expected_psn)
           s == AnswerRead(r, p, expected_psn)
<1>1. s = [a EXCEPT !.nr_contig_read_acks = z] /\ s \in RspType
  BY AnswerReadType DEF AnswerRead
<1>2. Goes(r, b) /\ b \in RspType
  BY RemoveOverlappedType, RemoveOverlappedGoes
<1> HIDE DEF b
<1>3. Goes(b, a) /\ a \in RspType
  BY <1>2, push_rdma_read_acknowledgeType, push_rdma_read_acknowledgeGoes
<1> HIDE DEF a, z
<1>4. s.acks = a.acks /\ s.nr_rd_atomic = a.nr_rd_atomic /\ s.cq = a.cq /\ s.psn = a.psn
  BY <1>1, <1>3 DEF RspType
<1> HIDE DEF s
<1>5. Goes(a, s)
  BY <1>1, <1>3, <1>4, GoesSame
<1>6. Goes(r, a)
  BY <1>2, <1>3, GoesTrans
<1>7. Goes(r, s)
  BY <1>5, <1>6, GoesTrans
<1> QED
  BY <1>7 DEF s

LEMMA receive_new_RDMA_READ_requestGoes ==
  ASSUME NEW r \in RspType, NEW p \in RequestType, p.op \in RequestOpcodes,
         p.dmalen \in Nat
  PROVE  Goes(r, receive_new_RDMA_READ_request(r, p))
<1> DEFINE x == r.psn + p.dmalen
           s == RememberSlot(r, p, p.dmalen, 0)
<1>1. /\ r.psn \in Int /\ p.psn \in Int /\ p.dmalen \in Int
      /\ {"INV_REQ", "REM_ACCESS"} \subseteq Syndromes
  BY RspFields, RequestFields, SyndromeNames
<1>2. x \in Int
  BY <1>1
<1>3. s \in RspType /\ Goes(r, s)
  BY <1>1, RememberSlotType, RememberSlotGoes
<1>4. \/ receive_new_RDMA_READ_request(r, p) = Refuse(r, p.psn, "REM_ACCESS")
      \/ receive_new_RDMA_READ_request(r, p) = Refuse(r, p.psn, "INV_REQ")
      \/ receive_new_RDMA_READ_request(r, p) = Accept(AnswerRead(s, p, x), p, p.dmalen)
  BY DEF receive_new_RDMA_READ_request
<1> HIDE DEF x, s
<1> DEFINE a == AnswerRead(s, p, x)
<1>5. Goes(s, a) /\ a \in RspType
  BY <1>2, <1>3, AnswerReadType, AnswerReadGoes
<1> HIDE DEF a
<1>6. Goes(a, Accept(a, p, p.dmalen))
  BY <1>5, AcceptGoes
<1>7. Goes(r, Accept(a, p, p.dmalen))
  <2>1. Goes(r, a)
    BY <1>3, <1>5, GoesTrans
  <2> QED BY <1>6, <2>1, GoesTrans
<1> QED
  BY <1>1, <1>4, <1>7, RefuseGoes DEF a

LEMMA receive_retried_RDMA_READ_requestGoes ==
  ASSUME NEW r \in RspType, NEW p \in RequestType, NEW slot \in SlotType
  PROVE  Goes(r, receive_retried_RDMA_READ_request(r, p, slot))
<1> DEFINE offset == get_psn_diff(p.psn, slot.psn)
           r1 == remove_overlapped_rdma_read_acknowledge(r, p.psn,
                                                         slot.expected_psn)
           res == receive_retried_RDMA_READ_request(r, p, slot)
<1>1. /\ p.psn \in Int /\ slot.expected_psn \in Int
      /\ {"INV_REQ", "REM_ACCESS"} \subseteq Syndromes
  BY RequestFields, SyndromeNames DEF SlotType
<1>2. \/ res = Refuse(r, p.psn, "REM_ACCESS")
      \/ res = Refuse(r, p.psn, "INV_REQ")
      \/ res = Refuse(r1, p.psn, "INV_REQ")
      \/ res = AnswerRead(r, p, slot.expected_psn)
  <2>1. res =
      IF ~(p.rkey /\ r.mr) THEN Refuse(r, p.psn, "REM_ACCESS")
      ELSE IF \/ slot.wr # p.wr \/ slot.k + offset # p.k
              \/ slot.dmalen - offset # p.dmalen
           THEN Refuse(r, p.psn, "INV_REQ")
      ELSE IF MaxDestRdAtomic <= r1.nr_rd_atomic THEN Refuse(r1, p.psn, "INV_REQ")
      ELSE AnswerRead(r, p, slot.expected_psn)
    BY Zenon DEF receive_retried_RDMA_READ_request
  <2> HIDE DEF offset, r1, res
  <2> QED BY <2>1
<1>3. r1 \in RspType /\ Goes(r, r1)
  BY RemoveOverlappedType, RemoveOverlappedGoes
<1> HIDE DEF r1, res
<1>4. /\ Goes(r, Refuse(r, p.psn, "REM_ACCESS"))
      /\ Goes(r, Refuse(r, p.psn, "INV_REQ"))
      /\ Goes(r1, Refuse(r1, p.psn, "INV_REQ"))
  BY <1>1, <1>3, RefuseGoes
<1>5. Goes(r, Refuse(r1, p.psn, "INV_REQ"))
  BY <1>3, <1>4, GoesTrans
<1>6. Goes(r, AnswerRead(r, p, slot.expected_psn))
  BY <1>1, AnswerReadGoes
<1>7. Goes(r, res)
  BY <1>2, <1>4, <1>5, <1>6
<1> QED
  BY <1>7 DEF res

LEMMA receive_duplicateGoes ==
  ASSUME NEW r \in RspType, NEW p \in RequestType
  PROVE  Goes(r, receive_duplicate(r, p))
<1> DEFINE hits == {i \in DOMAIN r.slots :
                      /\ r.slots[i].op = p.op
                      /\ InPsnRange(p.psn, r.slots[i].psn,
                                    r.slots[i].expected_psn)}
           slot == r.slots[Min(hits)]
<1>1. p.psn \in Int /\ {"ACK", "INV_REQ"} \subseteq Syndromes
  BY RequestFields, SyndromeNames
<1>2. \/ receive_duplicate(r, p) = push_acknowledge(r, p.psn, "ACK")
      \/ receive_duplicate(r, p) = Refuse(r, p.psn, "INV_REQ")
      \/ hits # {} /\
           \/ receive_duplicate(r, p) = receive_retried_RDMA_READ_request(r, p, slot)
           \/ receive_duplicate(r, p) = receive_retried_Atomic_request(r, p, slot)
  <2>1. receive_duplicate(r, p) =
      IF p.op \notin AtomicOpcodes \cup {"READ_REQUEST"}
      THEN push_acknowledge(r, p.psn, "ACK")
      ELSE IF hits = {} THEN Refuse(r, p.psn, "INV_REQ")
      ELSE IF p.op = "READ_REQUEST"
           THEN receive_retried_RDMA_READ_request(r, p, slot)
      ELSE receive_retried_Atomic_request(r, p, slot)
    BY Zenon DEF receive_duplicate
  <2> HIDE DEF hits, slot
  <2> QED BY <2>1
<1>3. ASSUME hits # {} PROVE slot \in SlotType
  <2> DEFINE l == r.slots
  <2>1. l \in Seq(SlotType)
    BY DEF RspType, SlotType
  <2>2. DOMAIN l = 1 .. Len(l) /\ Len(l) \in Nat
    <3> HIDE DEF l
    <3> QED BY <2>1
  <2>3. hits \subseteq 1 .. Len(l)
    BY <2>2
  <2> HIDE DEF l, hits
  <2>4. hits \subseteq Nat
    BY <2>2, <2>3
  <2>5. Min(hits) \in 1 .. Len(l)
    BY <1>3, <2>3, <2>4, MinIsElement
  <2>6. l[Min(hits)] \in SlotType
    BY <2>1, <2>5
  <2> QED BY <2>6 DEF l
<1> HIDE DEF hits, slot
<1>4. ASSUME hits # {}
      PROVE  /\ Goes(r, receive_retried_RDMA_READ_request(r, p, slot))
             /\ Goes(r, receive_retried_Atomic_request(r, p, slot))
  <2>1. slot \in SlotType
    BY <1>3, <1>4
  <2>2. slot.res \in Int
    BY <2>1 DEF SlotType
  <2>3. Goes(r, receive_retried_RDMA_READ_request(r, p, slot))
    BY <2>1, receive_retried_RDMA_READ_requestGoes
  <2>4. Goes(r, receive_retried_Atomic_request(r, p, slot))
    BY <1>1, <2>2, push_atomic_acknowledgeGoes DEF receive_retried_Atomic_request
  <2> QED BY <2>3, <2>4
<1>5. /\ Goes(r, push_acknowledge(r, p.psn, "ACK"))
      /\ Goes(r, Refuse(r, p.psn, "INV_REQ"))
  BY <1>1, push_acknowledgeGoes, RefuseGoes
<1> QED
  BY <1>2, <1>4, <1>5

LEMMA receive_requestGoes ==
  ASSUME NEW r \in RspType, NEW p \in RequestType, p.op \in RequestOpcodes,
         p.dmalen \in Nat
  PROVE  Goes(r, receive_request(r, p))
<1>1. p.psn \in Int /\ {"PSN_SEQ", "INV_REQ"} \subseteq Syndromes
  BY RequestFields, SyndromeNames
<1>2. Goes(r, receive_new_request(r, p))
  <2>1. \/ receive_new_request(r, p) = Refuse(r, p.psn, "INV_REQ")
        \/ receive_new_request(r, p) = receive_SEND_request(r, p)
        \/ receive_new_request(r, p) = receive_RDMA_WRITE_request(r, p)
        \/ receive_new_request(r, p) = receive_new_RDMA_READ_request(r, p)
        \/ receive_new_request(r, p) = receive_Atomic_request(r, p)
    <3> DEFINE ok == pib_opcode_is_in_order_sequence(p.op, r.last_OpCode)
               new == CASE p.op \in SendOpcodes  -> receive_SEND_request(r, p)
                        [] p.op \in WriteOpcodes -> receive_RDMA_WRITE_request(r, p)
                        [] p.op = "READ_REQUEST" -> receive_new_RDMA_READ_request(r, p)
                        [] OTHER -> receive_Atomic_request(r, p)
    <3>1. receive_new_request(r, p) = IF ~ok THEN Refuse(r, p.psn, "INV_REQ") ELSE new
      BY Zenon DEF receive_new_request
    <3>2. \/ new = receive_SEND_request(r, p)
          \/ new = receive_RDMA_WRITE_request(r, p)
          \/ new = receive_new_RDMA_READ_request(r, p)
          \/ new = receive_Atomic_request(r, p)
      <4> DEFINE S == p.op \in SendOpcodes
                 W == p.op \in WriteOpcodes
                 R == p.op = "READ_REQUEST"
      <4>1. CASE S /\ ~W /\ ~R
        BY <4>1
      <4>2. CASE W /\ ~S /\ ~R
        BY <4>2
      <4>3. CASE R /\ ~S /\ ~W
        BY <4>3
      <4>4. CASE ~S /\ ~W /\ ~R
        BY <4>4
      <4>5. /\ ~(S /\ W) /\ ~(S /\ R) /\ ~(W /\ R)
        BY DEF SendOpcodes, WriteOpcodes
      <4> QED BY <4>1, <4>2, <4>3, <4>4, <4>5
    <3> HIDE DEF ok, new
    <3> QED BY <3>1, <3>2
  <2> QED
    BY <1>1, <2>1, RefuseGoes, receive_SEND_requestGoes,
       receive_RDMA_WRITE_requestGoes, receive_new_RDMA_READ_requestGoes,
       receive_Atomic_requestGoes
<1>3. \/ receive_request(r, p) = push_acknowledge(r, p.psn, "PSN_SEQ")
      \/ receive_request(r, p) = receive_duplicate(r, p)
      \/ receive_request(r, p) = receive_new_request(r, p)
  <2> DEFINE d == get_psn_diff(p.psn, r.psn)
  <2>1. d \in Int
    <3>1. r.psn \in Int
      BY RspFields
    <3> QED BY <1>1, <3>1, PsnDiffType
  <2>2. receive_request(r, p) =
          CASE d > 0 -> push_acknowledge(r, p.psn, "PSN_SEQ")
            [] d < 0 -> receive_duplicate(r, p)
            [] OTHER -> receive_new_request(r, p)
    BY Zenon DEF receive_request
  <2> HIDE DEF d
  <2>3. CASE d > 0
    BY <2>1, <2>2, <2>3
  <2>4. CASE d < 0
    BY <2>1, <2>2, <2>4
  <2>5. CASE ~(d > 0) /\ ~(d < 0)
    BY <2>1, <2>2, <2>5
  <2> QED BY <2>3, <2>4, <2>5
<1> QED
  BY <1>1, <1>2, <1>3, push_acknowledgeGoes, receive_duplicateGoes

LEMMA receive_packetGoes ==
  ASSUME NEW r \in RspType, NEW p \in RequestType, p.dmalen \in Nat
  PROVE  Goes(r, receive_packet(r, p))
<1>1. Goes(r, receive_cnp_notify(r))
  <2> DEFINE z == 0
             s == receive_cnp_notify(r)
  <2>1. z \in Nat /\ s = [r EXCEPT !.nr_contig_read_acks = z]
    BY DEF receive_cnp_notify
  <2> HIDE DEF z
  <2>2. /\ s \in RspType /\ s.acks = r.acks /\ s.nr_rd_atomic = r.nr_rd_atomic
        /\ s.cq = r.cq /\ s.psn = r.psn
    BY <2>1, ZenonT(30) DEF RspType
  <2> QED BY <2>2, GoesSame
<1>2. p.op = "CNP" \/ p.op \in RequestOpcodes
  BY RequestFields
<1> QED
  BY <1>1, <1>2, GoesRefl, receive_requestGoes DEF receive_packet

-----------------------------------------------------------------------------
(* Acknowledge packets and the responder's steps *)

(* The answer at the head of the list is sent and no longer counted.       *)
LEMMA SentCounted ==
  ASSUME NEW r \in RspType, NEW s \in RspType, r.acks # <<>>,
         s.acks = Tail(r.acks), s.cq = r.cq, s.psn = r.psn,
         s.nr_rd_atomic = r.nr_rd_atomic - One(Head(r.acks))
  PROVE  Goes(r, s)
<1>1. r.acks \in Seq(AckType) /\ r.nr_rd_atomic \in Int
  BY RspFields
<1>2. RdCount(s.acks) = RdCount(r.acks) - One(Head(r.acks))
  BY <1>1, CountTail
<1> QED
  BY <1>2, GoesAcks DEF Counted

LEMMA generate_RDMA_READ_responseGoes ==
  ASSUME NEW r \in RspType, r.acks # <<>>, Head(r.acks).type = "READ"
  PROVE  Goes(r, generate_RDMA_READ_response(r))
<1> DEFINE a  == Head(r.acks)
           o  == a.offset + 1
           b  == [a EXCEPT !.offset = o]
           tx == <<Response(ReadOpcode(a), a.psn + a.offset, "ACK", a)>>
           n  == r.nr_contig_read_acks + 1
           k  == [r.acks EXCEPT ![1] = b]
           r1 == [r EXCEPT !.tx = tx, !.nr_contig_read_acks = n, !.acks = k]
           t  == Tail(k)
           m  == r.nr_rd_atomic - 1
           r2 == [r1 EXCEPT !.acks = t, !.nr_rd_atomic = m]
<1>1. a \in AckType /\ r.acks[1] = a /\ r.acks \in Seq(AckType)
  BY HeadAck, RspFields
<1>2. a.psn \in Int /\ a.offset \in Int /\ a.expected_psn \in Int
  BY <1>1 DEF AckType
<1>3. o \in Int /\ a.psn + a.offset \in Int
  BY <1>2
<1>4. b \in AckType /\ b.type = "READ"
  <2> HIDE DEF a, o
  <2>1. b \in AckType /\ b.type = a.type
    BY <1>1, <1>3 DEF AckType
  <2> QED BY <2>1 DEF a
<1>5. tx \in Seq(ResponseType)
  <2>1. ReadOpcode(a) \in ResponseOpcodes
    BY DEF ReadOpcode, ResponseOpcodes
  <2>2. "ACK" \in Syndromes
    BY SyndromeNames
  <2> QED BY <1>1, <1>3, <2>1, <2>2, AckResponseType
<1>6. n \in Nat /\ m \in Int
  BY RspFields
<1>7. k \in Seq(AckType) /\ k # <<>> /\ k[1] = b /\ RdCount(k) = RdCount(r.acks)
  <2> DEFINE l == r.acks
  <2>1. l \in Seq(AckType) /\ Len(l) \in Nat /\ 1 \in 1 .. Len(l) /\ Len(l) # 0
    <3>1. l \in Seq(AckType) /\ l # <<>>
      BY <1>1
    <3> HIDE DEF l
    <3> QED BY <3>1
  <2>2. IsRdAtomicAck(b) = IsRdAtomicAck(l[1])
    BY <1>1, <1>4 DEF IsRdAtomicAck
  <2>3. l = r.acks
    OBVIOUS
  <2> HIDE DEF l, b
  <2>4. /\ [l EXCEPT ![1] = b] \in Seq(AckType) /\ Len([l EXCEPT ![1] = b]) = Len(l)
        /\ [l EXCEPT ![1] = b][1] = b /\ RdCount([l EXCEPT ![1] = b]) = RdCount(l)
    BY <1>4, <2>1, <2>2, SetElement, CountSet
  <2>5. k = [l EXCEPT ![1] = b]
    BY <2>3
  <2> HIDE DEF k
  <2>6. k \in Seq(AckType) /\ Len(k) # 0 /\ k[1] = b /\ RdCount(k) = RdCount(l)
    BY <2>1, <2>4, <2>5
  <2> QED BY <2>3, <2>6
<1>8. t \in Seq(AckType) /\ Head(k) = b
  <2> HIDE DEF k, b
  <2> QED BY <1>7
<1>9. \/ generate_RDMA_READ_response(r) = r
      \/ generate_RDMA_READ_response(r) = r1
      \/ generate_RDMA_READ_response(r) = r2
  <2> DEFINE s1 == [r EXCEPT !.tx = tx, !.nr_contig_read_acks = @ + 1,
                             !.acks[1].offset = @ + 1]
  <2>1. generate_RDMA_READ_response(r) =
          IF MaxContigReads < r.nr_contig_read_acks \/ ~r.mr THEN r
          ELSE IF a.offset + 1 < a.size THEN s1
          ELSE [s1 EXCEPT !.acks = Tail(@), !.nr_rd_atomic = @ - 1]
    BY Zenon DEF generate_RDMA_READ_response
  <2>2. s1 = r1
    <3> DEFINE u == r.acks[1].offset + 1
    <3>1. u = o
      BY <1>1
    <3>2. r.acks[1] = a
      BY <1>1
    <3> HIDE DEF a, tx
    <3> QED BY <3>1, <3>2
  <2>3. r1.acks = k /\ r1.nr_rd_atomic = r.nr_rd_atomic
    <3> HIDE DEF tx, n, k
    <3> QED BY DEF RspType
  <2> HIDE DEF s1, r1, a, k
  <2>4. [s1 EXCEPT !.acks = Tail(@), !.nr_rd_atomic = @ - 1] = r2
    BY <2>2, <2>3
  <2> HIDE DEF r2
  <2> QED BY <2>1, <2>2, <2>4
<1> HIDE DEF a, b, tx, n, k
<1>10. /\ r1 \in RspType /\ r1.acks = k /\ r1.nr_rd_atomic = r.nr_rd_atomic
       /\ r1.cq = r.cq /\ r1.psn = r.psn
  BY <1>5, <1>6, <1>7 DEF RspType
<1> HIDE DEF r1
<1>11. Goes(r, r1)
  BY <1>7, <1>10, GoesAcks DEF Counted
<1> DEFINE x == r1.nr_rd_atomic - One(Head(r1.acks))
<1>12. m = x
  <2>1. One(b) = 1
    BY <1>4 DEF One, IsRdAtomicAck
  <2> QED BY <1>8, <1>10, <2>1
<1> HIDE DEF t, m, x
<1>13. /\ r2 \in RspType /\ r2.acks = t /\ r2.nr_rd_atomic = m /\ r2.cq = r1.cq
       /\ r2.psn = r1.psn
  BY <1>6, <1>8, <1>10, ZenonT(30) DEF RspType
<1> HIDE DEF r2
<1>14. Goes(r1, r2)
  <2>1. r1.acks # <<>> /\ r2.acks = Tail(r1.acks)
    BY <1>7, <1>10, <1>13 DEF t
  <2>2. r2.nr_rd_atomic = r1.nr_rd_atomic - One(Head(r1.acks))
    BY <1>12, <1>13 DEF x
  <2> QED BY <1>10, <1>13, <2>1, <2>2, SentCounted
<1>15. Goes(r, r2)
  BY <1>11, <1>14, GoesTrans
<1> QED
  BY <1>9, <1>11, <1>15, GoesRefl

LEMMA AcknowledgeGoes ==
  ASSUME NEW r \in RspType, r.acks # <<>>
  PROVE  Goes(r, pib_generate_rc_qp_acknowledge(r))
<1> DEFINE a   == Head(r.acks)
           tx1 == <<Response("ATOMIC_ACK", a.psn, "ACK", a)>>
           tx2 == <<Response("ACK", a.psn, a.synd, a)>>
           t   == Tail(r.acks)
           m   == r.nr_rd_atomic - 1
           r1  == [r EXCEPT !.tx = tx1, !.acks = t, !.nr_rd_atomic = m]
           r2  == [r EXCEPT !.tx = tx2, !.acks = t]
<1>1. a \in AckType /\ t \in Seq(AckType)
  BY HeadAck
<1>2. a.psn \in Int /\ a.synd \in Syndromes /\ "ACK" \in Syndromes
  BY <1>1, SyndromeNames DEF AckType
<1>3. tx1 \in Seq(ResponseType) /\ tx2 \in Seq(ResponseType)
  <2>1. {"ATOMIC_ACK", "ACK"} \subseteq ResponseOpcodes
    BY DEF ResponseOpcodes
  <2> QED BY <1>1, <1>2, <2>1, AckResponseType
<1>4. m \in Int /\ r.nr_rd_atomic \in Int
  BY RspFields
<1>5. /\ a.type = "READ" =>
           pib_generate_rc_qp_acknowledge(r) = generate_RDMA_READ_response(r)
      /\ a.type = "ATOMIC" => pib_generate_rc_qp_acknowledge(r) = r1
      /\ a.type \notin {"READ", "ATOMIC"} => pib_generate_rc_qp_acknowledge(r) = r2
  <2>1. pib_generate_rc_qp_acknowledge(r) =
          CASE a.type = "READ" -> generate_RDMA_READ_response(r)
            [] a.type = "ATOMIC" -> r1
            [] OTHER -> r2
    BY DEF pib_generate_rc_qp_acknowledge
  <2> HIDE DEF a, r1, r2
  <2>2. CASE a.type = "READ"
    BY <2>1, <2>2
  <2>3. CASE a.type = "ATOMIC"
    BY <2>1, <2>3
  <2>4. CASE a.type # "READ" /\ a.type # "ATOMIC"
    BY <2>1, <2>4
  <2> QED BY <2>2, <2>3, <2>4
<1> HIDE DEF tx1, tx2, t, m
<1>6. /\ r1 \in RspType /\ r1.acks = t /\ r1.nr_rd_atomic = m /\ r1.cq = r.cq
      /\ r1.psn = r.psn
  BY <1>1, <1>3, <1>4, ZenonT(30) DEF RspType
<1>7. /\ r2 \in RspType /\ r2.acks = t /\ r2.nr_rd_atomic = r.nr_rd_atomic
      /\ r2.cq = r.cq /\ r2.psn = r.psn
  BY <1>1, <1>3, <1>4, ZenonT(30) DEF RspType
<1> HIDE DEF r1, r2
<1>8. a.type = "ATOMIC" => Goes(r, r1)
  <2> SUFFICES ASSUME a.type = "ATOMIC" PROVE Goes(r, r1)
    OBVIOUS
  <2>1. One(a) = 1
    BY DEF One, IsRdAtomicAck
  <2>2. r1.nr_rd_atomic = r.nr_rd_atomic - One(Head(r.acks))
    BY <1>6, <2>1 DEF m
  <2> QED BY <1>6, <2>2, SentCounted DEF t
<1>9. a.type \notin {"READ", "ATOMIC"} => Goes(r, r2)
  <2> SUFFICES ASSUME a.type \notin {"READ", "ATOMIC"} PROVE Goes(r, r2)
    OBVIOUS
  <2>1. One(a) = 0
    BY DEF One, IsRdAtomicAck
  <2>2. r2.nr_rd_atomic = r.nr_rd_atomic - One(Head(r.acks))
    BY <1>4, <1>7, <2>1
  <2> QED BY <1>7, <2>2, SentCounted DEF t
<1>10. a.type = "READ" => Goes(r, generate_RDMA_READ_response(r))
  BY generate_RDMA_READ_responseGoes
<1> HIDE DEF a
<1> QED
  BY <1>5, <1>8, <1>9, <1>10

LEMMA post_recvGoes ==
  ASSUME NEW r \in RspType, NEW size \in RecvSizes
  PROVE  Goes(r, post_recv(r, size))
<1> DEFINE id == r.posted + 1
           r1 == [r EXCEPT !.posted = id]
           e  == <<>>
           l  == Append(r.rq, [id |-> id, size |-> size])
           r2 == [r1 EXCEPT !.rq = l]
           r3 == insert_recv_wc(r1, id, "WR_FLUSH_ERR", e)
           s  == post_recv(r, size)
<1>1. id \in Nat
  BY RspFields
<1>2. e \in Seq(Nat \X Int) /\ "WR_FLUSH_ERR" \in Statuses
  BY DEF Statuses
<1>3. r1.rq = r.rq
  BY DEF RspType
<1>4. s = r2 \/ s = r3
  <2> HIDE DEF r1
  <2> QED BY <1>3 DEF post_recv, r1
<1>5. s \in RspType
  BY post_recvType
<1> HIDE DEF id, l, e
<1>6. /\ r1 \in RspType /\ r1.acks = r.acks /\ r1.nr_rd_atomic = r.nr_rd_atomic
      /\ r1.cq = r.cq /\ r1.psn = r.psn
  BY <1>1 DEF RspType
<1> HIDE DEF r1
<1>7. /\ r2.acks = r1.acks /\ r2.nr_rd_atomic = r1.nr_rd_atomic
      /\ r2.cq = r1.cq /\ r2.psn = r1.psn
  BY <1>6 DEF RspType
<1>8. Goes(r, r1) /\ Goes(r1, r3)
  BY <1>1, <1>2, <1>6, GoesSame, insert_recv_wcGoes
<1> HIDE DEF r2, r3, s
<1>9. ASSUME s = r2 PROVE Goes(r1, s)
  BY <1>5, <1>6, <1>7, <1>9, GoesSame
<1>10. Goes(r1, s)
  BY <1>4, <1>8, <1>9
<1>11. Goes(r, s)
  BY <1>8, <1>10, GoesTrans
<1> QED
  BY <1>11 DEF s

(* A step of the responder's thread.                                       *)
LEMMA ResponderStepGoes ==
  ASSUME rsp \in RspType, NEW r, Goes(rsp, r), ResponderStep(r)
  PROVE  Goes(rsp, rsp')
<1> DEFINE s == reschedule_rsp(r)
           e == <<>>
           p == [s EXCEPT !.tx = e]
<1>1. rsp' = p
  BY DEF ResponderStep
<1>2. r \in RspType
  BY DEF Goes
<1>3. s \in RspType /\ Goes(r, s)
  BY <1>2, reschedule_rspType, reschedule_rspGoes
<1>4. e \in Seq(ResponseType)
  OBVIOUS
<1> HIDE DEF s, e
<1>5. /\ p \in RspType /\ p.acks = s.acks /\ p.nr_rd_atomic = s.nr_rd_atomic
      /\ p.cq = s.cq /\ p.psn = s.psn
  BY <1>3, <1>4, ZenonT(30) DEF RspType
<1> HIDE DEF p
<1>6. Goes(s, p)
  BY <1>3, <1>5, GoesSame
<1>7. Goes(rsp, s)
  BY <1>3, GoesTrans
<1> QED
  BY <1>1, <1>6, <1>7, GoesTrans

-----------------------------------------------------------------------------
(* The system: the invariant of the lists and of the requester's flow.     *)
FlowSafe == IInv /\ FlowInv(req)

LEMMA InitFlow == Init => FlowSafe
<1> SUFFICES ASSUME Init PROVE FlowSafe
  OBVIOUS
<1>1. IInv /\ ReqInv(req)
  BY InitIInv DEF IInv
<1>2. /\ Len(req.cq) = 0 /\ Begun(req) = 0 /\ req.state = "RTS"
      /\ req.psn = InitPsn /\ req.expected_psn = InitPsn /\ req.nr_rd_atomic = 0
  BY DEF Init, Begun
<1>3. Psns(req, 0)
  <2>1. Masked(InitPsn) = InitPsn
    <3>1. InitPsn \in 0 .. PsnMod - 1 /\ PsnMod \in Nat
      BY RCAssumption, PsnModAssumption
    <3> QED BY <3>1 DEF Masked
  <2>2. PsnAfter(req, 0) = InitPsn /\ Chained(req, 0)
    BY DEF PsnAfter, Chained
  <2> QED BY <1>2, <2>1, <2>2 DEF Psns
<1>4. Counts(req, 0)
  <2>1. RdAtomics(req, 0) = {}
    BY <1>2 DEF RdAtomics
  <2>2. Cardinality(RdAtomics(req, 0)) = 0
    BY <2>1, FS_EmptySet
  <2>3. 0 <= MaxRdAtomic
    BY ConstantTypes
  <2> QED BY <1>2, <2>2, <2>3 DEF Counts
<1>5. Fences(req, 0) /\ Errs(req)
  BY <1>2 DEF Fences, Errs, ErrsLast, AllGood
<1> QED BY <1>1, <1>2, <1>3, <1>4, <1>5 DEF FlowSafe, FlowInv, Flow

LEMMA NextFlow == FlowSafe /\ [Next]_vars => FlowSafe'
<1> SUFFICES ASSUME FlowSafe, [Next]_vars PROVE FlowSafe'
  OBVIOUS
<1>1. /\ IInv /\ FlowInv(req) /\ req \in ReqType
      /\ toRsp \in Seq(RequestType) /\ toReq \in Seq(ResponseType)
  BY FlowFacts DEF FlowSafe, IInv
<1>2. IInv'
  BY <1>1, NextIInv
<1> SUFFICES FlowInv(req')
  BY <1>2 DEF FlowSafe
<1>3. CASE PostSend
  <2>1. PICK w \in WRs : req' = post_send(req, w)
    BY <1>3 DEF PostSend
  <2> QED BY <1>1, <2>1, post_sendFlow
<1>4. ASSUME NEW q, FlowInv(q), first_sending_wsqe(q) PROVE FlowInv(req')
  <2>1. RequesterStep(SendFirst(StartNext(q)))
    BY <1>4 DEF first_sending_wsqe
  <2>2. FlowInv(SendFirst(StartNext(q)))
    BY <1>4, StartNextFlow, SendFirstFlow
  <2> QED BY <1>1, <2>1, <2>2, RequesterStepFlow
<1>5. CASE RequesterPass
  BY <1>1, <1>4, <1>5 DEF RequesterPass
<1>6. CASE TimeoutPass
  <2>1. first_sending_wsqe(LocalAckTimeout(req)) /\ req.waiting # <<>>
    BY <1>6 DEF TimeoutPass
  <2> QED BY <1>1, <1>4, <2>1, LocalAckTimeoutFlow
<1>7. CASE ReceiveResponse
  <2> DEFINE q == IF req.state = "ERR" THEN req
                  ELSE receive_response(req, Head(toReq))
  <2>1. toReq # <<>> /\ RequesterStep(q)
    BY <1>7 DEF ReceiveResponse
  <2>2. Head(toReq) \in ResponseType
    BY <1>1, <2>1, WireType
  <2>3. req.state = "RTS" \/ req.state = "ERR"
    BY <1>1 DEF ReqType
  <2>4. FlowInv(q)
    BY <1>1, <2>2, <2>3, receive_responseFlow
  <2> HIDE DEF q
  <2> QED BY <1>1, <2>1, <2>4, RequesterStepFlow
<1>8. ASSUME UNCHANGED req PROVE FlowInv(req')
  BY <1>1, <1>8
<1>9. CASE PostRecv \/ DeregMr \/ ReceiveRequest \/ ResponderPass \/ NetworkFault
           \/ UNCHANGED vars
  <2>1. UNCHANGED req
    BY <1>9 DEF PostRecv, DeregMr, ReceiveRequest, ResponderPass, NetworkFault, vars
  <2> QED BY <1>8, <2>1
<1> QED
  BY <1>3, <1>5, <1>6, <1>7, <1>9 DEF Next

(* The started work requests are those after the completed ones.           *)
LEMMA StartedAre ==
  ASSUME NEW q, FlowInv(q)
  PROVE  /\ Len(q.cq) \in Nat /\ Started(q) \in Seq(Nat)
         /\ Len(Started(q)) \in Nat
         /\ DOMAIN Started(q) = 1 .. Len(Started(q))
         /\ Begun(q) = Len(q.cq) + Len(Started(q))
         /\ Begun(q) <= Len(q.wqe) /\ Len(q.wqe) \in Nat
         /\ \A j \in 1 .. Len(Started(q)) : Started(q)[j] = Len(q.cq) + j
<1>1. Len(q.cq) \in Nat /\ Requester(q, Len(q.cq))
  BY FlowFacts
<1>2. /\ Started(q) \in Seq(Nat) /\ Len(Started(q)) \in Nat
      /\ \A j \in 1 .. Len(Started(q)) : Started(q)[j] = Len(q.cq) + j
  BY <1>1, ListsExist
<1>3. DOMAIN Started(q) = 1 .. Len(Started(q))
  BY <1>2
<1>4. /\ Begun(q) = Len(q.cq) + Len(Started(q)) /\ Len(q.wqe) \in Nat
      /\ Begun(q) <= Len(q.wqe)
  BY <1>1, Numbers
<1> QED BY <1>1, <1>2, <1>3, <1>4

LEMMA FlowErrors == FlowSafe => ErrorEndsQueue
<1> SUFFICES ASSUME FlowSafe PROVE ErrorEndsQueue
  OBVIOUS
<1>1. req \in ReqType /\ ErrsLast(req.cq)
  BY FlowFacts DEF FlowSafe
<1>2. DOMAIN req.cq = 1 .. Len(req.cq)
  BY <1>1, ReqFields
<1> QED BY <1>1, <1>2 DEF ErrsLast, ErrorEndsQueue

LEMMA FlowFences == FlowSafe => FenceHolds
<1> DEFINE all == Started(req)
           c   == Len(req.cq)
           n   == Len(all)
<1> SUFFICES ASSUME FlowSafe, NEW i \in DOMAIN all, NEW j \in DOMAIN all, i < j,
                    req.wqe[all[j]].wr.fence
             PROVE  ~pib_is_wr_opcode_rd_atomic(Op(all[i]))
  BY DEF FenceHolds
<1>1. /\ c \in Nat /\ n \in Nat /\ DOMAIN all = 1 .. n /\ Begun(req) = c + n
      /\ \A k \in 1 .. n : all[k] = c + k
  BY StartedAre DEF FlowSafe
<1>2. Fences(req, c)
  BY FlowFacts DEF FlowSafe, Flow
<1> HIDE DEF all, c, n
<1>3. all[i] = c + i /\ all[j] = c + j /\ i \in 1 .. n /\ j \in 1 .. n
  BY <1>1
<1>4. c + j \in c + 1 .. Begun(req) /\ c + i \in c + 1 .. (c + j) - 1
  BY <1>1, <1>3
<1>5. req.wqe[c + j].wr.fence
  BY <1>3
<1>6. ~IsRd(req.wqe[c + i])
  BY <1>2, <1>4, <1>5 DEF Fences
<1> QED BY <1>3, <1>6 DEF IsRd, Op

LEMMA FlowPsns == FlowSafe => PsnChain
<1> DEFINE all  == Started(req)
           c    == Len(req.cq)
           n    == Len(all)
           E(j) == req.wqe[all[j]]
<1> SUFFICES ASSUME FlowSafe, req.state = "RTS"
             PROVE  /\ \A j \in DOMAIN all :
                         /\ E(j).expected_psn = E(j).based_psn + E(j).wr.pkts
                         /\ j > 1 => E(j).based_psn = E(j - 1).expected_psn
                    /\ all # <<>> => /\ req.psn = Masked(E(1).based_psn)
                                     /\ req.expected_psn = E(Len(all)).expected_psn
                    /\ all = <<>> => req.psn = Masked(req.expected_psn)
  BY DEF PsnChain
<1>1. /\ c \in Nat /\ n \in Nat /\ DOMAIN all = 1 .. n /\ Begun(req) = c + n
      /\ \A k \in 1 .. n : all[k] = c + k
  BY StartedAre DEF FlowSafe
<1>2. /\ Chained(req, c + n) /\ req.psn = Masked(PsnAfter(req, c))
      /\ req.expected_psn = PsnAfter(req, c + n)
  BY <1>1, FlowFacts DEF FlowSafe, Flow, Psns
<1>3. (all = <<>> <=> n = 0)
  BY StartedAre DEF FlowSafe
<1> HIDE DEF all, c, n
<1>4. ASSUME NEW j \in 1 .. n
      PROVE  /\ E(j) = req.wqe[c + j] /\ c + j \in 1 .. c + n
             /\ E(j).based_psn = PsnAfter(req, (c + j) - 1)
             /\ E(j).expected_psn = E(j).based_psn + E(j).wr.pkts
  <2>1. E(j) = req.wqe[c + j] /\ c + j \in 1 .. c + n
    BY <1>1
  <2> QED BY <1>2, <2>1 DEF Chained
<1>5. ASSUME NEW j \in 1 .. n
      PROVE  PsnAfter(req, c + j) = E(j).expected_psn
  BY <1>1, <1>4 DEF PsnAfter
<1>6. ASSUME NEW j \in 1 .. n, j > 1
      PROVE  E(j).based_psn = E(j - 1).expected_psn
  <2>1. j - 1 \in 1 .. n /\ (c + j) - 1 = c + (j - 1)
    BY <1>1, <1>6
  <2> QED BY <1>4, <1>5, <2>1
<1>7. ASSUME n # 0
      PROVE  /\ req.psn = Masked(E(1).based_psn)
             /\ req.expected_psn = E(n).expected_psn
  <2>1. 1 \in 1 .. n /\ n \in 1 .. n /\ (c + 1) - 1 = c
    BY <1>1, <1>7
  <2> QED BY <1>2, <1>4, <1>5, <2>1
<1>8. ASSUME n = 0 PROVE req.psn = Masked(req.expected_psn)
  <2>1. c + n = c
    BY <1>1, <1>8
  <2> QED BY <1>2, <2>1
<1> QED
  BY <1>1, <1>3, <1>4, <1>6, <1>7, <1>8 DEF n

(* After the first work request that completes in error a send queue only  *)
(* flushes: no success and no second error overtakes it, whatever answers  *)
(* to the work requests behind it are still under way.                     *)
THEOREM ErrorEndsSendQueue == Spec => []ErrorEndsQueue
<1>1. Init => FlowSafe
  BY InitFlow
<1>2. FlowSafe /\ [Next]_vars => FlowSafe'
  BY NextFlow
<1>3. FlowSafe => ErrorEndsQueue
  BY FlowErrors
<1> QED
  BY <1>1, <1>2, <1>3, PTL DEF Spec

(* The work requests under way divide the PSNs from requester.psn to       *)
(* requester.expected_psn between them: no retry, timeout, NAK or partial  *)
(* completion ever leaves a PSN to two work requests or to none.           *)
THEOREM PsnsAreChained == Spec => []PsnChain
<1>1. Init => FlowSafe
  BY InitFlow
<1>2. FlowSafe /\ [Next]_vars => FlowSafe'
  BY NextFlow
<1>3. FlowSafe => PsnChain
  BY FlowPsns
<1> QED
  BY <1>1, <1>2, <1>3, PTL DEF Spec

(* A fenced work request is not under way together with an RDMA READ or    *)
(* Atomic operation posted before it, and a retry never brings that about. *)
THEOREM FencesHold == Spec => []FenceHolds
<1>1. Init => FlowSafe
  BY InitFlow
<1>2. FlowSafe /\ [Next]_vars => FlowSafe'
  BY NextFlow
<1>3. FlowSafe => FenceHolds
  BY FlowFences
<1> QED
  BY <1>1, <1>2, <1>3, PTL DEF Spec

-----------------------------------------------------------------------------
(* Packets sent and acknowledged: what a connection has done stays done.   *)
(* The responder advances by the length a request packet claims, so its    *)
(* half needs an invariant of the requester: every packet on the wire is   *)
(* a packet of the WQE it names, which needs the counters of a WQE to stay *)
(* inside its message.                                                     *)

(* The PSNs of a WQE are assigned when it starts.                          *)
Numbered(e) == e.expected_psn = e.based_psn + e.wr.pkts
Fresh(e)    == e.based_psn = 0 /\ e.expected_psn = 0 /\ e.ack_packets = 0

InWindow(e) ==
  /\ 0 <= e.ack_packets /\ e.ack_packets < e.wr.pkts
  /\ 0 <= e.sent_packets /\ e.sent_packets <= e.wr.pkts
  /\ e.wr.op = "READ" => e.sent_packets = e.ack_packets

(* The counters of the work requests after number d, when the lists start  *)
(* after number c: inside the message, with a packet left to send for      *)
(* those not on the waiting list.                                          *)
Rest(q, c, d) ==
  \A i \in d + 1 .. Len(q.wqe) :
    /\ InWindow(q.wqe[i])
    /\ i > c + Len(q.waiting) => q.wqe[i].sent_packets < q.wqe[i].wr.pkts
    /\ i <= Begun(q) => Numbered(q.wqe[i])
    /\ i > Begun(q) => Fresh(q.wqe[i])

Windows(q, c) == Rest(q, c, c)

(* A request packet that WQE number p.wr of q sent, or a congestion notice.*)
IsPacketOf(e, p) ==
  /\ Numbered(e) /\ p.k \in 0 .. e.wr.pkts - 1
  /\ p.psn = Masked(e.based_psn + p.k)
  /\ p.op = RequestOpcode(e.wr.op, e.wr.pkts, p.k)
  /\ p.dmalen = IF e.wr.op = "READ" THEN e.wr.pkts - p.k ELSE e.wr.pkts
  /\ p.rkey = (e.wr.fault # "remote")

Genuine(q, p) ==
  p = CNP \/ (p.wr \in 1 .. Len(q.wqe) /\ IsPacketOf(q.wqe[p.wr], p))

Requests(q) == {p \in RequestType : Genuine(q, p)}

(* What a step leaves of every WQE: the work request, acknowledged packets *)
(* and, once assigned, the PSNs.                                           *)
Follows(e, f) ==
  /\ f.wr = e.wr /\ e.ack_packets <= f.ack_packets
  /\ Numbered(e) => f.based_psn = e.based_psn /\ f.expected_psn = e.expected_psn

Continues(q, p) ==
  /\ Len(q.wqe) <= Len(p.wqe)
  /\ \A i \in 1 .. Len(q.wqe) : Follows(q.wqe[i], p.wqe[i])

-----------------------------------------------------------------------------
(* Operations that change no counter and no PSN *)

AlikeWqe(e, f) ==
  /\ f.wr = e.wr /\ f.based_psn = e.based_psn /\ f.expected_psn = e.expected_psn
  /\ f.ack_packets = e.ack_packets /\ f.sent_packets = e.sent_packets

Alike(q, p) ==
  /\ Len(p.wqe) = Len(q.wqe) /\ Len(p.submitted) = Len(q.submitted)
  /\ \A i \in 1 .. Len(q.wqe) : AlikeWqe(q.wqe[i], p.wqe[i])

LEMMA AlikeRefl ==
  ASSUME NEW q
  PROVE  Alike(q, q)
BY DEF Alike, AlikeWqe

LEMMA AlikeTrans ==
  ASSUME NEW q, NEW p, NEW r, Alike(q, p), Alike(p, r)
  PROVE  Alike(q, r)
BY DEF Alike, AlikeWqe

LEMMA AlikeWindows ==
  ASSUME NEW q, NEW c \in Nat, Requester(q, c), NEW d \in Nat, c <= d,
         Rest(q, c, d), NEW p, Alike(q, p),
         Len(p.waiting) \in Nat, c + Len(q.waiting) <= d + Len(p.waiting)
  PROVE  Windows(p, d)
<1>1. Len(q.wqe) \in Nat /\ Len(q.waiting) \in Nat /\ Begun(q) \in Nat
  BY Numbers, RequesterFacts, ReqFields
<1>2. Begun(p) = Begun(q) /\ Len(p.wqe) = Len(q.wqe)
  BY DEF Alike, Begun
<1> DEFINE n == Len(q.wqe)
           w == Len(q.waiting)
           v == Len(p.waiting)
           b == Begun(q)
<1> SUFFICES ASSUME NEW i \in d + 1 .. n
             PROVE  /\ InWindow(p.wqe[i])
                    /\ i > d + v => p.wqe[i].sent_packets < p.wqe[i].wr.pkts
                    /\ i <= b => Numbered(p.wqe[i])
                    /\ i > b => Fresh(p.wqe[i])
  BY <1>2 DEF Windows, Rest
<1>3. n \in Nat /\ w \in Nat /\ b \in Nat /\ v \in Nat /\ c + w <= d + v
  BY <1>1
<1>4. /\ \A k \in 1 .. n : AlikeWqe(q.wqe[k], p.wqe[k])
      /\ \A k \in d + 1 .. n :
           /\ InWindow(q.wqe[k])
           /\ k > c + w => q.wqe[k].sent_packets < q.wqe[k].wr.pkts
           /\ k <= b => Numbered(q.wqe[k])
           /\ k > b => Fresh(q.wqe[k])
  BY DEF Alike, Rest
<1> HIDE DEF n, w, v, b
<1>5. i \in 1 .. n /\ (i > d + v => i > c + w)
  BY <1>3
<1> QED BY <1>4, <1>5 DEF AlikeWqe, InWindow, Numbered, Fresh

LEMMA WindowsRest ==
  ASSUME NEW q, NEW c \in Nat, NEW d \in Nat, c <= d, Windows(q, c),
         Len(q.wqe) \in Nat
  PROVE  Rest(q, c, d)
<1>1. \A i \in d + 1 .. Len(q.wqe) : i \in c + 1 .. Len(q.wqe)
  OBVIOUS
<1> QED BY <1>1 DEF Windows, Rest

LEMMA AlikeContinues ==
  ASSUME NEW q \in ReqType, NEW p, Alike(q, p)
  PROVE  Continues(q, p)
<1>1. q.wqe \in Seq(SwqeType) /\ Len(q.wqe) \in Nat
  BY ReqFields
<1>2. ASSUME NEW i \in 1 .. Len(q.wqe) PROVE Follows(q.wqe[i], p.wqe[i])
  <2>1. q.wqe[i].ack_packets \in Int
    BY <1>1, SwqeFields
  <2>2. AlikeWqe(q.wqe[i], p.wqe[i])
    BY DEF Alike
  <2> QED BY <2>1, <2>2 DEF AlikeWqe, Follows
<1> QED BY <1>1, <1>2 DEF Alike, Continues

LEMMA ContinuesTrans ==
  ASSUME NEW q \in ReqType, NEW p \in ReqType, NEW r \in ReqType,
         Continues(q, p), Continues(p, r)
  PROVE  Continues(q, r)
<1> DEFINE n == Len(q.wqe)
           m == Len(p.wqe)
           k == Len(r.wqe)
<1>1. /\ q.wqe \in Seq(SwqeType) /\ p.wqe \in Seq(SwqeType) /\ r.wqe \in Seq(SwqeType)
      /\ n \in Nat /\ m \in Nat /\ k \in Nat /\ n <= m /\ m <= k
  BY ReqFields DEF Continues
<1>2. ASSUME NEW i \in 1 .. n PROVE Follows(q.wqe[i], r.wqe[i])
  <2>1. i \in 1 .. m /\ i \in 1 .. k
    <3> HIDE DEF n, m, k
    <3> QED BY <1>1
  <2>2. Follows(q.wqe[i], p.wqe[i]) /\ Follows(p.wqe[i], r.wqe[i])
    BY <2>1 DEF Continues
  <2>3. /\ q.wqe[i].ack_packets \in Int /\ p.wqe[i].ack_packets \in Int
        /\ r.wqe[i].ack_packets \in Int
    BY <1>1, <2>1, SwqeFields
  <2> QED BY <2>2, <2>3 DEF Follows, Numbered
<1>3. n <= k
  <2> HIDE DEF n, m, k
  <2> QED BY <1>1
<1> QED BY <1>2, <1>3 DEF Continues

(* A packet under way stays genuine.                                       *)
LEMMA GenuineStays ==
  ASSUME NEW q \in ReqType, NEW p \in ReqType, Continues(q, p)
  PROVE  /\ Requests(q) \subseteq Requests(p)
         /\ Seq(Requests(q)) \subseteq Seq(Requests(p))
<1>1. Len(q.wqe) \in Nat /\ Len(p.wqe) \in Nat /\ Len(q.wqe) <= Len(p.wqe)
  BY ReqFields DEF Continues
<1>2. ASSUME NEW x, Genuine(q, x) PROVE Genuine(p, x)
  <2>1. CASE x = CNP
    BY <2>1 DEF Genuine
  <2>2. CASE x # CNP
    <3>1. x.wr \in 1 .. Len(q.wqe) /\ IsPacketOf(q.wqe[x.wr], x)
      BY <1>2, <2>2 DEF Genuine
    <3>2. Follows(q.wqe[x.wr], p.wqe[x.wr])
      BY <3>1 DEF Continues
    <3>3. IsPacketOf(p.wqe[x.wr], x)
      BY <3>1, <3>2 DEF Follows, IsPacketOf, Numbered
    <3>4. x.wr \in 1 .. Len(p.wqe)
      BY <1>1, <3>1
    <3> QED BY <3>3, <3>4 DEF Genuine
  <2> QED BY <2>1, <2>2
<1>3. Requests(q) \subseteq Requests(p)
  BY <1>2 DEF Requests
<1> DEFINE S == Requests(q)
           T == Requests(p)
<1>4. S \subseteq T
  BY <1>3
<1> HIDE DEF S, T
<1>5. Seq(S) \subseteq Seq(T)
  BY <1>4
<1> QED BY <1>3, <1>5 DEF S, T

(* ... and that leave the waiting list and the send buffer alone as well.  *)
Still(q, p) == Alike(q, p) /\ p.waiting = q.waiting /\ p.tx = q.tx

LEMMA StillTrans ==
  ASSUME NEW q, NEW p, NEW r, Still(q, p), Still(p, r)
  PROVE  Still(q, r)
BY AlikeTrans DEF Still

LEMMA StillWindows ==
  ASSUME NEW q, NEW c \in Nat, Requester(q, c), Windows(q, c), NEW p, Still(q, p)
  PROVE  Windows(p, c) /\ Continues(q, p)
<1>1. q \in ReqType /\ Len(q.waiting) \in Nat
  BY RequesterFacts, ReqFields
<1> DEFINE w == Len(q.waiting)
<1>2. Len(p.waiting) = w /\ w \in Nat /\ Alike(q, p)
  BY <1>1 DEF Still
<1>3. c + w <= c + w /\ c <= c
  <2> HIDE DEF w
  <2> QED BY <1>2
<1> QED BY <1>1, <1>2, <1>3, AlikeWindows, AlikeContinues DEF Windows

LEMMA StillUpdate ==
  ASSUME NEW q \in ReqType, NEW wqe, Len(wqe) = Len(q.wqe),
         \A i \in 1 .. Len(q.wqe) : AlikeWqe(q.wqe[i], wqe[i])
  PROVE  Still(q, [q EXCEPT !.wqe = wqe])
BY DEF Still, Alike, ReqType

LEMMA StillSet ==
  ASSUME NEW q \in ReqType, NEW id, NEW e, AlikeWqe(q.wqe[id], e)
  PROVE  Still(q, [q EXCEPT !.wqe[id] = e])
<1> DEFINE wqe == [q.wqe EXCEPT ![id] = e]
<1>1. q.wqe \in Seq(SwqeType) /\ Len(q.wqe) \in Nat /\ DOMAIN q.wqe = 1 .. Len(q.wqe)
  BY ReqFields
<1>2. Len(wqe) = Len(q.wqe)
  <2>1. DOMAIN wqe = 1 .. Len(q.wqe)
    BY <1>1
  <2> HIDE DEF wqe
  <2> QED BY <1>1, <2>1
<1>3. \A i \in 1 .. Len(q.wqe) : AlikeWqe(q.wqe[i], wqe[i])
  <2>1. \A x : AlikeWqe(x, x)
    BY DEF AlikeWqe
  <2> QED BY <1>1, <2>1
<1>4. [q EXCEPT !.wqe[id] = e] = [q EXCEPT !.wqe = wqe]
  OBVIOUS
<1> HIDE DEF wqe
<1> QED BY <1>2, <1>3, <1>4, StillUpdate

LEMMA reschedule_reqStill ==
  ASSUME NEW q \in ReqType
  PROVE  Still(q, reschedule_req(q)) /\ reschedule_req(q) \in ReqType
<1> DEFINE on == /\ q.state = "RTS"
                 /\ q.waiting # <<>> \/ SendDue(q) \/ StartDue(q)
<1>1. reschedule_req(q) = [q EXCEPT !.on = on] /\ on \in BOOLEAN
  BY DEF reschedule_req
<1> HIDE DEF on
<1>2. [q EXCEPT !.on = on] \in ReqType
  BY <1>1 DEF ReqType
<1>3. Still(q, [q EXCEPT !.on = on])
  BY DEF Still, Alike, AlikeWqe, ReqType
<1> QED BY <1>1, <1>2, <1>3

LEMMA PostponeStill ==
  ASSUME NEW q \in ReqType
  PROVE  Still(q, postpone_local_ack_timeout(q))
<1> DEFINE Set(e) == [e EXCEPT !.retry_cnt = RetryCnt]
           wqe == [i \in DOMAIN q.wqe |->
                     IF InList(q.waiting, i) THEN Set(q.wqe[i]) ELSE q.wqe[i]]
<1>1. /\ q.wqe \in Seq(SwqeType) /\ Len(q.wqe) \in Nat
      /\ DOMAIN q.wqe = 1 .. Len(q.wqe)
      /\ \A i \in 1 .. Len(q.wqe) : q.wqe[i] \in SwqeType
  <2>1. /\ q.wqe \in Seq(SwqeType) /\ Len(q.wqe) \in Nat
        /\ DOMAIN q.wqe = 1 .. Len(q.wqe)
    BY ReqFields
  <2> QED BY <2>1
<1>2. \A e \in SwqeType : AlikeWqe(e, Set(e)) /\ AlikeWqe(e, e)
  BY DEF SwqeType, AlikeWqe
<1>3. Len(wqe) = Len(q.wqe)
  <2>1. DOMAIN wqe = 1 .. Len(q.wqe)
    BY <1>1
  <2> HIDE DEF wqe
  <2> QED BY <1>1, <2>1
<1>4. \A i \in 1 .. Len(q.wqe) : wqe[i] = Set(q.wqe[i]) \/ wqe[i] = q.wqe[i]
  BY <1>1
<1>5. postpone_local_ack_timeout(q) = [q EXCEPT !.wqe = wqe]
  BY DEF postpone_local_ack_timeout
<1> HIDE DEF wqe, Set
<1>6. \A i \in 1 .. Len(q.wqe) : AlikeWqe(q.wqe[i], wqe[i])
  BY <1>1, <1>2, <1>4
<1> QED BY <1>3, <1>5, <1>6, StillUpdate

LEMMA SetStatusStill ==
  ASSUME NEW q, NEW c \in Nat, Requester(q, c), NEW id \in DOMAIN q.wqe,
         NEW status
  PROVE  Still(q, SetStatus(q, id, status))
<1> DEFINE e == [q.wqe[id] EXCEPT !.status = status]
<1>1. q.wqe[id] \in SwqeType /\ q \in ReqType
  BY FirstWqe, RequesterFacts
<1>2. AlikeWqe(q.wqe[id], e)
  BY <1>1 DEF SwqeType, AlikeWqe
<1>3. SetStatus(q, id, status) = [q EXCEPT !.wqe[id] = e]
  BY DEF SetStatus
<1> HIDE DEF e
<1> QED BY <1>1, <1>2, <1>3, StillSet

LEMMA set_send_wqe_to_errorStill ==
  ASSUME NEW q, NEW c \in Nat, Requester(q, c), NEW psn, NEW status
  PROVE  Still(q, set_send_wqe_to_error(q, psn, status))
<1> DEFINE hits == match_send_wqe(q, psn)
           id   == Started(q)[Min(hits)]
<1>1. CASE hits = {}
  BY <1>1, AlikeRefl DEF set_send_wqe_to_error, Still
<1>2. CASE hits # {}
  <2>1. id \in DOMAIN q.wqe
    BY <1>2, MatchExists
  <2>2. set_send_wqe_to_error(q, psn, status) = SetStatus(q, id, status)
    BY <1>2 DEF set_send_wqe_to_error
  <2> HIDE DEF id, hits
  <2> QED BY <2>1, <2>2, SetStatusStill
<1> QED
  BY <1>1, <1>2

LEMMA CountRnrStill ==
  ASSUME NEW q, NEW c \in Nat, Requester(q, c)
  PROVE  Still(q, CountRnr(q))
<1> DEFINE id == Head(q.sending)
           k  == q.wqe[id].rnr_retry - 1
           e  == [q.wqe[id] EXCEPT !.rnr_retry = k]
           p  == [q EXCEPT !.wqe[id] = e]
<1>1. CountRnr(q) = q \/ (q.sending # <<>> /\ CountRnr(q) = p)
  BY DEF CountRnr
<1>2. ASSUME q.sending # <<>> PROVE Still(q, p)
  <2>1. q.wqe[id] \in SwqeType /\ q \in ReqType
    BY <1>2, FirstWqe, RequesterFacts
  <2> HIDE DEF k, id
  <2>2. AlikeWqe(q.wqe[id], e)
    BY <2>1 DEF SwqeType, AlikeWqe
  <2> HIDE DEF e
  <2> QED BY <2>1, <2>2, StillSet
<1> HIDE DEF p
<1> QED
  BY <1>1, <1>2, AlikeRefl DEF Still

LEMMA DropStartedAlike ==
  ASSUME NEW q, NEW c \in Nat, Requester(q, c), NEW n \in 0 .. Len(Started(q))
  PROVE  /\ Alike(q, DropStarted(q, n)) /\ Len(DropStarted(q, n).waiting) \in Nat
         /\ c + Len(q.waiting) <= c + n + Len(DropStarted(q, n).waiting)
         /\ DropStarted(q, n).tx = q.tx
<1>1. q \in ReqType /\ q.waiting \in Seq(Nat) /\ n \in Nat
  <2>1. Len(Started(q)) \in Nat
    BY ListsExist
  <2> QED BY <2>1, RequesterFacts
<1> DEFINE w == Len(q.waiting)
           l == Drop(q.waiting, n)
           e == <<>>
           s == Drop(q.sending, n - Len(q.waiting))
           p == DropStarted(q, n)
<1>2. w \in Nat
  BY <1>1
<1>3. CASE n <= w
  <2>1. p = [q EXCEPT !.waiting = l]
    BY <1>3 DEF DropStarted
  <2>2. Len(l) = w - n
    <3> DEFINE t == q.waiting
    <3>1. t \in Seq(Nat) /\ n \in 0 .. Len(t) /\ l = SubSeq(t, n + 1, Len(t))
      BY <1>1, <1>3 DEF Drop
    <3> HIDE DEF t
    <3>2. Len(SubSeq(t, n + 1, Len(t))) = Len(t) - n
      BY <3>1
    <3> QED BY <3>1, <3>2 DEF t
  <2> HIDE DEF l
  <2>3. p.waiting = l /\ Alike(q, p) /\ p.tx = q.tx
    BY <1>1, <2>1 DEF Alike, AlikeWqe, ReqType
  <2>4. Len(l) \in Nat /\ c + w <= c + n + Len(l)
    <3> HIDE DEF w
    <3> QED BY <1>1, <1>2, <1>3, <2>2
  <2> QED BY <2>3, <2>4
<1>4. CASE ~ (n <= w)
  <2>1. p = [q EXCEPT !.waiting = e, !.sending = s]
    BY <1>4 DEF DropStarted
  <2>2. Len(e) = 0
    OBVIOUS
  <2> HIDE DEF e, s
  <2>3. p.waiting = e /\ Alike(q, p) /\ p.tx = q.tx
    BY <1>1, <2>1 DEF Alike, AlikeWqe, ReqType
  <2>4. Len(e) \in Nat /\ c + w <= c + n + Len(e)
    <3> HIDE DEF w
    <3> QED BY <1>1, <1>2, <1>4, <2>2
  <2> QED BY <2>3, <2>4
<1> QED
  BY <1>3, <1>4

(* Completing the n oldest work requests.                                  *)
LEMMA CompleteStartedWindows ==
  ASSUME NEW q, ReqInv(q), NEW n \in 0 .. Len(Started(q)),
         Rest(q, Len(q.cq), Len(q.cq) + n)
  PROVE  /\ Windows(CompleteStarted(q, n), Len(CompleteStarted(q, n).cq))
         /\ Alike(q, CompleteStarted(q, n)) /\ CompleteStarted(q, n).tx = q.tx
<1> DEFINE c   == Len(q.cq)
           all == Started(q)
           wcs == [i \in 1 .. n |-> [wr |-> all[i], status |-> "SUCCESS"]]
           d   == DropStarted(q, n)
           m   == IF n = 0 THEN d.psn ELSE Masked(q.wqe[all[n]].expected_psn)
           cq  == d.cq \o wcs
           p   == [d EXCEPT !.cq = cq, !.psn = m]
<1>1. c \in Nat /\ Requester(q, c)
  BY ReqFields DEF ReqInv, Requester
<1>2. CompleteStarted(q, n) = p
  BY DEF CompleteStarted
<1>3. Requester(d, c + n) /\ d \in ReqType
  BY <1>1, DropStartedType DEF Requester
<1>4. /\ Alike(q, d) /\ Len(d.waiting) \in Nat
      /\ c + Len(q.waiting) <= c + n + Len(d.waiting) /\ d.tx = q.tx
  BY <1>1, DropStartedAlike
<1>5. Len(p.cq) = c + n
  BY <1>2, CompleteStartedType
<1> HIDE DEF d, m, cq
<1>6. p.wqe = d.wqe /\ p.submitted = d.submitted /\ p.tx = d.tx /\ p.waiting = d.waiting
  BY <1>3 DEF ReqType
<1> HIDE DEF p
<1>7. Alike(d, p)
  BY <1>6 DEF Alike, AlikeWqe
<1>8. Alike(q, p)
  BY <1>4, <1>7, AlikeTrans
<1>9. n \in Nat
  <2>1. Len(Started(q)) \in Nat
    BY <1>1, ListsExist
  <2> QED BY <2>1
<1>10. c + n \in Nat /\ c <= c + n /\ Len(p.waiting) \in Nat
       /\ c + Len(q.waiting) <= c + n + Len(p.waiting)
  <2> DEFINE w == Len(q.waiting)
             v == Len(p.waiting)
  <2>1. v \in Nat /\ c + w <= c + n + v
    BY <1>4, <1>6
  <2> HIDE DEF c, w, v
  <2>2. c + n \in Nat /\ c <= c + n
    BY <1>1, <1>9
  <2> QED BY <2>1, <2>2 DEF w, v
<1>11. Windows(p, c + n)
  <2> HIDE DEF c
  <2>1. Rest(q, c, c + n)
    BY DEF c
  <2> QED BY <1>1, <1>8, <1>10, <2>1, AlikeWindows
<1> QED BY <1>2, <1>4, <1>5, <1>6, <1>8, <1>11

-----------------------------------------------------------------------------
(* What an operation of the requester makes of the counters, the WQEs and  *)
(* the send buffer.                                                        *)
Advances(q, p) ==
  /\ Windows(p, Len(p.cq)) /\ Continues(q, p)
  /\ q.tx \in Seq(Requests(q)) => p.tx \in Seq(Requests(p))

ProgInv(q) == FlowInv(q) /\ Windows(q, Len(q.cq))

LEMMA AdvancesTrans ==
  ASSUME NEW q \in ReqType, NEW p \in ReqType, NEW r \in ReqType,
         Advances(q, p), Advances(p, r)
  PROVE  Advances(q, r)
BY ContinuesTrans DEF Advances

LEMMA AdvancesIntro ==
  ASSUME NEW q \in ReqType, NEW p \in ReqType, Windows(p, Len(p.cq)),
         Continues(q, p), p.tx = q.tx
  PROVE  Advances(q, p)
BY GenuineStays DEF Advances

LEMMA AdvancesStill ==
  ASSUME NEW q, ReqInv(q), Windows(q, Len(q.cq)), NEW p \in ReqType,
         Still(q, p), p.cq = q.cq
  PROVE  Advances(q, p)
<1>1. q \in ReqType /\ Len(q.cq) \in Nat /\ Requester(q, Len(q.cq))
  BY ReqFields DEF ReqInv, Requester
<1>2. Windows(p, Len(q.cq)) /\ Continues(q, p)
  BY <1>1, StillWindows
<1> QED BY <1>1, <1>2, AdvancesIntro DEF Still

(* A queue pair that fails has no work request left.                       *)
LEMMA FailedWindows ==
  ASSUME NEW p, ReqInv(p), p.state = "ERR"
  PROVE  Windows(p, Len(p.cq))
<1>1. Len(p.wqe) = Len(p.cq) /\ Len(p.cq) \in Nat
  BY ReqFields DEF ReqInv, Requester, Drained
<1> QED BY <1>1 DEF Windows, Rest

LEMMA CompletionErrorKeeps ==
  ASSUME NEW q \in ReqType, NEW id
  PROVE  LET p == CompletionError(q, id)
         IN  p.wqe = q.wqe /\ p.tx = q.tx /\ p.state = "ERR"
<1> DEFINE st   == q.wqe[id].status
           cq1  == Append(q.cq, [wr |-> id, status |-> st])
           q1   == [q EXCEPT !.cq = cq1]
           left == Started(q1) \o q1.submitted
           wcs  == [i \in 1 .. Len(left) |->
                     [wr |-> left[i], status |-> "WR_FLUSH_ERR"]]
           cq   == q1.cq \o wcs
           e    == <<>>
           z    == 0
           err  == "ERR"
           p1   == [q1 EXCEPT !.state = err, !.waiting = e, !.sending = e,
                              !.submitted = e, !.nr_rd_atomic = z, !.cq = cq]
           on   == /\ p1.state = "RTS"
                   /\ p1.waiting # <<>> \/ SendDue(p1) \/ StartDue(p1)
           p2   == [p1 EXCEPT !.on = on]
           p3   == [p2 EXCEPT !.nr_contig_requests = z, !.nr_contig_read_acks = z]
<1>1. CompletionError(q, id) = p3
  BY DEF CompletionError, flush_req, insert_send_wc, reschedule_req
<1> HIDE DEF cq1
<1>2. q1.wqe = q.wqe /\ q1.tx = q.tx /\ DOMAIN q1 = DOMAIN q
  BY DEF ReqType
<1> HIDE DEF cq
<1>3. /\ DOMAIN q = {"state", "submitted", "sending", "waiting", "wqe", "psn",
                     "expected_psn", "nr_rd_atomic", "nr_contig_requests",
                     "nr_contig_read_acks", "on", "cq", "tx"}
  BY DEF ReqType
<1> HIDE DEF q1, e, z, err
<1>4. /\ p1.wqe = q1.wqe /\ p1.tx = q1.tx /\ p1.state = err /\ DOMAIN p1 = DOMAIN q1
  BY <1>2, <1>3
<1> HIDE DEF p1, on
<1>5. p2.wqe = p1.wqe /\ p2.tx = p1.tx /\ p2.state = p1.state /\ DOMAIN p2 = DOMAIN p1
  BY <1>2, <1>3, <1>4
<1> HIDE DEF p2
<1>6. p3.wqe = p2.wqe /\ p3.tx = p2.tx /\ p3.state = p2.state
  BY <1>2, <1>3, <1>4, <1>5
<1> HIDE DEF p3
<1> QED BY <1>1, <1>2, <1>4, <1>5, <1>6 DEF err

LEMMA FailAdvances ==
  ASSUME NEW q \in ReqType, NEW p \in ReqType, Alike(q, p), p.tx = q.tx, NEW id,
         ReqInv(CompletionError(p, id))
  PROVE  Advances(q, CompletionError(p, id))
<1> DEFINE f == CompletionError(p, id)
<1>1. f.wqe = p.wqe /\ f.tx = p.tx /\ f.state = "ERR"
  BY CompletionErrorKeeps
<1>2. f \in ReqType /\ Windows(f, Len(f.cq))
  BY <1>1, FailedWindows DEF ReqInv, Requester
<1> HIDE DEF f
<1>3. Continues(q, p)
  BY AlikeContinues
<1>4. Continues(q, f)
  BY <1>1, <1>3 DEF Continues
<1>5. Advances(q, f)
  BY <1>1, <1>2, <1>4, AdvancesIntro
<1> QED BY <1>5 DEF f

-----------------------------------------------------------------------------
(* Operations that change the counters of started work requests *)

LEMMA ChangeOne ==
  ASSUME NEW q, NEW c \in Nat, Requester(q, c), NEW d \in Nat, c <= d,
         Rest(q, c, d), NEW id \in c + 1 .. Begun(q), NEW p,
         Len(p.wqe) = Len(q.wqe), Len(p.submitted) = Len(q.submitted),
         Len(p.waiting) \in Nat, Len(q.waiting) <= Len(p.waiting),
         \A i \in 1 .. Len(q.wqe) : i # id => AlikeWqe(q.wqe[i], p.wqe[i]),
         p.wqe[id].wr = q.wqe[id].wr,
         p.wqe[id].based_psn = q.wqe[id].based_psn,
         p.wqe[id].expected_psn = q.wqe[id].expected_psn,
         q.wqe[id].ack_packets <= p.wqe[id].ack_packets,
         id > d => /\ InWindow(p.wqe[id])
                   /\ id > c + Len(p.waiting) =>
                        p.wqe[id].sent_packets < p.wqe[id].wr.pkts
  PROVE  Rest(p, c, d) /\ Continues(q, p)
<1>1. Len(q.wqe) \in Nat /\ Len(q.waiting) \in Nat /\ Begun(q) \in Nat
      /\ Begun(q) <= Len(q.wqe) /\ q.wqe \in Seq(SwqeType)
  BY Numbers, RequesterFacts, ReqFields
<1>2. Begun(p) = Begun(q)
  BY DEF Begun
<1> DEFINE n == Len(q.wqe)
           w == Len(q.waiting)
           v == Len(p.waiting)
           b == Begun(q)
<1>3. n \in Nat /\ w \in Nat /\ b \in Nat /\ v \in Nat /\ w <= v /\ b <= n
  BY <1>1
<1>4. \A k \in d + 1 .. n :
        /\ InWindow(q.wqe[k])
        /\ k > c + w => q.wqe[k].sent_packets < q.wqe[k].wr.pkts
        /\ k <= b => Numbered(q.wqe[k])
        /\ k > b => Fresh(q.wqe[k])
  BY DEF Rest
<1>5. /\ \A i \in 1 .. n : i # id => AlikeWqe(q.wqe[i], p.wqe[i])
      /\ id > d => /\ InWindow(p.wqe[id])
                   /\ id > c + v => p.wqe[id].sent_packets < p.wqe[id].wr.pkts
      /\ id \in c + 1 .. b /\ Len(p.wqe) = n
  OBVIOUS
<1>6. \A i \in 1 .. n : q.wqe[i].ack_packets \in Int
  BY <1>1, SwqeFields
<1> HIDE DEF n, w, v, b
<1>7. ASSUME NEW i \in d + 1 .. n
      PROVE  /\ InWindow(p.wqe[i])
             /\ i > c + v => p.wqe[i].sent_packets < p.wqe[i].wr.pkts
             /\ i <= b => Numbered(p.wqe[i])
             /\ i > b => Fresh(p.wqe[i])
  <2>1. i \in 1 .. n /\ (i > c + v => i > c + w) /\ i > d
    BY <1>3
  <2>2. CASE i # id
    <3>1. AlikeWqe(q.wqe[i], p.wqe[i])
      BY <1>5, <2>1, <2>2
    <3> QED BY <1>4, <2>1, <3>1 DEF AlikeWqe, InWindow, Numbered, Fresh
  <2>3. CASE i = id
    <3>1. i <= b /\ ~ (i > b)
      BY <1>3, <1>5, <2>3
    <3>2. Numbered(q.wqe[i])
      BY <1>4, <3>1
    <3>3. Numbered(p.wqe[i])
      BY <2>3, <3>2 DEF Numbered
    <3> QED BY <1>5, <2>1, <2>3, <3>1, <3>3
  <2> QED BY <2>2, <2>3
<1>8. Rest(p, c, d)
  BY <1>2, <1>7, <1>5 DEF Rest, n, v, b
<1>9. ASSUME NEW i \in 1 .. n PROVE Follows(q.wqe[i], p.wqe[i])
  <2>1. CASE i = id
    BY <2>1 DEF Follows
  <2>2. CASE i # id
    BY <1>5, <1>6, <2>2 DEF Follows, AlikeWqe
  <2> QED BY <2>1, <2>2
<1>10. Continues(q, p)
  BY <1>3, <1>5, <1>9 DEF Continues, n
<1> QED BY <1>8, <1>10

LEMMA ResendWindows ==
  ASSUME NEW q, NEW c \in Nat, Requester(q, c), Windows(q, c)
  PROVE  Windows(Resend(q), c) /\ Continues(q, Resend(q)) /\ Resend(q).tx = q.tx
<1> DEFINE wqe == [i \in DOMAIN q.wqe |->
                     IF InList(Started(q), i) THEN Cancel(q.wqe[i])
                     ELSE q.wqe[i]]
           s == Started(q)
           e == <<>>
           p == Resend(q)
           n == Len(q.wqe)
           b == Begun(q)
           w == Len(q.waiting)
<1>1. /\ q \in ReqType /\ q.wqe \in Seq(SwqeType) /\ n \in Nat
      /\ DOMAIN q.wqe = 1 .. n /\ b \in Nat /\ b <= n /\ c <= b /\ w \in Nat
      /\ b = c + Len(s) /\ Len(s) \in Nat /\ s \in Seq(Nat)
      /\ \A j \in 1 .. Len(s) : s[j] = c + j
  BY Numbers, RequesterFacts, ReqFields, ListsExist
<1>2. \A i \in 1 .. n : q.wqe[i] \in SwqeType
  BY <1>1
<1>3. p = [[q EXCEPT !.wqe = wqe] EXCEPT !.waiting = e, !.sending = s]
  BY DEF Resend, CancelStarted
<1>4. ASSUME NEW i \in c + 1 .. b PROVE InList(s, i)
  <2>1. i - c \in 1 .. Len(s) /\ c + (i - c) = i
    <3> DEFINE l == Len(s)
    <3> HIDE DEF l, b
    <3>1. i - c \in 1 .. l /\ c + (i - c) = i
      BY <1>1 DEF l
    <3> QED BY <3>1 DEF l
  <2>2. s[i - c] = i
    BY <1>1, <2>1
  <2>3. DOMAIN s = 1 .. Len(s)
    BY <1>1
  <2> QED BY <2>1, <2>2, <2>3 DEF InList
<1>5. ASSUME NEW i \in 1 .. n
      PROVE  /\ wqe[i] = Cancel(q.wqe[i]) \/ wqe[i] = q.wqe[i]
             /\ i \in c + 1 .. b => wqe[i] = Cancel(q.wqe[i])
  <2>1. wqe[i] = IF InList(s, i) THEN Cancel(q.wqe[i]) ELSE q.wqe[i]
    BY <1>1
  <2> QED BY <1>4, <2>1
<1>6. Len(wqe) = n
  <2>1. DOMAIN wqe = 1 .. n
    BY <1>1
  <2> HIDE DEF wqe, n
  <2> QED BY <1>1, <2>1
<1>7. Len(e) = 0
  OBVIOUS
<1> HIDE DEF wqe, s, e
<1>8. /\ p.wqe = wqe /\ p.waiting = e /\ p.submitted = q.submitted /\ p.tx = q.tx
  BY <1>1, <1>3 DEF ReqType
<1> HIDE DEF p
<1>9. Begun(p) = b /\ Len(p.wqe) = n
  BY <1>6, <1>8 DEF Begun
<1>10. ASSUME NEW x \in SwqeType
       PROVE  /\ Cancel(x).wr = x.wr /\ Cancel(x).based_psn = x.based_psn
              /\ Cancel(x).expected_psn = x.expected_psn
              /\ Cancel(x).ack_packets = x.ack_packets
              /\ Cancel(x).sent_packets = x.ack_packets
              /\ x.ack_packets \in Int /\ x.wr.pkts \in Int
  <2>1. x.ack_packets \in Int /\ x.wr.pkts \in Int
    BY SwqeFields
  <2> QED BY <2>1 DEF Cancel, SwqeType
<1>11. \A k \in c + 1 .. n :
        /\ InWindow(q.wqe[k])
        /\ k > c + w => q.wqe[k].sent_packets < q.wqe[k].wr.pkts
        /\ k <= b => Numbered(q.wqe[k])
        /\ k > b => Fresh(q.wqe[k])
  BY DEF Windows, Rest
<1>12. w <= Len(s)
  <2> DEFINE y == Len(q.sending)
  <2>1. Len(s) = w + y /\ y \in Nat
    BY <1>1, ListsExist, ReqFields DEF s
  <2> HIDE DEF y, w
  <2> QED BY <1>1, <2>1
<1> DEFINE l == Len(s)
<1>13. l \in Nat /\ w <= l /\ b = c + l /\ n \in Nat /\ b <= n /\ w \in Nat
  BY <1>1, <1>12
<1> HIDE DEF l, b, n, w
<1>14. ASSUME NEW i \in c + 1 .. n
       PROVE  /\ InWindow(p.wqe[i]) /\ p.wqe[i].sent_packets < p.wqe[i].wr.pkts
              /\ i <= b => Numbered(p.wqe[i])
              /\ i > b => Fresh(p.wqe[i])
  <2>1. i \in 1 .. n /\ (i \notin c + 1 .. b => i > c + w)
    BY <1>13
  <2>2. q.wqe[i] \in SwqeType
    BY <1>2, <2>1 DEF n
  <2>3. CASE wqe[i] = Cancel(q.wqe[i])
    BY <1>8, <1>10, <1>11, <2>2, <2>3 DEF InWindow, Numbered, Fresh
  <2>4. CASE wqe[i] # Cancel(q.wqe[i])
    <3>1. i > c + w /\ wqe[i] = q.wqe[i]
      BY <1>5, <2>1, <2>4 DEF n, b
    <3> QED BY <1>8, <1>11, <3>1
  <2> QED BY <2>3, <2>4
<1>15. Windows(p, c)
  BY <1>9, <1>14 DEF Windows, Rest
<1>16. ASSUME NEW i \in 1 .. n PROVE Follows(q.wqe[i], p.wqe[i])
  <2>1. q.wqe[i] \in SwqeType
    BY <1>2 DEF n
  <2>2. wqe[i] = Cancel(q.wqe[i]) \/ wqe[i] = q.wqe[i]
    BY <1>5 DEF n
  <2> QED BY <1>8, <1>10, <2>1, <2>2 DEF Follows
<1>17. Continues(q, p)
  BY <1>9, <1>13, <1>16 DEF Continues, n
<1> QED BY <1>8, <1>15, <1>17 DEF p

-----------------------------------------------------------------------------
(* Sending *)

LEMMA FirstSending ==
  ASSUME NEW q, NEW c \in Nat, Requester(q, c), q.sending # <<>>
  PROVE  /\ Head(q.sending) = c + Len(q.waiting) + 1
         /\ Head(q.sending) \in c + 1 .. Begun(q)
         /\ Head(q.sending) \in 1 .. Len(q.wqe)
         /\ Len(Append(q.waiting, Head(q.sending))) = Len(q.waiting) + 1
         /\ Len(q.waiting) \in Nat
<1> DEFINE s == q.sending
           W == Len(q.waiting)
           n == Len(q.wqe)
<1>1. /\ s \in Seq(Nat) /\ q.waiting \in Seq(Nat) /\ W \in Nat
      /\ InOrder(q.waiting, s, q.submitted, n, c) /\ s # <<>>
      /\ Begun(q) \in Nat /\ Begun(q) <= n /\ n \in Nat
      /\ Begun(q) = c + Len(Started(q)) /\ Len(Started(q)) = W + Len(s)
  BY RequesterFacts, ReqFields, Numbers, ListsExist
<1>2. Len(Append(q.waiting, Head(s))) = W + 1
  <2> DEFINE l == q.waiting
  <2> HIDE DEF l
  <2>1. l \in Seq(Nat) /\ Head(s) \in Nat
    BY <1>1 DEF l
  <2>2. Len(Append(l, Head(s))) = Len(l) + 1
    BY <2>1
  <2> QED BY <2>2 DEF l
<1>3. Consecutive(s, c + W)
  BY <1>1 DEF InOrder
<1> HIDE DEF s, W, n
<1>4. Len(s) \in Nat /\ Len(s) # 0 /\ Head(s) = s[1]
  BY <1>1
<1>5. Head(s) = c + W + 1
  BY <1>1, <1>3, <1>4 DEF Consecutive
<1>6. Begun(q) = c + (W + Len(s))
  BY <1>1
<1>7. Head(s) \in c + 1 .. Begun(q) /\ Head(s) \in 1 .. n
  BY <1>1, <1>4, <1>5, <1>6
<1> QED BY <1>1, <1>2, <1>5, <1>7 DEF s, W, n

(* The packet a WQE sends is one of its packets.                           *)
LEMMA RequestIsGenuine ==
  ASSUME NEW q, NEW id \in Nat, q.wqe[id] \in SwqeType, InWindow(q.wqe[id]),
         Numbered(q.wqe[id]), q.wqe[id].sent_packets < q.wqe[id].wr.pkts
  PROVE  /\ RequestPacket(q, id).wr = id
         /\ IsPacketOf(q.wqe[id], RequestPacket(q, id))
<1> DEFINE e  == q.wqe[id]
           k  == e.sent_packets
           op == RequestOpcode(e.wr.op, e.wr.pkts, k)
           ps == Masked(e.based_psn + k)
           dl == IF e.wr.op = "READ" THEN e.wr.pkts - k ELSE e.wr.pkts
           rk == e.wr.fault # "remote"
           p  == [op |-> op, psn |-> ps, wr |-> id, k |-> k, dmalen |-> dl,
                  rkey |-> rk]
<1>1. RequestPacket(q, id) = p
  BY DEF RequestPacket
<1>2. k \in 0 .. e.wr.pkts - 1
  <2>1. k \in Int /\ e.wr.pkts \in Int
    BY SwqeFields
  <2>2. 0 <= k /\ k < e.wr.pkts
    BY DEF InWindow
  <2> QED BY <2>1, <2>2
<1> HIDE DEF op, ps, dl, rk, k
<1>3. p.wr = id /\ p.op = op /\ p.psn = ps /\ p.k = k /\ p.dmalen = dl
  OBVIOUS
<1>4. p.rkey = rk
  BY Zenon
<1> HIDE DEF p
<1>5. p.rkey = (e.wr.fault # "remote")
  BY <1>4 DEF rk
<1>6. /\ p.psn = Masked(e.based_psn + p.k)
      /\ p.op = RequestOpcode(e.wr.op, e.wr.pkts, p.k)
      /\ p.dmalen = IF e.wr.op = "READ" THEN e.wr.pkts - p.k ELSE e.wr.pkts
      /\ p.k \in 0 .. e.wr.pkts - 1
  BY <1>2, <1>3 DEF op, ps, dl
<1>7. IsPacketOf(e, p)
  <2> HIDE DEF e
  <2>1. Numbered(e)
    BY DEF e
  <2> QED BY <1>5, <1>6, <2>1, Zenon DEF IsPacketOf
<1> QED BY <1>1, <1>3, <1>7

LEMMA TransmitAdvances ==
  ASSUME NEW q, ReqInv(q), Windows(q, Len(q.cq)), q.sending # <<>>,
         NEW id, id = Head(q.sending)
  PROVE  Advances(q, Transmit(q, id))
<1> DEFINE c   == Len(q.cq)
           e   == q.wqe[id]
           pkt == RequestPacket(q, id)
           tx  == <<pkt>>
           k   == IF e.wr.op = "READ" THEN e.sent_packets
                  ELSE e.sent_packets + 1
           f   == [e EXCEPT !.sent_packets = k]
           n   == IF e.wr.op = "READ" THEN q.nr_contig_requests
                  ELSE IF WithReth(pkt.op) THEN 1 ELSE q.nr_contig_requests + 1
           wqe == [q.wqe EXCEPT ![id] = f]
           q1  == [q EXCEPT !.tx = tx, !.wqe = wqe, !.nr_contig_requests = n]
           w   == Append(q.waiting, Head(q.sending))
           s   == Tail(q.sending)
           q2  == [q1 EXCEPT !.waiting = w, !.sending = s]
           t   == Transmit(q, id)
<1>1. /\ c \in Nat /\ Requester(q, c) /\ q \in ReqType /\ q.wqe \in Seq(SwqeType)
      /\ Len(q.wqe) \in Nat /\ DOMAIN q.wqe = 1 .. Len(q.wqe)
  BY ReqFields DEF ReqInv, Requester
<1>2. /\ id = c + Len(q.waiting) + 1 /\ id \in c + 1 .. Begun(q)
      /\ id \in 1 .. Len(q.wqe) /\ Len(w) = Len(q.waiting) + 1
      /\ Len(q.waiting) \in Nat
  BY <1>1, FirstSending
<1>3. e \in SwqeType
  BY <1>1, <1>2
<1>4. id \in Nat /\ Begun(q) \in Nat /\ Begun(q) <= Len(q.wqe)
  BY <1>1, <1>2, Numbers
<1>5. /\ InWindow(e) /\ e.sent_packets < e.wr.pkts /\ Numbered(e)
  <2> DEFINE m == Len(q.wqe)
             b == Begun(q)
             W == Len(q.waiting)
  <2>1. \A i \in c + 1 .. m :
          /\ InWindow(q.wqe[i])
          /\ i > c + W => q.wqe[i].sent_packets < q.wqe[i].wr.pkts
          /\ i <= b => Numbered(q.wqe[i])
    BY DEF Windows, Rest
  <2>2. /\ m \in Nat /\ b \in Nat /\ b <= m /\ W \in Nat /\ id = c + W + 1
        /\ id \in c + 1 .. b
    BY <1>1, <1>2, <1>4
  <2> HIDE DEF m, b, W, c
  <2>3. id \in c + 1 .. m /\ id > c + W /\ id <= b
    BY <1>1, <2>2
  <2> QED BY <2>1, <2>3
<1>6. pkt.wr = id /\ IsPacketOf(e, pkt) /\ pkt \in RequestType
  BY <1>3, <1>4, <1>5, RequestIsGenuine, RequestPacketType
<1>7. e.sent_packets \in Int /\ e.wr.pkts \in Int /\ e.ack_packets \in Int
  BY <1>3, SwqeFields
<1>8. t = IF e.wr.op # "READ" /\ e.sent_packets + 1 < e.wr.pkts THEN q1 ELSE q2
  <2> DEFINE p == [q EXCEPT
                     !.tx = tx,
                     !.wqe[id].sent_packets =
                        IF e.wr.op = "READ" THEN @ ELSE @ + 1,
                     !.nr_contig_requests =
                        IF e.wr.op = "READ" THEN @
                        ELSE IF WithReth(pkt.op) THEN 1 ELSE @ + 1]
  <2>1. t = IF e.wr.op # "READ" /\ e.sent_packets + 1 < e.wr.pkts
            THEN p ELSE ToWaiting(p)
    BY DEF Transmit
  <2>2. p = [q EXCEPT !.tx = tx, !.wqe[id].sent_packets = k,
                      !.nr_contig_requests = n]
    OBVIOUS
  <2>3. p = q1
    <3> HIDE DEF tx, k, n, p
    <3> QED BY <1>1, <2>2 DEF ReqType
  <2>4. ToWaiting(q1) = q2
    <3> HIDE DEF tx, wqe, n
    <3> QED BY <1>1 DEF ToWaiting, ReqType
  <2> HIDE DEF p, q1, q2
  <2> QED BY <2>1, <2>3, <2>4
<1> HIDE DEF pkt
<1>9. k \in Int /\ (e.wr.op = "READ" => k = e.sent_packets)
      /\ (e.wr.op # "READ" => k = e.sent_packets + 1)
  <2> HIDE DEF e
  <2> QED BY <1>7
<1> HIDE DEF k, n, tx
<1>10. /\ f \in SwqeType /\ f.wr = e.wr /\ f.based_psn = e.based_psn
       /\ f.expected_psn = e.expected_psn /\ f.ack_packets = e.ack_packets
       /\ f.sent_packets = k
  <2> HIDE DEF e
  <2> QED BY <1>3, <1>9 DEF SwqeType
<1>11. InWindow(f)
  <2> HIDE DEF e, f
  <2> QED BY <1>5, <1>7, <1>9, <1>10 DEF InWindow
<1> HIDE DEF f
<1>12. /\ Len(wqe) = Len(q.wqe) /\ wqe[id] = f
       /\ \A i \in 1 .. Len(q.wqe) : i # id => AlikeWqe(q.wqe[i], wqe[i])
  <2>1. DOMAIN wqe = 1 .. Len(q.wqe)
    BY <1>1
  <2>2. Len(wqe) = Len(q.wqe)
    <3> HIDE DEF wqe
    <3> QED BY <1>1, <2>1
  <2> QED BY <1>1, <1>2, <2>2 DEF AlikeWqe
<1> HIDE DEF wqe, w, s
<1>13. /\ q1.wqe = wqe /\ q1.submitted = q.submitted /\ q1.waiting = q.waiting
       /\ q1.tx = tx
       /\ q2.wqe = wqe /\ q2.submitted = q.submitted /\ q2.waiting = w
       /\ q2.tx = tx
  BY <1>1 DEF ReqType
<1> HIDE DEF q1, q2
<1>14. t.wqe = wqe /\ t.submitted = q.submitted /\ t.tx = tx
  BY <1>8, <1>13
<1>15. /\ Len(t.waiting) \in Nat /\ Len(q.waiting) <= Len(t.waiting)
       /\ id > c + Len(t.waiting) => f.sent_packets < f.wr.pkts
  <2> DEFINE W == Len(q.waiting)
             v == Len(w)
  <2>1. W \in Nat /\ v = W + 1 /\ id = c + W + 1
    BY <1>2
  <2>2. CASE e.wr.op # "READ" /\ e.sent_packets + 1 < e.wr.pkts
    <3>1. Len(t.waiting) = W /\ f.sent_packets < f.wr.pkts
      <4>1. k = e.sent_packets + 1
        BY <1>9, <2>2
      <4> QED BY <1>8, <1>10, <1>13, <2>2, <4>1
    <3>2. W \in Nat /\ W <= W
      <4> HIDE DEF W
      <4> QED BY <2>1
    <3> QED BY <3>1, <3>2
  <2>3. CASE ~ (e.wr.op # "READ" /\ e.sent_packets + 1 < e.wr.pkts)
    <3>1. Len(t.waiting) = v
      BY <1>8, <1>13, <2>3
    <3>2. v \in Nat /\ W <= v /\ ~ (id > c + v)
      <4> HIDE DEF W, v, c
      <4> QED BY <1>1, <2>1
    <3> QED BY <3>1, <3>2
  <2> QED BY <2>2, <2>3
<1> HIDE DEF t
<1>16. Rest(t, c, c) /\ Continues(q, t)
  <2>1. Rest(q, c, c) /\ c <= c /\ q.wqe[id].ack_packets <= f.ack_packets
    BY <1>1, <1>7, <1>10 DEF Windows
  <2> HIDE DEF c
  <2>2. /\ Len(t.wqe) = Len(q.wqe) /\ Len(t.submitted) = Len(q.submitted)
        /\ t.wqe[id] = f
        /\ \A i \in 1 .. Len(q.wqe) : i # id => AlikeWqe(q.wqe[i], t.wqe[i])
    BY <1>12, <1>14
  <2>3. /\ t.wqe[id].wr = q.wqe[id].wr
        /\ t.wqe[id].based_psn = q.wqe[id].based_psn
        /\ t.wqe[id].expected_psn = q.wqe[id].expected_psn
        /\ q.wqe[id].ack_packets <= t.wqe[id].ack_packets
        /\ InWindow(t.wqe[id])
        /\ id > c + Len(t.waiting) => t.wqe[id].sent_packets < t.wqe[id].wr.pkts
    BY <1>10, <1>11, <1>15, <2>1, <2>2
  <2> QED BY <1>1, <1>2, <1>15, <2>1, <2>2, <2>3, ChangeOne
<1>17. Requester(t, c) /\ t.cq = q.cq
  <2>1. id \in DOMAIN q.wqe
    BY <1>1, <1>2
  <2> HIDE DEF c
  <2> QED BY <1>1, <2>1, TransmitType DEF t
<1>18. t.tx \in Seq(Requests(t))
  <2>1. Follows(e, t.wqe[id]) /\ Len(t.wqe) = Len(q.wqe)
    BY <1>2, <1>12, <1>14, <1>16 DEF Continues
  <2>2. IsPacketOf(t.wqe[id], pkt)
    <3> HIDE DEF e
    <3> QED BY <1>5, <1>6, <2>1 DEF Follows, IsPacketOf, Numbered
  <2>3. pkt \in Requests(t)
    BY <1>2, <1>6, <2>1, <2>2 DEF Requests, Genuine
  <2> QED BY <1>14, <2>3 DEF tx
<1> QED BY <1>16, <1>17, <1>18 DEF Advances, Windows, t

LEMMA SetStatusAdvances ==
  ASSUME NEW q, ReqInv(q), Windows(q, Len(q.cq)), NEW id \in DOMAIN q.wqe,
         NEW status \in Statuses
  PROVE  Advances(q, SetStatus(q, id, status))
<1>1. Len(q.cq) \in Nat /\ Requester(q, Len(q.cq))
  BY ReqFields DEF ReqInv, Requester
<1>2. /\ Still(q, SetStatus(q, id, status))
      /\ Requester(SetStatus(q, id, status), Len(q.cq))
      /\ SetStatus(q, id, status).cq = q.cq
  BY <1>1, SetStatusStill, SetStatusType
<1> QED BY <1>2, AdvancesStill DEF Requester

LEMMA process_send_wrAdvances ==
  ASSUME NEW q, ReqInv(q), Windows(q, Len(q.cq)), q.sending # <<>>,
         q.wqe[Head(q.sending)].status # "SUCCESS" => q.waiting = <<>>
  PROVE  Advances(q, process_send_wr(q))
<1> DEFINE id == Head(q.sending)
           s  == Tail(q.sending)
           p  == [q EXCEPT !.sending = s]
<1>1. /\ Len(q.cq) \in Nat /\ Requester(q, Len(q.cq)) /\ q \in ReqType
      /\ ReqInv(process_send_wr(q)) /\ q.sending \in Seq(Nat)
  BY process_send_wrType, ReqFields DEF ReqInv, Requester
<1>2. id \in DOMAIN q.wqe
  BY <1>1, ListsExist
<1>3. CASE q.wqe[id].status = "SUCCESS"
  <2>1. process_send_wr(q) = pib_process_rc_qp_request(q, id)
    BY <1>3 DEF process_send_wr
  <2>2. /\ "RETRY_EXC_ERR" \in Statuses /\ "RNR_RETRY_EXC_ERR" \in Statuses
        /\ "LOC_PROT_ERR" \in Statuses
    BY DEF Statuses
  <2>3. Advances(q, Transmit(q, id))
    BY TransmitAdvances
  <2> HIDE DEF id
  <2>4. /\ Advances(q, SetStatus(q, id, "RETRY_EXC_ERR"))
        /\ Advances(q, SetStatus(q, id, "RNR_RETRY_EXC_ERR"))
        /\ Advances(q, SetStatus(q, id, "LOC_PROT_ERR"))
    BY <1>2, <2>2, SetStatusAdvances
  <2> QED BY <2>1, <2>3, <2>4 DEF pib_process_rc_qp_request
<1>4. CASE q.wqe[id].status # "SUCCESS"
  <2>1. process_send_wr(q) = CompletionError(p, id)
    BY <1>4 DEF process_send_wr
  <2>2. s \in Seq(Nat)
    BY <1>1
  <2> HIDE DEF s
  <2>3. p \in ReqType /\ Alike(q, p) /\ p.tx = q.tx
    BY <1>1, <2>2 DEF ReqType, Alike, AlikeWqe
  <2> HIDE DEF p, id
  <2> QED BY <1>1, <2>1, <2>3, FailAdvances
<1> QED
  BY <1>3, <1>4

LEMMA AdvancesRefl ==
  ASSUME NEW q, ReqInv(q), Windows(q, Len(q.cq))
  PROVE  Advances(q, q)
<1>1. q \in ReqType
  BY DEF ReqInv, Requester
<1>2. Still(q, q)
  BY AlikeRefl DEF Still
<1> QED BY <1>1, <1>2, AdvancesStill

LEMMA SendFirstAdvances ==
  ASSUME NEW q, ReqInv(q), Windows(q, Len(q.cq))
  PROVE  Advances(q, SendFirst(q))
<1>1. CASE q.sending = <<>> \/ HeldBack(q)
  BY <1>1, AdvancesRefl DEF SendFirst
<1>2. CASE ~ (q.sending = <<>> \/ HeldBack(q))
  <2>1. /\ q.sending # <<>>
        /\ q.wqe[Head(q.sending)].status # "SUCCESS" => q.waiting = <<>>
    BY <1>2 DEF HeldBack
  <2>2. SendFirst(q) = process_send_wr(q)
    BY <1>2 DEF SendFirst
  <2> QED BY <2>1, <2>2, process_send_wrAdvances
<1> QED
  BY <1>1, <1>2

LEMMA process_new_send_wrAdvances ==
  ASSUME NEW q, ReqInv(q), Windows(q, Len(q.cq)), q.submitted # <<>>
  PROVE  Advances(q, process_new_send_wr(q))
<1> DEFINE c  == Len(q.cq)
           id == Head(q.submitted)
           w  == q.wqe[id].wr
           b  == q.expected_psn
           m  == q.expected_psn + w.pkts
           nr == IF IsRd(q.wqe[id]) THEN q.nr_rd_atomic + 1 ELSE q.nr_rd_atomic
           z  == 0
           e  == [q.wqe[id] EXCEPT !.based_psn = b, !.expected_psn = m,
                                   !.ack_packets = z, !.sent_packets = z,
                                   !.retry_cnt = RetryCnt,
                                   !.rnr_retry = RnrRetry]
           wqe == [q.wqe EXCEPT ![id] = e]
           u  == Tail(q.submitted)
           s  == Append(q.sending, id)
           p  == [q EXCEPT !.submitted = u, !.sending = s,
                           !.nr_rd_atomic = nr, !.expected_psn = m, !.wqe = wqe]
           n  == Len(q.wqe)
           v  == Len(q.waiting)
           x  == Begun(q)
<1>1. /\ c \in Nat /\ Requester(q, c) /\ q \in ReqType
      /\ q.wqe \in Seq(SwqeType) /\ n \in Nat /\ v \in Nat
      /\ DOMAIN q.wqe = 1 .. n
  BY ReqFields DEF ReqInv, Requester
<1>2. x \in Nat /\ c <= x /\ x = c + Len(Started(q)) /\ v <= Len(Started(q))
      /\ Len(Started(q)) \in Nat
  <2> DEFINE y == Len(q.sending)
             l == Len(Started(q))
  <2>1. l = v + y /\ y \in Nat /\ l \in Nat
    BY <1>1, ListsExist, ReqFields
  <2>2. v <= l
    <3> HIDE DEF v, y, l
    <3> QED BY <1>1, <2>1
  <2> QED BY <1>1, <2>1, <2>2, Numbers
<1>3. id = x + 1 /\ id \in 1 .. n /\ q.wqe[id] \in SwqeType
  BY <1>1, FirstSubmitted, FirstWqe
<1>4. Starts(q, process_new_send_wr(q), x + 1)
  BY <1>1, process_new_send_wrStarts
<1>5. process_new_send_wr(q) = p
  BY <1>1, SMTT(30) DEF process_new_send_wr, ReqType, NumOfPsns, IsRd
<1>6. Begun(p) = id
  BY <1>3, <1>4, <1>5 DEF Starts
<1>7. /\ Requester(p, c) /\ p.cq = q.cq /\ p \in ReqType
  BY <1>1, <1>5, process_new_send_wrType DEF Requester
<1>8. /\ b \in Int /\ w.pkts \in Nat \ {0} /\ w \in WrType
  <2>1. b \in Int
    BY <1>1 DEF ReqType
  <2>2. w \in WrType
    BY <1>3, SwqeFields
  <2> QED BY <2>1, <2>2 DEF WrType
<1>9. /\ e.wr = w /\ e.based_psn = b /\ e.expected_psn = m /\ e.ack_packets = 0
      /\ e.sent_packets = 0
  <2> HIDE DEF id, b, m, z
  <2> QED BY <1>3 DEF SwqeType, z
<1>10. InWindow(e) /\ e.sent_packets < e.wr.pkts /\ Numbered(e)
  <2> DEFINE k == w.pkts
  <2>1. k \in Nat \ {0} /\ e.wr.pkts = k /\ m = b + k
    BY <1>8, <1>9
  <2> HIDE DEF k, e, b, m
  <2> QED BY <1>8, <1>9, <2>1 DEF InWindow, Numbered
<1> HIDE DEF e
<1>11. /\ Len(wqe) = n /\ wqe[id] = e
       /\ \A i \in 1 .. n : i # id => wqe[i] = q.wqe[i]
  <2> HIDE DEF id
  <2>1. DOMAIN wqe = 1 .. n
    BY <1>1
  <2>2. Len(wqe) = n
    <3> HIDE DEF wqe, n
    <3> QED BY <1>1, <2>1
  <2> QED BY <1>1, <1>3, <2>2
<1> HIDE DEF wqe, u, s, nr, m
<1>12. p.wqe = wqe /\ p.tx = q.tx /\ p.waiting = q.waiting
  BY <1>1 DEF ReqType
<1> HIDE DEF p
<1>13. \A k \in c + 1 .. n :
        /\ InWindow(q.wqe[k])
        /\ k > c + v => q.wqe[k].sent_packets < q.wqe[k].wr.pkts
        /\ k <= x => Numbered(q.wqe[k])
        /\ k > x => Fresh(q.wqe[k])
  BY DEF Windows, Rest
<1>14. \A k \in 1 .. n : q.wqe[k].ack_packets \in Int
  BY <1>1, SwqeFields
<1> HIDE DEF c, n, v, x, id
<1>15. ASSUME NEW i \in c + 1 .. n
       PROVE  /\ InWindow(wqe[i])
              /\ i > c + v => wqe[i].sent_packets < wqe[i].wr.pkts
              /\ i <= id => Numbered(wqe[i])
              /\ i > id => Fresh(wqe[i])
  <2>1. i \in 1 .. n
    BY <1>1
  <2>2. CASE i = id
    <3>1. ~ (i > id)
      BY <1>2, <1>3, <2>2
    <3> QED BY <1>10, <1>11, <2>2, <3>1
  <2>3. CASE i # id
    <3>1. (i <= id => i <= x) /\ (i > id => i > x)
      BY <1>1, <1>2, <1>3, <2>3
    <3>2. wqe[i] = q.wqe[i]
      BY <1>11, <2>1, <2>3
    <3> QED BY <1>13, <3>1, <3>2
  <2> QED BY <2>2, <2>3
<1>16. Windows(p, c)
  BY <1>6, <1>11, <1>12, <1>15 DEF Windows, Rest, v
<1>17. ASSUME NEW i \in 1 .. n PROVE Follows(q.wqe[i], wqe[i])
  <2>1. CASE i = id
    <3>1. id \in c + 1 .. n /\ id > x
      BY <1>1, <1>2, <1>3
    <3>2. Fresh(q.wqe[id])
      BY <1>13, <3>1
    <3>3. q.wqe[id].wr.pkts \in Nat \ {0}
      BY <1>8
    <3>4. ~Numbered(q.wqe[id])
      BY <3>2, <3>3 DEF Fresh, Numbered
    <3> QED BY <1>9, <1>11, <2>1, <3>2, <3>4 DEF Follows, Fresh
  <2>2. CASE i # id
    BY <1>11, <1>14, <2>2 DEF Follows
  <2> QED BY <2>1, <2>2
<1>18. Continues(q, p)
  BY <1>1, <1>11, <1>12, <1>17 DEF Continues, n
<1>19. Advances(q, p)
  <2>1. Windows(p, Len(p.cq))
    BY <1>7, <1>16 DEF c
  <2> QED BY <1>1, <1>7, <1>12, <1>18, <2>1, AdvancesIntro
<1> QED BY <1>5, <1>19

LEMMA StartNextAdvances ==
  ASSUME NEW q, ReqInv(q), Windows(q, Len(q.cq))
  PROVE  Advances(q, StartNext(q))
<1>1. CASE q.sending = <<>> /\ MayStart(q)
  <2>1. q.submitted # <<>> /\ StartNext(q) = process_new_send_wr(q)
    BY <1>1 DEF MayStart, StartNext
  <2> QED BY <2>1, process_new_send_wrAdvances
<1>2. CASE ~ (q.sending = <<>> /\ MayStart(q))
  BY <1>2, AdvancesRefl DEF StartNext
<1> QED
  BY <1>1, <1>2

LEMMA ResendAdvances ==
  ASSUME NEW q, ReqInv(q), Windows(q, Len(q.cq))
  PROVE  Advances(q, Resend(q)) /\ ReqInv(Resend(q))
<1>1. q \in ReqType /\ Len(q.cq) \in Nat /\ Requester(q, Len(q.cq))
  BY ReqFields DEF ReqInv, Requester
<1>2. /\ Requester(Resend(q), Len(q.cq)) /\ Resend(q).cq = q.cq
      /\ Windows(Resend(q), Len(q.cq)) /\ Continues(q, Resend(q))
      /\ Resend(q).tx = q.tx
  BY <1>1, ResendType, ResendWindows
<1> DEFINE p == Resend(q)
<1>3. p \in ReqType /\ Windows(p, Len(p.cq)) /\ ReqInv(p)
  BY <1>2 DEF Requester, ReqInv
<1> HIDE DEF p
<1>4. Advances(q, p)
  BY <1>1, <1>2, <1>3, AdvancesIntro DEF p
<1> QED BY <1>3, <1>4 DEF p

LEMMA LocalAckTimeoutAdvances ==
  ASSUME NEW q, ReqInv(q), Windows(q, Len(q.cq)), q.waiting # <<>>
  PROVE  Advances(q, LocalAckTimeout(q))
<1> DEFINE id == Head(q.waiting)
           k  == q.wqe[id].retry_cnt - 1
           e  == [q.wqe[id] EXCEPT !.retry_cnt = k]
           p  == [q EXCEPT !.wqe[id] = e]
<1>1. /\ q \in ReqType /\ Len(q.cq) \in Nat /\ Requester(q, Len(q.cq))
  BY ReqFields DEF ReqInv, Requester
<1>2. q.wqe[id] \in SwqeType
  BY <1>1, FirstWqe
<1>3. k \in Int
  BY <1>2, SwqeFields
<1>4. LocalAckTimeout(q) = Resend(p)
  BY DEF LocalAckTimeout
<1> HIDE DEF k, id
<1>5. e \in SwqeType /\ AlikeWqe(q.wqe[id], e)
  BY <1>2, <1>3 DEF SwqeType, AlikeWqe
<1> HIDE DEF e
<1>6. Still(q, p) /\ Requester(p, Len(q.cq)) /\ p.cq = q.cq
  BY <1>1, <1>5, StillSet, WqeSet
<1> HIDE DEF p
<1>7. p \in ReqType /\ ReqInv(p) /\ Advances(q, p)
  BY <1>6, AdvancesStill DEF ReqInv, Requester
<1>8. Advances(p, Resend(p)) /\ Resend(p) \in ReqType
  <2>1. Windows(p, Len(p.cq))
    BY <1>7 DEF Advances
  <2>2. Advances(p, Resend(p)) /\ ReqInv(Resend(p))
    BY <1>7, <2>1, ResendAdvances
  <2> QED BY <2>2 DEF ReqInv, Requester
<1> QED
  BY <1>1, <1>4, <1>7, <1>8, AdvancesTrans

-----------------------------------------------------------------------------
(* Responses *)

LEMMA PostponeAdvances ==
  ASSUME NEW q, ReqInv(q), Windows(q, Len(q.cq))
  PROVE  /\ Advances(q, postpone_local_ack_timeout(q))
         /\ postpone_local_ack_timeout(q) \in ReqType
<1>1. q \in ReqType /\ Len(q.cq) \in Nat /\ Requester(q, Len(q.cq))
  BY ReqFields DEF ReqInv, Requester
<1> DEFINE p == postpone_local_ack_timeout(q)
<1>2. Requester(p, Len(q.cq)) /\ p.cq = q.cq /\ Still(q, p)
  BY <1>1, PostponeType, PostponeStill
<1> HIDE DEF p
<1>3. p \in ReqType
  BY <1>2 DEF Requester
<1>4. Advances(q, p)
  BY <1>2, <1>3, AdvancesStill
<1> QED BY <1>3, <1>4 DEF p

LEMMA CompletedAdvances ==
  ASSUME NEW q, ReqInv(q), NEW n \in 0 .. Len(Started(q)),
         Rest(q, Len(q.cq), Len(q.cq) + n)
  PROVE  /\ Advances(q, CompleteStarted(q, n))
         /\ Windows(CompleteStarted(q, n), Len(CompleteStarted(q, n).cq))
         /\ CompleteStarted(q, n) \in ReqType
<1> DEFINE p == CompleteStarted(q, n)
<1>1. q \in ReqType /\ ReqInv(p)
  BY CompleteStartedType DEF ReqInv, Requester
<1>2. Windows(p, Len(p.cq)) /\ Alike(q, p) /\ p.tx = q.tx
  BY CompleteStartedWindows
<1> HIDE DEF p
<1>3. p \in ReqType
  BY <1>1 DEF ReqInv, Requester
<1>4. Continues(q, p)
  BY <1>1, <1>2, AlikeContinues
<1>5. Advances(q, p)
  BY <1>1, <1>2, <1>3, <1>4, AdvancesIntro
<1> QED BY <1>2, <1>3, <1>5 DEF p

LEMMA CompleteRdAtomicAdvances ==
  ASSUME NEW q, ReqInv(q), Len(Started(q)) >= 1,
         Rest(q, Len(q.cq), Len(q.cq) + 1)
  PROVE  Advances(q, CompleteRdAtomic(q))
<1> DEFINE n == 1
           r == CompleteStarted(q, n)
           k == r.nr_rd_atomic - 1
           p == [r EXCEPT !.nr_rd_atomic = k]
<1>1. q \in ReqType /\ Len(q.cq) \in Nat /\ Len(Started(q)) \in Nat
  BY ReqFields, ListsExist DEF ReqInv, Requester
<1>2. n \in 0 .. Len(Started(q)) /\ Rest(q, Len(q.cq), Len(q.cq) + n)
  BY <1>1
<1>3. CompleteRdAtomic(q) = postpone_local_ack_timeout(p)
  BY DEF CompleteRdAtomic
<1>4. Advances(q, r) /\ Windows(r, Len(r.cq)) /\ r \in ReqType /\ ReqInv(r)
  <2> HIDE DEF n
  <2> QED BY <1>2, CompletedAdvances, CompleteStartedType
<1> HIDE DEF n, r
<1>5. k \in Int
  <2>1. r.nr_rd_atomic \in Int
    BY <1>4 DEF ReqType
  <2> QED BY <2>1
<1> HIDE DEF k
<1>6. p \in ReqType /\ p.cq = r.cq
  BY <1>4, <1>5 DEF ReqType
<1>7. Still(r, p)
  BY <1>4 DEF Still, Alike, AlikeWqe, ReqType
<1>8. ReqInv(p)
  <2>1. /\ p.wqe = r.wqe /\ p.waiting = r.waiting /\ p.sending = r.sending
        /\ p.submitted = r.submitted /\ p.state = r.state
    BY <1>4 DEF ReqType
  <2> HIDE DEF p
  <2> QED BY <1>4, <1>6, <2>1 DEF ReqInv, Requester, OrderedFrom, Drained
<1> HIDE DEF p
<1>9. Advances(r, p)
  BY <1>4, <1>6, <1>7, AdvancesStill
<1>10. Advances(p, postpone_local_ack_timeout(p))
       /\ postpone_local_ack_timeout(p) \in ReqType
  BY <1>8, <1>9, PostponeAdvances DEF Advances
<1> QED BY <1>1, <1>3, <1>4, <1>6, <1>9, <1>10, AdvancesTrans

LEMMA FailFirstAdvances ==
  ASSUME NEW q, ReqInv(q), Len(Started(q)) >= 1, NEW id, id = Len(q.cq) + 1
  PROVE  Advances(q, CompletionError(DropStarted(q, 1), id))
<1> DEFINE n == 1
           p == DropStarted(q, n)
<1>1. /\ q \in ReqType /\ Len(q.cq) \in Nat /\ Requester(q, Len(q.cq))
      /\ Len(Started(q)) \in Nat
  BY ReqFields, ListsExist DEF ReqInv, Requester
<1>2. ReqInv(CompletionError(p, id)) /\ n \in 0 .. Len(Started(q))
  BY <1>1, FailFirst
<1> HIDE DEF n
<1>3. p \in ReqType /\ Alike(q, p) /\ p.tx = q.tx
  <2>1. Requester(p, Len(q.cq) + n)
    BY <1>1, <1>2, DropStartedType
  <2> QED BY <1>1, <1>2, <2>1, DropStartedAlike DEF Requester
<1> HIDE DEF p
<1>4. Advances(q, CompletionError(p, id))
  BY <1>1, <1>2, <1>3, FailAdvances
<1> QED BY <1>4 DEF p, n

(* The oldest started WQE gets new counters.                               *)
Recounts(q, d, id, f) ==
  /\ f \in SwqeType
  /\ f.wr = q.wqe[id].wr /\ f.based_psn = q.wqe[id].based_psn
  /\ f.expected_psn = q.wqe[id].expected_psn
  /\ q.wqe[id].ack_packets <= f.ack_packets
  /\ id > d => /\ InWindow(f)
               /\ id > Len(q.cq) + Len(q.waiting) => f.sent_packets < f.wr.pkts

Recounted(q, d, p) ==
  /\ Rest(p, Len(q.cq), d) /\ Continues(q, p) /\ p.tx = q.tx
  /\ p.cq = q.cq /\ ReqInv(p) /\ Started(p) = Started(q) /\ p \in ReqType

LEMMA CountAdvances ==
  ASSUME NEW q, ReqInv(q), NEW d \in Nat, Len(q.cq) <= d,
         Rest(q, Len(q.cq), d), Len(Started(q)) >= 1,
         NEW id, id = Len(q.cq) + 1, NEW f, Recounts(q, d, id, f)
  PROVE  Recounted(q, d, [q EXCEPT !.wqe[id] = f])
<1> DEFINE c   == Len(q.cq)
           wqe == [q.wqe EXCEPT ![id] = f]
           p   == [q EXCEPT !.wqe[id] = f]
<1>1. /\ q \in ReqType /\ c \in Nat /\ Requester(q, c)
      /\ q.wqe \in Seq(SwqeType) /\ Len(q.wqe) \in Nat
      /\ DOMAIN q.wqe = 1 .. Len(q.wqe) /\ Len(q.waiting) \in Nat
      /\ Len(Started(q)) \in Nat /\ f \in SwqeType
  BY ReqFields, ListsExist DEF ReqInv, Requester, Recounts
<1>2. id \in c + 1 .. Begun(q) /\ id \in 1 .. Len(q.wqe)
  <2> DEFINE b == Begun(q)
             l == Len(Started(q))
             m == Len(q.wqe)
  <2>1. b \in Nat /\ b = c + l /\ b <= m /\ l >= 1 /\ l \in Nat /\ m \in Nat
    BY <1>1, Numbers
  <2> HIDE DEF b, l, m, c
  <2>2. c + 1 \in c + 1 .. b /\ c + 1 \in 1 .. m
    BY <1>1, <2>1
  <2> QED BY <2>2 DEF b, m, c
<1>3. /\ Len(wqe) = Len(q.wqe) /\ wqe[id] = f
      /\ \A i \in 1 .. Len(q.wqe) : i # id => AlikeWqe(q.wqe[i], wqe[i])
  <2> HIDE DEF c
  <2>1. DOMAIN wqe = 1 .. Len(q.wqe)
    BY <1>1
  <2>2. Len(wqe) = Len(q.wqe)
    <3> HIDE DEF wqe
    <3> QED BY <1>1, <2>1
  <2> QED BY <1>1, <1>2, <2>2 DEF AlikeWqe
<1>4. p = [q EXCEPT !.wqe = wqe]
  OBVIOUS
<1>5. ReqInv(p) /\ Started(p) = Started(q) /\ p \in ReqType
  BY <1>1, WqeSetInv DEF ReqInv, Requester
<1> HIDE DEF wqe, p
<1>6. /\ p.wqe = wqe /\ p.submitted = q.submitted /\ p.waiting = q.waiting
      /\ p.tx = q.tx /\ p.cq = q.cq
  BY <1>1, <1>4 DEF ReqType
<1>7. /\ Len(p.wqe) = Len(q.wqe) /\ Len(p.submitted) = Len(q.submitted)
      /\ Len(p.waiting) \in Nat /\ Len(q.waiting) <= Len(p.waiting)
      /\ p.wqe[id] = f
      /\ \A i \in 1 .. Len(q.wqe) : i # id => AlikeWqe(q.wqe[i], p.wqe[i])
  BY <1>1, <1>3, <1>6
<1>8. Rest(p, c, d) /\ Continues(q, p)
  <2>1. /\ p.wqe[id].wr = q.wqe[id].wr
        /\ p.wqe[id].based_psn = q.wqe[id].based_psn
        /\ p.wqe[id].expected_psn = q.wqe[id].expected_psn
        /\ q.wqe[id].ack_packets <= p.wqe[id].ack_packets
        /\ id > d => /\ InWindow(p.wqe[id])
                     /\ id > c + Len(p.waiting) =>
                          p.wqe[id].sent_packets < p.wqe[id].wr.pkts
    BY <1>6, <1>7 DEF Recounts
  <2>2. c <= d /\ Rest(q, c, d)
    OBVIOUS
  <2> HIDE DEF c
  <2> QED BY <1>1, <1>2, <1>7, <2>1, <2>2, ChangeOne
<1> QED BY <1>5, <1>6, <1>8 DEF p, Recounted

LEMMA FirstStarted ==
  ASSUME NEW q, ReqInv(q), Windows(q, Len(q.cq)), Len(Started(q)) >= 1,
         NEW id, id = Len(q.cq) + 1
  PROVE  /\ q.wqe[id] \in SwqeType /\ InWindow(q.wqe[id]) /\ Numbered(q.wqe[id])
         /\ id > Len(q.cq) + Len(q.waiting) =>
              q.wqe[id].sent_packets < q.wqe[id].wr.pkts
         /\ id \in DOMAIN q.wqe
<1> DEFINE c == Len(q.cq)
           b == Begun(q)
           l == Len(Started(q))
           m == Len(q.wqe)
<1>1. /\ q \in ReqType /\ c \in Nat /\ Requester(q, c)
      /\ q.wqe \in Seq(SwqeType) /\ m \in Nat /\ DOMAIN q.wqe = 1 .. m
      /\ b \in Nat /\ b = c + l /\ b <= m /\ l >= 1 /\ l \in Nat
  BY ReqFields, ListsExist, Numbers DEF ReqInv, Requester
<1>2. id \in c + 1 .. m /\ id <= b /\ id \in 1 .. m
  <2>1. id = c + 1
    OBVIOUS
  <2> HIDE DEF b, l, m, c
  <2> QED BY <1>1, <2>1
<1>3. q.wqe[id] \in SwqeType
  BY <1>1, <1>2
<1> QED BY <1>1, <1>2, <1>3 DEF Windows, Rest

LEMMA AckOneAdvances ==
  ASSUME NEW q, ReqInv(q), Windows(q, Len(q.cq)), Len(Started(q)) >= 1,
         NEW id, id = Len(q.cq) + 1, NEW v \in Int, 0 <= v,
         q.wqe[id].ack_packets < v, v < q.wqe[id].wr.pkts,
         q.wqe[id].wr.op # "READ"
  PROVE  Advances(q, postpone_local_ack_timeout(
                       [q EXCEPT !.wqe[id].ack_packets = v]))
<1> DEFINE e == q.wqe[id]
           f == [e EXCEPT !.ack_packets = v]
           p == [q EXCEPT !.wqe[id] = f]
           c == Len(q.cq)
<1>1. /\ e \in SwqeType /\ InWindow(e)
      /\ id > Len(q.cq) + Len(q.waiting) => e.sent_packets < e.wr.pkts
  BY FirstStarted
<1>2. q \in ReqType /\ c \in Nat
  BY ReqFields DEF ReqInv, Requester
<1>3. /\ f \in SwqeType /\ f.wr = e.wr /\ f.based_psn = e.based_psn
      /\ f.expected_psn = e.expected_psn /\ f.ack_packets = v
      /\ f.sent_packets = e.sent_packets
  <2> HIDE DEF e
  <2> QED BY <1>1 DEF SwqeType
<1>4. e.ack_packets \in Int /\ e.ack_packets < v /\ v < e.wr.pkts /\ e.wr.op # "READ"
  BY <1>1, SwqeFields
<1>5. [q EXCEPT !.wqe[id].ack_packets = v] = p
  OBVIOUS
<1> HIDE DEF f
<1>6. InWindow(f) /\ e.ack_packets <= f.ack_packets
  <2> HIDE DEF e
  <2> QED BY <1>1, <1>3, <1>4 DEF InWindow
<1>7. /\ Rest(p, c, c) /\ Continues(q, p) /\ p.tx = q.tx
      /\ p.cq = q.cq /\ ReqInv(p) /\ Started(p) = Started(q) /\ p \in ReqType
  <2>1. Rest(q, c, c) /\ c <= c
    BY <1>2 DEF Windows
  <2>2. Recounts(q, c, id, f)
    BY <1>1, <1>3, <1>6 DEF Recounts
  <2>3. Recounted(q, c, p)
    BY <1>2, <2>1, <2>2, CountAdvances
  <2> QED BY <2>3 DEF Recounted
<1> HIDE DEF p
<1>8. Windows(p, Len(p.cq))
  BY <1>7 DEF Windows
<1>9. Advances(q, p)
  BY <1>2, <1>7, <1>8, AdvancesIntro
<1>10. Advances(p, postpone_local_ack_timeout(p))
       /\ postpone_local_ack_timeout(p) \in ReqType
  BY <1>7, <1>8, PostponeAdvances
<1> QED BY <1>2, <1>5, <1>7, <1>9, <1>10, AdvancesTrans

LEMMA AcknowledgeMore ==
  ASSUME NEW e \in SwqeType, NEW psn \in Int,
         process_acknowledge(e, psn) = "CONTINUE"
  PROVE  LET v == get_psn_diff(psn, e.based_psn) + 1
         IN  /\ v \in Int /\ 0 <= v /\ e.ack_packets < v /\ v < e.wr.pkts
             /\ e.wr.op # "READ"
<1> DEFINE d == get_psn_diff(psn, e.based_psn)
<1>1. /\ d \in Int /\ e.ack_packets \in Int /\ e.wr.pkts \in Int
  BY SwqeFields, PsnDiffType
<1>2. /\ ~ (d < 0 \/ d + 1 <= e.ack_packets) /\ d + 1 < e.wr.pkts
      /\ ~pib_is_wr_opcode_rd_atomic(e.wr.op)
  <2> HIDE DEF d
  <2> QED BY DEF process_acknowledge, d
<1> HIDE DEF d
<1>3. d + 1 \in Int /\ 0 <= d + 1 /\ e.ack_packets < d + 1
  BY <1>1, <1>2
<1>4. e.wr.op # "READ"
  BY <1>2 DEF pib_is_wr_opcode_rd_atomic
<1> QED BY <1>2, <1>3, <1>4 DEF d

LEMMA receive_ACK_responseAdvances ==
  ASSUME NEW q, ReqInv(q), Windows(q, Len(q.cq)), NEW psn \in Int
  PROVE  Advances(q, receive_ACK_response(q, psn))
<1> DEFINE all == Started(q)
           out == [i \in DOMAIN all |-> process_acknowledge(q.wqe[all[i]], psn)]
           cut == {i \in DOMAIN all : out[i] # "COMPLETE"}
           n   == IF cut = {} THEN Len(all) ELSE Min(cut) - 1
           q1  == CompleteStarted(q, n)
           id  == all[n + 1]
           c   == Len(q.cq)
           v   == get_psn_diff(psn, q.wqe[id].based_psn) + 1
           q2  == [q1 EXCEPT !.wqe[id].ack_packets = v]
           q3  == SetStatus(q1, id, "BAD_RESP_ERR")
           o   == out[n + 1]
           f   == receive_ACK_response(q, psn)
<1>1. /\ q \in ReqType /\ c \in Nat /\ Requester(q, c) /\ all \in Seq(Nat)
      /\ Len(all) \in Nat /\ DOMAIN all = 1 .. Len(all) /\ Len(q.wqe) \in Nat
      /\ \A i \in 1 .. Len(all) : all[i] = c + i /\ all[i] \in DOMAIN q.wqe
  <2>1. q \in ReqType /\ c \in Nat /\ Requester(q, c) /\ Len(q.wqe) \in Nat
    BY ReqFields DEF ReqInv, Requester
  <2>2. /\ all \in Seq(Nat) /\ Len(all) \in Nat
        /\ \A i \in 1 .. Len(all) : all[i] = c + i /\ all[i] \in DOMAIN q.wqe
    BY <2>1, ListsExist
  <2> HIDE DEF all, c
  <2>3. DOMAIN all = 1 .. Len(all)
    BY <2>2
  <2> QED BY <2>1, <2>2, <2>3
<1>2. \/ f = postpone_local_ack_timeout(q1)
      \/ cut # {} /\ \/ o = "CONTINUE" /\ f = postpone_local_ack_timeout(q2)
                     \/ f = CompletionError(DropStarted(q1, 1), id)
                     \/ f = CompletionError(DropStarted(q3, 1), id)
  <2> HIDE DEF q1, q2, q3, id
  <2>1. f = IF cut = {} THEN postpone_local_ack_timeout(q1)
            ELSE CASE o = "ERROR" -> CompletionError(DropStarted(q1, 1), id)
                   [] o = "BAD_RESP" -> CompletionError(DropStarted(q3, 1), id)
                   [] o = "CONTINUE" -> postpone_local_ack_timeout(q2)
                   [] OTHER -> postpone_local_ack_timeout(q1)
    BY DEF receive_ACK_response, q1, q2, q3, id
  <2> DEFINE empty == cut = {}
  <2> HIDE DEF o, empty, all, out, cut, n, f
  <2>2. f = IF empty THEN postpone_local_ack_timeout(q1)
            ELSE CASE o = "ERROR" -> CompletionError(DropStarted(q1, 1), id)
                   [] o = "BAD_RESP" -> CompletionError(DropStarted(q3, 1), id)
                   [] o = "CONTINUE" -> postpone_local_ack_timeout(q2)
                   [] OTHER -> postpone_local_ack_timeout(q1)
    BY <2>1 DEF empty
  <2>3. CASE o \notin {"ERROR", "BAD_RESP", "CONTINUE"}
    BY <2>2, <2>3 DEF empty
  <2>4. CASE o = "ERROR"
    BY <2>2, <2>4 DEF empty
  <2>5. CASE o = "BAD_RESP"
    BY <2>2, <2>5 DEF empty
  <2>6. CASE o = "CONTINUE"
    BY <2>2, <2>6 DEF empty
  <2> QED BY <2>3, <2>4, <2>5, <2>6
<1>3. n \in 0 .. Len(all) /\ n \in Nat /\ (cut # {} => n + 1 \in 1 .. Len(all))
  <2>1. cut \subseteq 1 .. Len(all)
    BY <1>1
  <2>2. cut # {} => Min(cut) \in cut /\ \A i \in cut : Min(cut) <= i
    <3>1. cut \subseteq Nat
      BY <1>1, <2>1
    <3> HIDE DEF cut
    <3> QED BY <3>1, MinIsElement
  <2> HIDE DEF cut, all
  <2> QED BY <1>1, <2>1, <2>2
<1>4. cut # {} => o = process_acknowledge(q.wqe[id], psn)
  <2> HIDE DEF n, cut, all
  <2> QED BY <1>1, <1>3, SMTT(30)
<1> HIDE DEF cut, out, n, o, f
<1>5. /\ ReqInv(q1) /\ Len(q1.cq) = c + n /\ q1.wqe = q.wqe
      /\ Len(Started(q1)) = Len(all) - n
  BY <1>1, <1>3, CompleteStartedType
<1>6. Advances(q, q1) /\ Windows(q1, Len(q1.cq)) /\ q1 \in ReqType
  <2>1. c + n \in Nat /\ c <= c + n
    <3> HIDE DEF c, all
    <3> QED BY <1>1, <1>3
  <2>2. Rest(q, c, c + n)
    <3> HIDE DEF c
    <3>1. Windows(q, c)
      BY DEF c
    <3> QED BY <1>1, <2>1, <3>1, WindowsRest
  <2> QED BY <1>3, <2>2, CompletedAdvances
<1> HIDE DEF q1
<1>7. Advances(q1, postpone_local_ack_timeout(q1))
      /\ postpone_local_ack_timeout(q1) \in ReqType
  BY <1>5, <1>6, PostponeAdvances
<1>8. ASSUME cut # {}
      PROVE  /\ o = "CONTINUE" => Advances(q1, postpone_local_ack_timeout(q2))
             /\ Advances(q1, CompletionError(DropStarted(q1, 1), id))
             /\ Advances(q1, CompletionError(DropStarted(q3, 1), id))
  <2>1. id = c + (n + 1) /\ id \in DOMAIN q1.wqe
    BY <1>1, <1>3, <1>5, <1>8
  <2>2. o = process_acknowledge(q1.wqe[id], psn)
        /\ v = get_psn_diff(psn, q1.wqe[id].based_psn) + 1
    BY <1>4, <1>5, <1>8
  <2> HIDE DEF id, v
  <2>3. id = Len(q1.cq) + 1 /\ Len(Started(q1)) >= 1
    <3> DEFINE L == Len(q1.cq)
               S == Len(Started(q1))
               A == Len(all)
    <3> HIDE DEF L, S, A, c, all
    <3>1. id = L + 1 /\ S >= 1
      BY <1>1, <1>3, <1>5, <1>8, <2>1 DEF L, S, A
    <3> QED BY <3>1 DEF L, S
  <2>4. Advances(q1, CompletionError(DropStarted(q1, 1), id))
    BY <1>5, <2>3, FailFirstAdvances
  <2>5. Advances(q1, CompletionError(DropStarted(q3, 1), id))
    <3>1. "BAD_RESP_ERR" \in Statuses
      BY DEF Statuses
    <3>2. Requester(q1, Len(q1.cq)) /\ Len(q1.cq) \in Nat
      BY <1>5, <1>6, ReqFields DEF ReqInv
    <3>3. /\ Requester(q3, Len(q1.cq)) /\ q3.cq = q1.cq
          /\ q3.waiting = q1.waiting /\ q3.sending = q1.sending
      BY <2>1, <3>1, <3>2, SetStatusType
    <3>4. Advances(q1, q3)
      BY <1>5, <1>6, <2>1, <3>1, SetStatusAdvances
    <3> HIDE DEF q3
    <3>5. ReqInv(q3) /\ Started(q3) = Started(q1) /\ q3 \in ReqType
      BY <3>3 DEF ReqInv, Started, Requester
    <3>6. Advances(q3, CompletionError(DropStarted(q3, 1), id))
      BY <2>3, <3>3, <3>5, FailFirstAdvances
    <3>7. CompletionError(DropStarted(q3, 1), id) \in ReqType
      BY <2>3, <3>3, <3>5, FailFirst DEF ReqInv, Requester
    <3> QED BY <1>6, <3>4, <3>5, <3>6, <3>7, AdvancesTrans
  <2>6. ASSUME o = "CONTINUE"
        PROVE  Advances(q1, postpone_local_ack_timeout(q2))
    <3>1. q1.wqe[id] \in SwqeType
      BY <1>5, <1>6, <2>3, FirstStarted
    <3>2. /\ v \in Int /\ 0 <= v /\ q1.wqe[id].ack_packets < v
          /\ v < q1.wqe[id].wr.pkts /\ q1.wqe[id].wr.op # "READ"
      BY <2>2, <2>6, <3>1, AcknowledgeMore
    <3> QED BY <1>5, <1>6, <2>3, <3>2, AckOneAdvances
  <2> HIDE DEF q2, q3
  <2> QED BY <2>4, <2>5, <2>6
<1>9. ReqInv(f) /\ f \in ReqType
  BY receive_ACK_responseType DEF f, ReqInv, Requester
<1> HIDE DEF q2, q3, id
<1>10. Advances(q1, f)
  BY <1>2, <1>7, <1>8
<1>11. Advances(q, f)
  BY <1>1, <1>6, <1>9, <1>10, AdvancesTrans
<1> QED BY <1>11 DEF f

(* The WQEs and the send buffer alone.                                     *)
Moves(q, p) ==
  /\ Continues(q, p)
  /\ q.tx \in Seq(Requests(q)) => p.tx \in Seq(Requests(p))

LEMMA MovesAdvances ==
  ASSUME NEW q \in ReqType, NEW p \in ReqType, NEW r \in ReqType,
         Moves(q, p), Advances(p, r)
  PROVE  Advances(q, r)
BY ContinuesTrans DEF Advances, Moves

LEMMA CnpGenuine ==
  ASSUME NEW q
  PROVE  CNP \in Requests(q) /\ <<CNP>> \in Seq(Requests(q))
<1>1. CNP \in RequestType
  <2>1. TRUE \in BOOLEAN /\ "CNP" \in RequestOpcodes \cup {"CNP"}
    OBVIOUS
  <2> QED BY <2>1 DEF CNP, RequestType
<1>2. CNP \in Requests(q)
  BY <1>1 DEF Requests, Genuine
<1> DEFINE S == Requests(q)
<1> HIDE DEF S
<1>3. CNP \in S
  BY <1>2 DEF S
<1>4. <<CNP>> \in Seq(S)
  BY <1>3
<1> QED BY <1>2, <1>4 DEF S

LEMMA CnpMoves ==
  ASSUME NEW q, ReqInv(q), NEW c, NEW d, Rest(q, c, d)
  PROVE  LET p == process_cnp_notify_request(q)
         IN  /\ Rest(p, c, d) /\ Moves(q, p) /\ p.cq = q.cq /\ ReqInv(p)
             /\ p \in ReqType /\ Started(p) = Started(q)
<1> DEFINE p  == process_cnp_notify_request(q)
           k  == q.nr_contig_read_acks + 1
           z  == 0
           tx == <<CNP>>
           p1 == [q EXCEPT !.tx = tx, !.nr_contig_read_acks = z]
           p2 == [q EXCEPT !.nr_contig_read_acks = k]
<1>1. q \in ReqType
  BY DEF ReqInv, Requester
<1>2. p = p1 \/ p = p2
  BY DEF process_cnp_notify_request
<1>3. ReqInv(p) /\ Started(p) = Started(q)
  BY CnpNotifyType
<1> HIDE DEF p, k, z, tx
<1>4. /\ p.wqe = q.wqe /\ p.waiting = q.waiting /\ p.submitted = q.submitted
      /\ p.cq = q.cq /\ (p.tx = q.tx \/ p.tx = tx)
  <2>1. CASE p = p1
    BY <1>1, <2>1 DEF ReqType
  <2>2. CASE p = p2
    BY <1>1, <2>2 DEF ReqType
  <2> QED BY <1>2, <2>1, <2>2
<1>5. p \in ReqType
  BY <1>3 DEF ReqInv, Requester
<1>6. Rest(p, c, d)
  BY <1>4 DEF Rest, Begun
<1>7. Continues(q, p)
  <2>1. Alike(q, p)
    BY <1>4 DEF Alike, AlikeWqe
  <2> QED BY <1>1, <2>1, AlikeContinues
<1>8. q.tx \in Seq(Requests(q)) => p.tx \in Seq(Requests(p))
  BY <1>1, <1>4, <1>5, <1>7, GenuineStays, CnpGenuine DEF tx
<1> QED BY <1>3, <1>4, <1>5, <1>6, <1>7, <1>8 DEF p, Moves

LEMMA receive_RDMA_READ_responseAdvances ==
  ASSUME NEW q, ReqInv(q), Windows(q, Len(q.cq)), NEW p \in ResponseType
  PROVE  Advances(q, receive_RDMA_READ_response(q, p))
<1> DEFINE hits == match_send_wqe(q, p.psn)
           id   == Started(q)[Min(hits)]
           e    == q.wqe[id]
           skew == p.op = "READ_MIDDLE"
           dt   == [wr |-> p.wr, k |-> p.k, skew |-> skew]
           data == Append(e.data, dt)
           s    == e.sent_packets + 1
           a    == e.ack_packets + 1
           f    == [e EXCEPT !.sent_packets = s, !.ack_packets = a, !.data = data]
           r    == [q EXCEPT !.wqe[id] = f]
           q1   == process_cnp_notify_request(r)
           mine == Min(hits) = 1 /\ e.wr.op = "READ"
           more == s < e.wr.pkts
           c    == Len(q.cq)
           t    == receive_RDMA_READ_response(q, p)
<1>1. q \in ReqType /\ c \in Nat /\ Requester(q, c) /\ Len(q.wqe) \in Nat
  BY ReqFields DEF ReqInv, Requester
<1>2. \/ t = q
      \/ hits # {} /\ \/ t = SetStatus(q, id, "BAD_RESP_ERR")
                      \/ t = SetStatus(q, id, "LOC_PROT_ERR")
                      \/ t = q1 /\ mine /\ more
                      \/ t = CompleteRdAtomic(q1) /\ mine
  <2>1. t =
      IF hits = {} THEN q
      ELSE IF e.wr.op # "READ" THEN SetStatus(q, id, "BAD_RESP_ERR")
      ELSE IF \/ Min(hits) # 1
              \/ get_psn_diff(e.based_psn + e.sent_packets, p.psn) # 0
              \/ get_psn_diff(e.based_psn + e.ack_packets, p.psn) # 0
           THEN q
      ELSE IF e.wr.fault = "local" THEN SetStatus(q, id, "LOC_PROT_ERR")
      ELSE IF e.sent_packets + 1 < e.wr.pkts THEN q1
      ELSE CompleteRdAtomic(q1)
    BY Zenon DEF receive_RDMA_READ_response
  <2> HIDE DEF hits, id, e, q1, t
  <2> QED BY <2>1
<1>3. t \in ReqType
  BY receive_RDMA_READ_responseType DEF ReqInv, Requester
<1>4. ASSUME hits # {}
      PROVE  /\ Advances(q, SetStatus(q, id, "BAD_RESP_ERR"))
             /\ Advances(q, SetStatus(q, id, "LOC_PROT_ERR"))
             /\ mine /\ more => Advances(q, q1)
             /\ mine => Advances(q, CompleteRdAtomic(q1))
  <2>1. /\ id \in DOMAIN q.wqe /\ Min(hits) \in 1 .. Len(Started(q))
        /\ id = c + Min(hits)
    BY <1>1, <1>4, MatchExists
  <2>2. "BAD_RESP_ERR" \in Statuses /\ "LOC_PROT_ERR" \in Statuses
    BY DEF Statuses
  <2>3. /\ Advances(q, SetStatus(q, id, "BAD_RESP_ERR"))
        /\ Advances(q, SetStatus(q, id, "LOC_PROT_ERR"))
    <3> HIDE DEF id
    <3> QED BY <2>1, <2>2, SetStatusAdvances
  <2>4. ASSUME mine
        PROVE  /\ more => Advances(q, q1)
               /\ Advances(q, CompleteRdAtomic(q1))
    <3>1. id = Len(q.cq) + 1 /\ Len(Started(q)) >= 1
      <4> DEFINE L == Len(Started(q))
                 m == Min(hits)
      <4>1. m = 1 /\ m \in 1 .. L /\ L \in Nat
        BY <1>1, <2>1, <2>4, ListsExist
      <4> HIDE DEF L, m, hits
      <4>2. L >= 1
        BY <4>1
      <4> QED BY <2>1, <4>1, <4>2 DEF L, m
    <3> HIDE DEF id
    <3>2. e \in SwqeType /\ InWindow(e)
      BY <3>1, FirstStarted
    <3>3. /\ e.sent_packets \in Int /\ e.ack_packets \in Int /\ e.wr.pkts \in Int
          /\ e.sent_packets = e.ack_packets
      BY <2>4, <3>2, SwqeFields DEF InWindow
    <3>4. data \in Seq([wr : Nat, k : Int, skew : BOOLEAN])
      <4>1. e.data \in Seq([wr : Nat, k : Int, skew : BOOLEAN])
        <5> HIDE DEF e
        <5> QED BY <3>2 DEF SwqeType
      <4>2. dt \in [wr : Nat, k : Int, skew : BOOLEAN]
        <5>1. p.wr \in Nat /\ p.k \in Int
          BY DEF ResponseType
        <5>2. skew \in BOOLEAN
          OBVIOUS
        <5> HIDE DEF skew
        <5> QED BY <5>1, <5>2
      <4> HIDE DEF dt, e
      <4> QED BY <4>1, <4>2
    <3>5. /\ s \in Int /\ a \in Int /\ s = a /\ e.ack_packets <= a
      <4> HIDE DEF e
      <4> QED BY <3>3
    <3>6. more => s < e.wr.pkts /\ 0 <= s
      <4> HIDE DEF e
      <4> QED BY <3>2, <3>3 DEF InWindow
    <3> HIDE DEF s, a, data, more
    <3>7. /\ f \in SwqeType /\ f.wr = e.wr /\ f.based_psn = e.based_psn
          /\ f.expected_psn = e.expected_psn /\ f.sent_packets = s
          /\ f.ack_packets = a
      <4> HIDE DEF e
      <4> QED BY <3>2, <3>4, <3>5 DEF SwqeType
    <3> HIDE DEF f
    <3>8. more => InWindow(f) /\ f.sent_packets < f.wr.pkts
      <4> HIDE DEF e
      <4> QED BY <3>3, <3>5, <3>6, <3>7 DEF InWindow
    <3>9. c + 1 \in Nat /\ c <= c + 1 /\ c <= c /\ ~ (c + 1 > c + 1)
      <4> HIDE DEF c
      <4> QED BY <1>1
    <3>10. Recounts(q, c + 1, id, f) /\ (more => Recounts(q, c, id, f))
      <4>1. ~ (id > c + 1)
        BY <3>1, <3>9
      <4>2. /\ f \in SwqeType /\ f.wr = q.wqe[id].wr
            /\ f.based_psn = q.wqe[id].based_psn
            /\ f.expected_psn = q.wqe[id].expected_psn
            /\ q.wqe[id].ack_packets <= f.ack_packets
        BY <3>5, <3>7
      <4> QED BY <3>8, <4>1, <4>2 DEF Recounts
    <3>11. Rest(q, c, c) /\ Rest(q, c, c + 1)
      <4> HIDE DEF c
      <4>1. Windows(q, c)
        BY DEF c
      <4> QED BY <1>1, <3>9, <4>1, WindowsRest DEF Windows
    <3>12. Recounted(q, c + 1, r) /\ (more => Recounted(q, c, r))
      BY <1>1, <3>1, <3>9, <3>10, <3>11, CountAdvances
    <3> HIDE DEF r
    <3>13. /\ r \in ReqType /\ ReqInv(r) /\ r.cq = q.cq /\ Started(r) = Started(q)
           /\ Rest(r, c, c + 1) /\ (more => Rest(r, c, c))
           /\ Continues(q, r) /\ r.tx = q.tx
      BY <3>12 DEF Recounted
    <3>14. /\ Rest(q1, c, c + 1) /\ (more => Rest(q1, c, c)) /\ Moves(r, q1)
           /\ q1.cq = r.cq /\ ReqInv(q1) /\ q1 \in ReqType
           /\ Started(q1) = Started(r)
      BY <3>13, CnpMoves
    <3> HIDE DEF q1
    <3>15. Moves(q, q1)
      BY <1>1, <3>13, <3>14, ContinuesTrans, GenuineStays DEF Moves
    <3>16. ASSUME more PROVE Advances(q, q1)
      BY <3>13, <3>14, <3>15, <3>16 DEF Advances, Moves, Windows
    <3>17. Advances(q, CompleteRdAtomic(q1))
      <4>1. Advances(q1, CompleteRdAtomic(q1)) /\ CompleteRdAtomic(q1) \in ReqType
        <5>1. /\ Rest(q1, Len(q1.cq), Len(q1.cq) + 1) /\ Len(Started(q1)) >= 1
          BY <3>1, <3>13, <3>14
        <5> QED BY <3>14, <5>1, CompleteRdAtomicAdvances, CompleteRdAtomicType
             DEF ReqInv, Requester
      <4> QED BY <1>1, <3>14, <3>15, <4>1, MovesAdvances
    <3> QED BY <3>16, <3>17
  <2> HIDE DEF id, mine, more, q1
  <2> QED BY <2>3, <2>4
<1>5. Advances(q, q)
  BY AdvancesRefl
<1> HIDE DEF hits, id, q1, mine, more, t
<1>6. Advances(q, t)
  BY <1>2, <1>4, <1>5
<1> QED BY <1>6 DEF t

LEMMA receive_Atomic_responseAdvances ==
  ASSUME NEW q, ReqInv(q), Windows(q, Len(q.cq)), NEW p \in ResponseType
  PROVE  Advances(q, receive_Atomic_response(q, p))
<1> DEFINE hits == match_send_wqe(q, p.psn)
           id   == Started(q)[Min(hits)]
           e    == q.wqe[id]
           res  == p.res
           f    == [e EXCEPT !.res = res]
           q1   == [q EXCEPT !.wqe[id] = f]
           c    == Len(q.cq)
           t    == receive_Atomic_response(q, p)
<1>1. q \in ReqType /\ c \in Nat /\ Requester(q, c) /\ Len(q.wqe) \in Nat
  BY ReqFields DEF ReqInv, Requester
<1>2. \/ t = q
      \/ hits # {} /\ \/ t = SetStatus(q, id, "BAD_RESP_ERR")
                      \/ t = SetStatus(q, id, "LOC_PROT_ERR")
                      \/ t = CompleteRdAtomic(q1)
  <2>1. [q EXCEPT !.wqe[id].res = p.res] = q1
    OBVIOUS
  <2>2. t =
      IF hits = {} THEN q
      ELSE IF e.wr.op \notin {"CAS", "FADD"} THEN SetStatus(q, id, "BAD_RESP_ERR")
      ELSE IF Min(hits) # 1 \/ get_psn_diff(e.based_psn, p.psn) # 0 THEN q
      ELSE IF e.wr.fault = "local" THEN SetStatus(q, id, "LOC_PROT_ERR")
      ELSE CompleteRdAtomic(q1)
    <3> HIDE DEF q1, hits
    <3> QED BY <2>1 DEF receive_Atomic_response, hits
  <2> HIDE DEF hits, id, e, q1, t
  <2> QED BY <2>2
<1>3. ASSUME hits # {}
      PROVE  /\ Advances(q, SetStatus(q, id, "BAD_RESP_ERR"))
             /\ Advances(q, SetStatus(q, id, "LOC_PROT_ERR"))
             /\ Advances(q, CompleteRdAtomic(q1))
  <2>1. id \in DOMAIN q.wqe /\ Min(hits) \in 1 .. Len(Started(q))
    BY <1>1, <1>3, MatchExists
  <2>2. "BAD_RESP_ERR" \in Statuses /\ "LOC_PROT_ERR" \in Statuses
    BY DEF Statuses
  <2>3. Len(Started(q)) >= 1
    <3> DEFINE L == Len(Started(q))
               m == Min(hits)
    <3>1. m \in 1 .. L /\ L \in Nat
      BY <1>1, <2>1, ListsExist
    <3> HIDE DEF L, m
    <3>2. L >= 1
      BY <3>1
    <3> QED BY <3>2 DEF L
  <2> HIDE DEF id
  <2>4. /\ Advances(q, SetStatus(q, id, "BAD_RESP_ERR"))
        /\ Advances(q, SetStatus(q, id, "LOC_PROT_ERR"))
    BY <2>1, <2>2, SetStatusAdvances
  <2>5. e \in SwqeType /\ res \in Int
    BY <1>1, <2>1, FirstWqe DEF ResponseType
  <2>6. f \in SwqeType /\ AlikeWqe(e, f)
    <3> HIDE DEF e, res
    <3> QED BY <2>5 DEF SwqeType, AlikeWqe
  <2> HIDE DEF f
  <2>7. /\ ReqInv(q1) /\ Started(q1) = Started(q) /\ Still(q, q1)
        /\ q1.cq = q.cq /\ q1 \in ReqType
    BY <1>1, <2>6, WqeSetInv, WqeSet, StillSet DEF ReqInv, Requester
  <2> HIDE DEF q1
  <2>8. Advances(q, q1)
    BY <2>7, AdvancesStill
  <2>9. Rest(q1, c, c + 1)
    <3>1. c + 1 \in Nat /\ c <= c + 1
      <4> HIDE DEF c
      <4> QED BY <1>1
    <3>2. Windows(q1, c) /\ Len(q1.wqe) \in Nat
      BY <2>7, <2>8, ReqFields DEF Advances
    <3> HIDE DEF c
    <3> QED BY <1>1, <3>1, <3>2, WindowsRest
  <2>10. Advances(q1, CompleteRdAtomic(q1)) /\ CompleteRdAtomic(q1) \in ReqType
    BY <2>3, <2>7, <2>9, CompleteRdAtomicAdvances, CompleteRdAtomicType
       DEF ReqInv, Requester
  <2> QED BY <1>1, <2>4, <2>7, <2>8, <2>10, AdvancesTrans
<1>4. Advances(q, q)
  BY AdvancesRefl
<1> HIDE DEF hits, id, q1, t
<1>5. Advances(q, t)
  BY <1>2, <1>3, <1>4
<1> QED BY <1>5 DEF t

LEMMA receive_responseAdvances ==
  ASSUME NEW q0, ReqInv(q0), Windows(q0, Len(q0.cq)), NEW p \in ResponseType
  PROVE  Advances(q0, receive_response(q0, p))
<1> DEFINE z == 0
           q == [q0 EXCEPT !.nr_contig_requests = z]
           s == NakStatus[p.synd]
           n == IF p.synd \in DOMAIN NakStatus
                THEN set_send_wqe_to_error(q, p.psn, s) ELSE q
           c == Len(q0.cq)
           t == receive_response(q0, p)
<1>1. q0 \in ReqType /\ c \in Nat /\ Requester(q0, c) /\ z \in Nat
  BY ReqFields DEF ReqInv, Requester
<1>2. \/ t = CountRnr(Resend(q))
      \/ t = Resend(q)
      \/ t = receive_ACK_response(n, p.psn)
      \/ t = receive_Atomic_response(n, p)
      \/ t = receive_RDMA_READ_response(n, p)
  <2>1. t = CASE p.synd = "RNR"     -> CountRnr(Resend(q))
              [] p.synd = "PSN_SEQ" -> Resend(q)
              [] p.synd \notin {"RNR", "PSN_SEQ"} /\ p.op = "ACK" ->
                   receive_ACK_response(n, p.psn)
              [] p.synd \notin {"RNR", "PSN_SEQ"} /\ p.op = "ATOMIC_ACK" ->
                   receive_Atomic_response(n, p)
              [] OTHER -> receive_RDMA_READ_response(n, p)
    BY Zenon DEF receive_response
  <2> HIDE DEF q, n, t
  <2>2. CASE p.synd = "RNR"
    BY <2>1, <2>2
  <2>3. CASE p.synd = "PSN_SEQ"
    BY <2>1, <2>3
  <2>4. CASE p.synd \notin {"RNR", "PSN_SEQ"} /\ p.op = "ACK"
    BY <2>1, <2>4
  <2>5. CASE p.synd \notin {"RNR", "PSN_SEQ"} /\ p.op = "ATOMIC_ACK"
    BY <2>1, <2>5
  <2>6. CASE p.synd \notin {"RNR", "PSN_SEQ"} /\ p.op \notin {"ACK", "ATOMIC_ACK"}
    BY <2>1, <2>6
  <2> QED BY <2>2, <2>3, <2>4, <2>5, <2>6
<1>3. t \in ReqType
  BY receive_responseType DEF ReqInv, Requester
<1> HIDE DEF z, t
<1>4. /\ q \in ReqType /\ q.cq = q0.cq /\ q.waiting = q0.waiting
      /\ q.sending = q0.sending /\ q.submitted = q0.submitted
      /\ q.wqe = q0.wqe /\ q.state = q0.state /\ q.tx = q0.tx
  BY <1>1 DEF ReqType
<1> HIDE DEF q
<1>5. Requester(q, c) /\ ReqInv(q)
  BY <1>1, <1>4 DEF Requester, OrderedFrom, Drained, ReqInv
<1>6. Still(q0, q)
  BY <1>4 DEF Still, Alike, AlikeWqe
<1>7. Advances(q0, q) /\ Windows(q, Len(q.cq))
  BY <1>4, <1>6, AdvancesStill DEF Advances
<1>8. Advances(q, Resend(q)) /\ Advances(q, CountRnr(Resend(q)))
  <2> DEFINE r == Resend(q)
  <2>1. Requester(r, c) /\ Advances(q, r) /\ ReqInv(r)
    BY <1>1, <1>5, <1>7, ResendType, ResendAdvances
  <2> HIDE DEF r
  <2>2. Requester(CountRnr(r), c) /\ CountRnr(r).cq = r.cq /\ Still(r, CountRnr(r))
    BY <1>1, <2>1, CountRnrType, CountRnrStill
  <2>3. CountRnr(r) \in ReqType /\ r \in ReqType /\ Windows(r, Len(r.cq))
    BY <2>1, <2>2 DEF Requester, Advances
  <2>4. Advances(r, CountRnr(r))
    BY <2>1, <2>2, <2>3, AdvancesStill
  <2>5. Advances(q, CountRnr(r))
    BY <1>4, <2>1, <2>3, <2>4, AdvancesTrans
  <2> QED BY <2>1, <2>5 DEF r
<1>9. ReqInv(n) /\ Advances(q, n) /\ Windows(n, Len(n.cq)) /\ n \in ReqType
  <2>1. CASE p.synd \in DOMAIN NakStatus
    <3>1. s \in Statuses
      BY <2>1 DEF NakStatus, Statuses
    <3> HIDE DEF s
    <3>2. n = set_send_wqe_to_error(q, p.psn, s)
      BY <2>1
    <3>3. Requester(n, c) /\ n.cq = q.cq /\ Still(q, n)
      BY <1>1, <1>5, <3>1, <3>2, set_send_wqe_to_errorType, set_send_wqe_to_errorStill
    <3> HIDE DEF n
    <3>4. ReqInv(n) /\ n \in ReqType
      BY <1>4, <3>3 DEF ReqInv, Requester
    <3> QED BY <1>5, <1>7, <3>3, <3>4, AdvancesStill DEF Advances
  <2>2. CASE p.synd \notin DOMAIN NakStatus
    <3>1. n = q
      BY <2>2
    <3> QED BY <1>4, <1>5, <1>7, <3>1, AdvancesRefl
  <2> QED BY <2>1, <2>2
<1>10. p.psn \in Int
  BY DEF ResponseType
<1> HIDE DEF n
<1>11. /\ Advances(n, receive_ACK_response(n, p.psn))
       /\ Advances(n, receive_Atomic_response(n, p))
       /\ Advances(n, receive_RDMA_READ_response(n, p))
  BY <1>9, <1>10, receive_ACK_responseAdvances, receive_Atomic_responseAdvances,
     receive_RDMA_READ_responseAdvances
<1>12. Advances(q, t)
  BY <1>2, <1>3, <1>4, <1>8, <1>9, <1>11, AdvancesTrans
<1>13. Advances(q0, t)
  BY <1>1, <1>3, <1>4, <1>7, <1>12, AdvancesTrans
<1> QED BY <1>13 DEF t

-----------------------------------------------------------------------------
(* The requester's steps *)

LEMMA NewWindow ==
  ASSUME NEW w \in WRs
  PROVE  LET e == NewSwqe(w)
         IN  e \in SwqeType /\ InWindow(e) /\ Fresh(e) /\ e.sent_packets < e.wr.pkts
<1> DEFINE e == NewSwqe(w)
           k == w.pkts
<1>1. k \in Nat \ {0}
  BY ConstantTypes DEF WrType
<1>2. /\ e.wr = w /\ e.based_psn = 0 /\ e.expected_psn = 0 /\ e.ack_packets = 0
      /\ e.sent_packets = 0
  BY DEF NewSwqe
<1>3. e \in SwqeType
  BY NewSwqeType
<1> HIDE DEF e
<1>4. e.wr.pkts = k
  BY <1>2
<1> HIDE DEF k
<1>5. InWindow(e) /\ Fresh(e) /\ e.sent_packets < e.wr.pkts
  BY <1>1, <1>2, <1>4 DEF InWindow, Fresh
<1> QED BY <1>3, <1>5 DEF e

LEMMA post_sendAdvances ==
  ASSUME NEW q, ReqInv(q), Windows(q, Len(q.cq)), NEW w \in WRs
  PROVE  Advances(q, post_send(q, w))
<1> DEFINE n   == Len(q.wqe)
           id  == n + 1
           e   == NewSwqe(w)
           wqe == Append(q.wqe, e)
           wc  == [wr |-> id, status |-> "WR_FLUSH_ERR"]
           cq  == Append(q.cq, wc)
           q1  == [q EXCEPT !.wqe = wqe]
           f1  == [q1 EXCEPT !.cq = cq]
           u   == Append(q.submitted, id)
           q2  == [q1 EXCEPT !.submitted = u]
           q3  == reschedule_req(q2)
           z   == 0
           q4  == [q3 EXCEPT !.nr_contig_requests = z, !.nr_contig_read_acks = z]
           c   == Len(q.cq)
           f   == post_send(q, w)
<1>1. /\ q \in ReqType /\ q.wqe \in Seq(SwqeType) /\ q.submitted \in Seq(Nat)
      /\ n \in Nat /\ Requester(q, c) /\ c \in Nat
      /\ Len(q.submitted) \in Nat /\ Len(q.waiting) \in Nat
  BY ReqFields DEF ReqInv, Requester
<1>2. /\ ReqInv(f) /\ f.tx = q.tx
  BY post_sendType
<1>3. f = IF q.state = "ERR" THEN f1 ELSE q4
  <2>1. CASE q.state = "ERR"
    <3>1. q1.cq = q.cq
      <4> HIDE DEF wqe
      <4> QED BY <1>1 DEF ReqType
    <3>2. f = [q1 EXCEPT !.cq = Append(@, wc)]
      BY <2>1 DEF post_send, insert_send_wc
    <3> HIDE DEF q1, wc, f
    <3> QED BY <2>1, <3>1, <3>2
  <2>2. CASE q.state # "ERR"
    <3>1. q1.submitted = q.submitted
      <4> HIDE DEF wqe
      <4> QED BY <1>1 DEF ReqType
    <3>2. f = q4
      BY <2>2, <3>1 DEF post_send
    <3> HIDE DEF f, q4, f1
    <3> QED BY <2>2, <3>2
  <2> QED BY <2>1, <2>2
<1>4. e \in SwqeType /\ InWindow(e) /\ Fresh(e) /\ e.sent_packets < e.wr.pkts
  BY NewWindow
<1> HIDE DEF e
<1>5. /\ wqe \in Seq(SwqeType) /\ Len(wqe) = n + 1 /\ wqe[n + 1] = e
      /\ \A i \in 1 .. n : wqe[i] = q.wqe[i]
  <2> DEFINE l == q.wqe
  <2> HIDE DEF l
  <2>1. l \in Seq(SwqeType)
    BY <1>1 DEF l
  <2>2. /\ Append(l, e) \in Seq(SwqeType) /\ Len(Append(l, e)) = Len(l) + 1
        /\ Append(l, e)[Len(l) + 1] = e
        /\ \A i \in 1 .. Len(l) : Append(l, e)[i] = l[i]
    BY <1>4, <2>1
  <2> QED BY <2>2 DEF l
<1>6. Len(u) = Len(q.submitted) + 1 /\ u \in Seq(Nat)
  <2> DEFINE l == q.submitted
  <2> HIDE DEF l, n
  <2>1. id \in Nat /\ l \in Seq(Nat)
    BY <1>1 DEF l
  <2> HIDE DEF id
  <2>2. Append(l, id) \in Seq(Nat) /\ Len(Append(l, id)) = Len(l) + 1
    BY <2>1
  <2> QED BY <2>2 DEF l
<1> HIDE DEF wqe, u, cq
<1>7. f.wqe = wqe /\ (q.state = "ERR" => f.state = "ERR")
      /\ (q.state # "ERR" => f.submitted = u /\ f.waiting = q.waiting /\ f.cq = q.cq)
  <2>1. CASE q.state = "ERR"
    BY <1>1, <1>3, <2>1 DEF ReqType
  <2>2. CASE q.state # "ERR"
    <3>1. /\ q2 \in ReqType /\ q2.wqe = wqe /\ q2.submitted = u
          /\ q2.waiting = q.waiting /\ q2.cq = q.cq
      BY <1>1, <1>5, <1>6 DEF ReqType
    <3> HIDE DEF q2
    <3>2. /\ q3.wqe = wqe /\ q3.submitted = u
          /\ q3.waiting = q.waiting /\ q3.cq = q.cq /\ q3 \in ReqType
      BY <3>1, reschedule_reqStill DEF reschedule_req, ReqType
    <3> HIDE DEF q3, z
    <3>3. /\ q4.wqe = wqe /\ q4.submitted = u
          /\ q4.waiting = q.waiting /\ q4.cq = q.cq
      BY <3>2 DEF ReqType
    <3> HIDE DEF q4, f
    <3> QED BY <1>3, <2>2, <3>3
  <2> QED BY <2>1, <2>2
<1> HIDE DEF f
<1>8. f \in ReqType
  BY <1>2 DEF ReqInv, Requester
<1>9. Continues(q, f)
  <2>1. Len(f.wqe) = n + 1
    BY <1>5, <1>7
  <2>2. n <= n + 1
    <3> HIDE DEF n
    <3> QED BY <1>1
  <2>3. ASSUME NEW i \in 1 .. n PROVE Follows(q.wqe[i], f.wqe[i])
    <3>1. f.wqe[i] = q.wqe[i] /\ q.wqe[i].ack_packets \in Int
      BY <1>1, <1>5, <1>7, SwqeFields
    <3> QED BY <3>1 DEF Follows
  <2> QED BY <2>1, <2>2, <2>3 DEF Continues
<1>10. Windows(f, Len(f.cq))
  <2>1. CASE q.state = "ERR"
    BY <1>2, <1>7, <2>1, FailedWindows
  <2>2. CASE q.state # "ERR"
    <3> DEFINE b == Begun(q)
               v == Len(q.waiting)
               s == Len(q.submitted)
    <3>1. b \in Nat /\ b <= n /\ v \in Nat /\ s \in Nat /\ b = n - s
      BY <1>1, Numbers DEF Begun
    <3>2. Begun(f) = b /\ Len(f.wqe) = n + 1 /\ Len(f.waiting) = v /\ Len(f.cq) = c
      <4>1. Len(f.wqe) = n + 1 /\ Len(f.submitted) = s + 1
        BY <1>5, <1>6, <1>7, <2>2
      <4>2. (n + 1) - (s + 1) = n - s
        <5> HIDE DEF n, s
        <5> QED BY <1>1, <3>1
      <4>3. Begun(f) = b
        <5> HIDE DEF n, s
        <5> QED BY <4>1, <4>2 DEF Begun, n, s
      <4> QED BY <1>7, <2>2, <4>1, <4>3
    <3>3. \A k \in c + 1 .. n :
            /\ InWindow(q.wqe[k])
            /\ k > c + v => q.wqe[k].sent_packets < q.wqe[k].wr.pkts
            /\ k <= b => Numbered(q.wqe[k])
            /\ k > b => Fresh(q.wqe[k])
      BY DEF Windows, Rest
    <3>4. /\ wqe[n + 1] = e /\ \A i \in 1 .. n : wqe[i] = q.wqe[i]
      BY <1>5
    <3> HIDE DEF b, v, n, c, s
    <3>5. ASSUME NEW i \in c + 1 .. n + 1
          PROVE  /\ InWindow(wqe[i])
                 /\ i > c + v => wqe[i].sent_packets < wqe[i].wr.pkts
                 /\ i <= b => Numbered(wqe[i])
                 /\ i > b => Fresh(wqe[i])
      <4>1. CASE i = n + 1
        <5>1. ~ (i <= b)
          BY <1>1, <3>1, <4>1
        <5> QED BY <1>4, <3>4, <4>1, <5>1
      <4>2. CASE i # n + 1
        <5>1. i \in c + 1 .. n /\ i \in 1 .. n
          BY <1>1, <3>1, <4>2
        <5> QED BY <3>3, <3>4, <5>1
      <4> QED BY <4>1, <4>2
    <3> QED BY <1>7, <3>2, <3>5 DEF Windows, Rest
  <2> QED BY <2>1, <2>2
<1>11. Advances(q, f)
  BY <1>1, <1>2, <1>8, <1>9, <1>10, AdvancesIntro
<1> QED BY <1>11 DEF f

(* A step of the requester's thread: what it sends is genuine, and so is   *)
(* what was under way.                                                     *)
LEMMA RequesterStepAdvances ==
  ASSUME toRsp \in Seq(Requests(req)), req \in ReqType, req.tx = <<>>,
         NEW q, ReqInv(q), Advances(req, q), RequesterStep(q)
  PROVE  /\ Windows(req', Len(req'.cq)) /\ Continues(req, req')
         /\ toRsp' \in Seq(Requests(req'))
<1> DEFINE r == reschedule_req(q)
           e == <<>>
           p == [r EXCEPT !.tx = e]
<1>1. req' = p /\ toRsp' = toRsp \o q.tx
  BY DEF RequesterStep
<1>2. q \in ReqType /\ Len(q.cq) \in Nat /\ Requester(q, Len(q.cq))
  BY ReqFields DEF ReqInv, Requester
<1>3. Windows(q, Len(q.cq)) /\ Continues(req, q) /\ q.tx \in Seq(Requests(q))
  <2> DEFINE S == Requests(req)
  <2>1. <<>> \in Seq(S)
    <3> HIDE DEF S
    <3> QED OBVIOUS
  <2> QED BY <2>1 DEF Advances
<1>4. r \in ReqType /\ r.wqe = q.wqe /\ r.waiting = q.waiting
      /\ r.submitted = q.submitted /\ r.cq = q.cq
  BY <1>2, reschedule_reqStill DEF reschedule_req, ReqType
<1>a. e \in Seq(RequestType)
  OBVIOUS
<1> HIDE DEF r, e
<1>5. /\ p.wqe = q.wqe /\ p.waiting = q.waiting
      /\ p.submitted = q.submitted /\ p.cq = q.cq
  BY <1>4 DEF ReqType
<1>6. p \in ReqType
  BY <1>4, <1>a DEF ReqType
<1> HIDE DEF p
<1>7. Windows(p, Len(p.cq)) /\ Continues(req, p)
  BY <1>3, <1>5 DEF Windows, Rest, Begun, Continues
<1>8. Requests(p) = Requests(q)
  BY <1>5 DEF Requests, Genuine
<1>9. toRsp' \in Seq(Requests(p))
  <2> DEFINE S == Requests(p)
             l == q.tx
  <2>1. toRsp \in Seq(S) /\ l \in Seq(S)
    BY <1>3, <1>6, <1>7, <1>8, GenuineStays
  <2> HIDE DEF S, l
  <2>2. toRsp \o l \in Seq(S)
    BY <2>1
  <2> QED BY <1>1, <2>2 DEF S, l
<1> QED BY <1>1, <1>7, <1>9

-----------------------------------------------------------------------------
(* The system: every packet on the way to the responder is genuine, so the *)
(* length of an RDMA READ request is that of what is left of a message.    *)
ProgSafe ==
  /\ FlowSafe /\ Windows(req, Len(req.cq))
  /\ toRsp \in Seq(Requests(req)) /\ Counted(rsp)

(* What every step does to the two queue pairs.                            *)
Onward == Continues(req, req') /\ Goes(rsp, rsp')

LEMMA GenuineLength ==
  ASSUME NEW q \in ReqType, NEW p \in Requests(q)
  PROVE  p \in RequestType /\ p.dmalen \in Nat
<1>1. p \in RequestType /\ Genuine(q, p) /\ p.dmalen \in Int
  BY RequestFields DEF Requests
<1>2. CASE p = CNP
  <2>1. CNP.dmalen = 0
    BY DEF CNP
  <2> QED BY <1>1, <1>2, <2>1
<1>3. CASE p # CNP
  <2> DEFINE e == q.wqe[p.wr]
             n == e.wr.pkts
  <2>1. p.wr \in 1 .. Len(q.wqe) /\ IsPacketOf(e, p)
    BY <1>1, <1>3 DEF Genuine
  <2>2. q.wqe \in Seq(SwqeType) /\ Len(q.wqe) \in Nat
    BY ReqFields
  <2>3. e \in SwqeType
    BY <2>1, <2>2
  <2>4. n \in Nat
    BY <2>3, SwqeFields DEF WrType
  <2>5. p.k \in 0 .. n - 1 /\ (p.dmalen = n - p.k \/ p.dmalen = n)
    BY <2>1 DEF IsPacketOf
  <2> HIDE DEF n
  <2> QED BY <1>1, <2>4, <2>5
<1> QED BY <1>2, <1>3

LEMMA InitProg == Init => ProgSafe
<1> SUFFICES ASSUME Init PROVE ProgSafe
  OBVIOUS
<1>1. FlowSafe
  BY InitFlow
<1>2. /\ Len(req.cq) = 0 /\ Len(req.wqe) = 0 /\ rsp.acks = <<>>
      /\ rsp.nr_rd_atomic = 0 /\ toRsp = <<>>
  BY DEF Init
<1>3. Windows(req, Len(req.cq))
  BY <1>2 DEF Windows, Rest
<1>4. Counted(rsp)
  BY <1>2, CountEmpty DEF Counted
<1>5. toRsp \in Seq(Requests(req))
  <2> DEFINE S == Requests(req)
  <2> HIDE DEF S
  <2>1. toRsp \in Seq(S)
    BY <1>2
  <2> QED BY <2>1 DEF S
<1> QED BY <1>1, <1>3, <1>4, <1>5 DEF ProgSafe

LEMMA NextProg == ProgSafe /\ [Next]_vars => ProgSafe' /\ Onward
<1> SUFFICES ASSUME ProgSafe, [Next]_vars PROVE ProgSafe' /\ Onward
  OBVIOUS
<1>1. /\ FlowSafe /\ IInv /\ FlowInv(req) /\ ReqInv(req) /\ req \in ReqType
      /\ req.tx = <<>> /\ Windows(req, Len(req.cq))
      /\ toRsp \in Seq(Requests(req)) /\ toReq \in Seq(ResponseType)
      /\ rsp \in RspType /\ (rsp.on => rsp.acks # <<>>) /\ Counted(rsp)
  BY FlowFacts DEF ProgSafe, FlowSafe, IInv
<1>2. FlowSafe'
  BY <1>1, NextFlow
<1>3. req' \in ReqType
  BY <1>2, FlowFacts DEF FlowSafe
<1>4. Goes(rsp, rsp) /\ Continues(req, req)
  BY <1>1, GoesRefl, AdvancesRefl, SMTT(30) DEF Advances
<1>5. SUFFICES /\ Windows(req', Len(req'.cq)) /\ Continues(req, req')
               /\ toRsp' \in Seq(Requests(req')) /\ Goes(rsp, rsp')
  BY <1>1, <1>2 DEF ProgSafe, Onward, Goes, Windows, Rest, InWindow, Numbered,
                    Fresh, Begun, Requests, Genuine, IsPacketOf, Counted
<1>6. ASSUME Advances(req, req'), UNCHANGED toRsp
      PROVE  /\ Windows(req', Len(req'.cq)) /\ Continues(req, req')
             /\ toRsp' \in Seq(Requests(req'))
  BY <1>1, <1>3, <1>6, GenuineStays DEF Advances
<1>7. CASE PostSend
  <2>1. PICK w \in WRs : req' = post_send(req, w)
    BY <1>7 DEF PostSend
  <2>2. UNCHANGED <<rsp, toRsp>>
    BY <1>7 DEF PostSend
  <2>3. Advances(req, req')
    BY <1>1, <2>1, post_sendAdvances
  <2> QED BY <1>4, <1>6, <2>2, <2>3
<1>8. ASSUME NEW q, ReqInv(q), Advances(req, q), first_sending_wsqe(q)
      PROVE  /\ Windows(req', Len(req'.cq)) /\ Continues(req, req')
             /\ toRsp' \in Seq(Requests(req'))
  <2> DEFINE s == StartNext(q)
             t == SendFirst(s)
  <2>1. RequesterStep(t)
    BY <1>8 DEF first_sending_wsqe
  <2>2. q \in ReqType /\ Windows(q, Len(q.cq))
    BY <1>8 DEF ReqInv, Requester, Advances
  <2>3. ReqInv(s) /\ Advances(q, s)
    BY <1>8, <2>2, StartNextType, StartNextAdvances
  <2> HIDE DEF s
  <2>4. s \in ReqType /\ Windows(s, Len(s.cq))
    BY <2>3 DEF ReqInv, Requester, Advances
  <2>5. ReqInv(t) /\ Advances(s, t)
    BY <2>3, <2>4, SendFirstType, SendFirstAdvances
  <2> HIDE DEF t
  <2>6. t \in ReqType
    BY <2>5 DEF ReqInv, Requester
  <2>7. Advances(req, t)
    BY <1>1, <1>8, <2>2, <2>3, <2>4, <2>5, <2>6, AdvancesTrans
  <2> QED BY <1>1, <2>1, <2>5, <2>7, RequesterStepAdvances
<1>9. CASE RequesterPass
  <2>1. first_sending_wsqe(req) /\ UNCHANGED rsp
    BY <1>9 DEF RequesterPass
  <2>2. Advances(req, req)
    BY <1>1, AdvancesRefl
  <2> QED BY <1>1, <1>4, <1>8, <2>1, <2>2
<1>10. CASE TimeoutPass
  <2> DEFINE q == LocalAckTimeout(req)
  <2>1. first_sending_wsqe(q) /\ req.waiting # <<>> /\ UNCHANGED rsp
    BY <1>10 DEF TimeoutPass
  <2>2. ReqInv(q) /\ Advances(req, q)
    BY <1>1, <2>1, LocalAckTimeoutFlow, LocalAckTimeoutAdvances DEF FlowInv
  <2> HIDE DEF q
  <2> QED BY <1>4, <1>8, <2>1, <2>2
<1>11. CASE ReceiveResponse
  <2> DEFINE q == IF req.state = "ERR" THEN req
                  ELSE receive_response(req, Head(toReq))
  <2>1. toReq # <<>> /\ RequesterStep(q) /\ UNCHANGED rsp
    BY <1>11 DEF ReceiveResponse
  <2>2. Head(toReq) \in ResponseType
    BY <1>1, <2>1, WireType
  <2>3. ReqInv(q) /\ Advances(req, q)
    BY <1>1, <2>2, receive_responseType, receive_responseAdvances, AdvancesRefl
  <2> HIDE DEF q
  <2> QED BY <1>1, <1>4, <2>1, <2>3, RequesterStepAdvances
<1>12. ASSUME UNCHANGED req
       PROVE  Windows(req', Len(req'.cq)) /\ Continues(req, req')
  BY <1>1, <1>4, <1>12
<1>13. CASE PostRecv
  <2>1. PICK size \in RecvSizes : rsp' = post_recv(rsp, size)
    BY <1>13 DEF PostRecv
  <2>2. UNCHANGED <<req, toRsp>>
    BY <1>13 DEF PostRecv
  <2> QED BY <1>1, <1>12, <2>1, <2>2, post_recvGoes
<1>14. CASE DeregMr
  <2>1. rsp' = [rsp EXCEPT !.mr = FALSE] /\ UNCHANGED <<req, toRsp>>
    BY <1>14 DEF DeregMr
  <2>2. /\ rsp' \in RspType /\ rsp'.acks = rsp.acks /\ rsp'.cq = rsp.cq
        /\ rsp'.nr_rd_atomic = rsp.nr_rd_atomic /\ rsp'.psn = rsp.psn
    BY <1>1, <2>1, ZenonT(30) DEF RspType
  <2> QED BY <1>1, <1>12, <2>1, <2>2, GoesSame
<1>15. CASE ReceiveRequest
  <2>1. /\ toRsp # <<>> /\ toRsp' = Tail(toRsp) /\ UNCHANGED req
        /\ ResponderStep(receive_packet(rsp, Head(toRsp)))
    BY <1>15 DEF ReceiveRequest
  <2>2. Head(toRsp) \in Requests(req) /\ toRsp' \in Seq(Requests(req))
    BY <1>1, <2>1, WireType
  <2>3. Goes(rsp, receive_packet(rsp, Head(toRsp)))
    BY <1>1, <2>2, GenuineLength, receive_packetGoes
  <2>4. Goes(rsp, rsp')
    BY <1>1, <2>1, <2>3, ResponderStepGoes
  <2> QED BY <1>12, <2>1, <2>2, <2>4
<1>16. CASE ResponderPass
  <2>1. /\ rsp.on /\ ResponderStep(pib_generate_rc_qp_acknowledge(rsp))
        /\ UNCHANGED <<req, toRsp>>
    BY <1>16 DEF ResponderPass
  <2>2. Goes(rsp, rsp')
    BY <1>1, <2>1, AcknowledgeGoes, ResponderStepGoes
  <2> QED BY <1>1, <1>12, <2>1, <2>2
<1>17. CASE NetworkFault
  <2>1. UNCHANGED <<req, rsp>>
    BY <1>17 DEF NetworkFault
  <2>2. toRsp' \in Seq(Requests(req))
    BY <1>1, <1>17, WireType DEF NetworkFault
  <2> QED BY <1>4, <1>12, <2>1, <2>2
<1>18. CASE UNCHANGED vars
  BY <1>1, <1>4, <1>12, <1>18 DEF vars
<1> QED
  BY <1>7, <1>9, <1>10, <1>11, <1>13, <1>14, <1>15, <1>16, <1>17, <1>18 DEF Next

-----------------------------------------------------------------------------
LEMMA AlwaysProg == Spec => []ProgSafe
<1>1. ProgSafe /\ [Next]_vars => ProgSafe'
  BY NextProg
<1> QED BY InitProg, <1>1, PTL DEF Spec

(* Places on the started lists and numbers of work requests correspond.    *)
LEMMA StartedCount ==
  ASSUME FlowSafe
  PROVE  Cardinality({j \in DOMAIN Started(req) :
                       pib_is_wr_opcode_rd_atomic(Op(Started(req)[j]))}) =
         Cardinality(RdAtomics(req, Len(req.cq)))
<1> DEFINE all == Started(req)
           c   == Len(req.cq)
           n   == Len(all)
           J   == {j \in DOMAIN all : pib_is_wr_opcode_rd_atomic(Op(all[j]))}
           R   == RdAtomics(req, c)
           f   == [j \in J |-> c + j]
<1>1. /\ c \in Nat /\ n \in Nat /\ DOMAIN all = 1 .. n /\ Begun(req) = c + n
      /\ \A k \in 1 .. n : all[k] = c + k
  BY StartedAre DEF FlowSafe
<1> HIDE DEF all, c, n
<1>2. J = {j \in 1 .. n : IsRd(req.wqe[c + j])}
  BY <1>1 DEF IsRd, Op
<1>3. R = {i \in c + 1 .. c + n : IsRd(req.wqe[i])}
  BY <1>1 DEF RdAtomics
<1>4. \A j \in J : j \in 1 .. n
  BY <1>2
<1>5. \A i \in R : i \in c + 1 .. c + n /\ i - c \in J
  <2> SUFFICES ASSUME NEW i \in R PROVE i \in c + 1 .. c + n /\ i - c \in J
    OBVIOUS
  <2>1. i \in c + 1 .. c + n /\ IsRd(req.wqe[i])
    BY <1>3
  <2>2. i - c \in 1 .. n /\ c + (i - c) = i
    BY <1>1, <2>1
  <2> QED BY <1>2, <2>1, <2>2
<1>6. \A j \in J : c + j \in R
  <2> SUFFICES ASSUME NEW j \in J PROVE c + j \in R
    OBVIOUS
  <2>1. c + j \in c + 1 .. c + n /\ IsRd(req.wqe[c + j])
    BY <1>1, <1>2
  <2> QED BY <1>3, <2>1
<1>7. IsFiniteSet(J)
  <2>1. IsFiniteSet(1 .. n)
    BY <1>1, FS_Interval
  <2> QED BY <1>4, <2>1, FS_Subset
<1> HIDE DEF J, R
<1>8. f \in [J -> R]
  BY <1>6
<1>9. f \in Injection(J, R)
  <2>1. \A a, b \in J : f[a] = f[b] => a = b
    BY <1>1, <1>4
  <2> HIDE DEF f
  <2> QED BY <1>8, <2>1 DEF Injection, IsInjective
<1>10. f \in Surjection(J, R)
  <2>1. \A i \in R : \E j \in J : f[j] = i
    <3> SUFFICES ASSUME NEW i \in R PROVE \E j \in J : f[j] = i
      OBVIOUS
    <3>1. i - c \in J /\ c + (i - c) = i
      BY <1>1, <1>5
    <3>2. f[i - c] = i
      BY <3>1
    <3> QED BY <3>1, <3>2
  <2> HIDE DEF f
  <2> QED BY <1>8, <2>1 DEF Surjection
<1>11. ExistsBijection(J, R)
  <2> HIDE DEF f
  <2> QED BY <1>9, <1>10 DEF Bijection, ExistsBijection
<1>12. Cardinality(J) = Cardinality(R)
  BY <1>7, <1>11, FS_Bijection
<1> QED BY <1>12 DEF J, R, all, c

LEMMA ProgCounts == ProgSafe => RdAtomicCount
<1> SUFFICES ASSUME ProgSafe PROVE RdAtomicCount
  OBVIOUS
<1>1. FlowSafe /\ Counted(rsp) /\ rsp \in RspType
  BY DEF ProgSafe, FlowSafe, IInv
<1>2. Counts(req, Len(req.cq))
  BY <1>1, FlowFacts DEF FlowSafe, Flow
<1>3. DOMAIN rsp.acks = 1 .. Len(rsp.acks)
  BY <1>1, RspFields
<1>4. rsp.nr_rd_atomic =
        Cardinality({i \in DOMAIN rsp.acks : IsRdAtomicAck(rsp.acks[i])})
  BY <1>1, <1>3 DEF Counted, RdCount, RdAcks
<1> QED
  BY <1>1, <1>2, <1>4, StartedCount DEF Counts, RdAtomicCount

(* The counters that hold back RDMA READ and Atomic operations count the   *)
(* operations under way, on both sides: no completion, error, retry or     *)
(* flush leaks one or takes one away twice, and max_rd_atomic is kept.     *)
THEOREM RdAtomicsAreCounted == Spec => []RdAtomicCount
<1> QED BY AlwaysProg, ProgCounts, PTL

(* A longer sequence that agrees on the first ones starts with them.       *)
LEMMA GrownPrefix ==
  ASSUME NEW S, NEW a \in Seq(S), NEW b \in Seq(S), CqGrows(a, b)
  PROVE  SubSeq(b, 1, Len(a)) = a
BY DEF CqGrows

(* A retry or timeout cancels packets sent, never packets acknowledged,    *)
(* and what the responder has executed or completed stays, whatever is     *)
(* lost, repeated or delayed and whichever side fails.                     *)
THEOREM ProgressIsKept == Spec => NoProgressLost
<1>1. ASSUME ProgSafe, [Next]_vars
      PROVE  [ /\ \A i \in DOMAIN req.wqe :
                    req'.wqe[i].ack_packets >= req.wqe[i].ack_packets
               /\ rsp'.psn >= rsp.psn
               /\ SubSeq(rsp'.cq, 1, Len(rsp.cq)) = rsp.cq ]_vars
  <2>1. /\ req \in ReqType /\ rsp \in RspType /\ Continues(req, req')
        /\ Goes(rsp, rsp') /\ req' \in ReqType
    BY <1>1, NextProg, FlowFacts DEF ProgSafe, FlowSafe, IInv, Onward
  <2>2. DOMAIN req.wqe = 1 .. Len(req.wqe)
    BY <2>1, ReqFields
  <2>3. ASSUME NEW i \in DOMAIN req.wqe
        PROVE  req'.wqe[i].ack_packets >= req.wqe[i].ack_packets
    <3>1. req.wqe[i].ack_packets <= req'.wqe[i].ack_packets
      BY <2>1, <2>2, <2>3 DEF Continues, Follows
    <3> QED BY <3>1
  <2>4. rsp'.psn >= rsp.psn
    BY <2>1 DEF Goes
  <2>5. SubSeq(rsp'.cq, 1, Len(rsp.cq)) = rsp.cq
    <3>1. rsp.cq \in Seq(RecvWc) /\ rsp'.cq \in Seq(RecvWc) /\ CqGrows(rsp.cq, rsp'.cq)
      BY <2>1, RspFields DEF Goes
    <3> QED BY <3>1, GrownPrefix
  <2> QED BY <2>3, <2>4, <2>5
<1> QED BY AlwaysProg, <1>1, PTL DEF Spec, NoProgressLost
=============================================================================
