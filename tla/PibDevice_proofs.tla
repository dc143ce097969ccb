-------------------------- MODULE PibDevice_proofs --------------------------
(***************************************************************************)
(* Proofs about PibDevice, for every number of completion queues, queue    *)
(* pairs and entries.                                                      *)
(***************************************************************************)
EXTENDS PibDevice, PibLists_proofs

-----------------------------------------------------------------------------
(* Entries(s, I): the places of I are taken in order, each once.           *)

LEMMA EntriesOK ==
  ASSUME NEW S, NEW s \in Seq(S), NEW I \in SUBSET (1 .. Len(s))
  PROVE  LET r == Entries(s, I)
         IN  /\ r \in Seq(S) /\ Len(r) = Cardinality(I)
             /\ Cardinality(I) \in Nat /\ Cardinality(I) <= Len(s)
             /\ \E at \in [1 .. Cardinality(I) -> I] :
                  /\ \A j \in 1 .. Cardinality(I) : r[j] = s[at[j]]
                  /\ \A j, l \in 1 .. Cardinality(I) : at[j] = at[l] => j = l
                  /\ \A i \in I : \E j \in 1 .. Cardinality(I) : at[j] = i
<1> DEFINE n == Cardinality(I)
           Below(i) == {m \in I : m <= i}
           f == [i \in I |-> Cardinality(Below(i))]
           at == [j \in 1 .. n |->
                    CHOOSE i \in I : Cardinality({m \in I : m <= i}) = j]
           r == Entries(s, I)
<1>1. Len(s) \in Nat /\ \A i \in I : i \in Nat
  OBVIOUS
<1>2. IsFiniteSet(1 .. Len(s)) /\ Cardinality(1 .. Len(s)) = Len(s)
  BY <1>1, FS_Interval, SMTT(30)
<1>3. IsFiniteSet(I) /\ n <= Len(s)
  BY <1>2, FS_Subset
<1>4. n \in Nat
  BY <1>3, FS_CardinalityType
<1>5. \A i \in I : IsFiniteSet(Below(i)) /\ Cardinality(Below(i)) <= n
  <2> TAKE i \in I
  <2>1. Below(i) \in SUBSET I
    OBVIOUS
  <2> QED BY <1>3, <2>1, FS_Subset
<1>6. \A i \in I : f[i] \in 1 .. n
  <2> TAKE i \in I
  <2>1. Below(i) # {}
    BY <1>1
  <2>2. Cardinality(Below(i)) \in Nat /\ Cardinality(Below(i)) # 0
    BY <1>5, <2>1, FS_CardinalityType, FS_EmptySet
  <2>3. f[i] = Cardinality(Below(i)) /\ Cardinality(Below(i)) <= n
    BY <1>5
  <2> HIDE DEF f, n, Below
  <2> QED BY <1>4, <2>2, <2>3
<1>7. \A i, l \in I : f[i] = f[l] => i = l
  <2>1. ASSUME NEW i \in I, NEW l \in I, i < l, f[i] = f[l] PROVE FALSE
    <3>1. /\ \A m \in I : m <= i => m <= l
          /\ l <= l /\ ~(l <= i)
      BY <1>1, <2>1
    <3>2. Below(i) \in SUBSET Below(l) /\ l \in Below(l) /\ l \notin Below(i)
      BY <3>1
    <3>3. Cardinality(Below(l)) = Cardinality(Below(i))
      BY <2>1
    <3>4. Below(l) = Below(i)
      <4> HIDE DEF Below
      <4> QED BY <1>5, <3>2, <3>3, FS_Subset
    <3> QED BY <3>2, <3>4
  <2>2. \A i, l \in I : i < l \/ l < i \/ i = l
    BY <1>1
  <2> HIDE DEF f
  <2> QED BY <2>1, <2>2
<1>8. f \in Injection(I, 1 .. n)
  BY <1>6, <1>7 DEF Injection, IsInjective
<1>9. f \in Surjection(I, 1 .. n)
  <2>1. IsFiniteSet(1 .. n) /\ Cardinality(1 .. n) = n
    BY <1>4, FS_Interval
  <2> HIDE DEF f
  <2> QED BY <1>8, <2>1, FS_Injection
<1> HIDE DEF f
<1>10. \A j \in 1 .. n : \E i \in I : f[i] = j
  BY <1>9 DEF Surjection
<1>11. \A i \in I : f[i] = Cardinality({m \in I : m <= i})
  BY DEF f
<1>12. \A j \in 1 .. n : at[j] \in I /\ f[at[j]] = j
  <2> TAKE j \in 1 .. n
  <2> DEFINE x == CHOOSE i \in I : Cardinality({m \in I : m <= i}) = j
  <2>1. at[j] = x
    OBVIOUS
  <2>2. \E i \in I : Cardinality({m \in I : m <= i}) = j
    BY <1>10, <1>11
  <2>3. x \in I /\ Cardinality({m \in I : m <= x}) = j
    BY <2>2
  <2> HIDE DEF x, at
  <2> QED BY <1>11, <2>1, <2>3
<1>13. at \in [1 .. n -> I]
  BY <1>12
<1>14. \A i \in I : at[f[i]] = i
  <2> HIDE DEF at
  <2> QED BY <1>6, <1>7, <1>12
<1>15. r = [j \in 1 .. n |-> s[at[j]]]
  BY DEF Entries
<1> HIDE DEF at, r
<1>16. r \in [1 .. n -> S]
  <2> HIDE DEF n
  <2>1. \A j \in 1 .. n : at[j] \in 1 .. Len(s)
    BY <1>12
  <2>2. \A i \in 1 .. Len(s) : s[i] \in S
    OBVIOUS
  <2>3. \A j \in 1 .. n : s[at[j]] \in S
    BY <2>1, <2>2
  <2> QED BY <1>15, <2>3
<1>17. r \in Seq(S) /\ Len(r) = n
  <2> HIDE DEF n
  <2> QED BY <1>4, <1>16, FunctionIsSeq
<1>18. \A j \in 1 .. n : r[j] = s[at[j]]
  BY <1>15
<1>19. \A j, l \in 1 .. n : at[j] = at[l] => j = l
  BY <1>12
<1>20. \A i \in I : \E j \in 1 .. n : at[j] = i
  BY <1>6, <1>14
<1> QED
  BY <1>3, <1>4, <1>13, <1>17, <1>18, <1>19, <1>20 DEF r

(* What Entries keeps are entries of s; what it leaves out are not.        *)
LEMMA EntriesFrom ==
  ASSUME NEW S, NEW s \in Seq(S), NEW I \in SUBSET (1 .. Len(s)),
         NEW j \in 1 .. Len(Entries(s, I))
  PROVE  \E i \in I : Entries(s, I)[j] = s[i]
<1>1. Len(Entries(s, I)) = Cardinality(I)
  BY EntriesOK
<1>2. PICK at \in [1 .. Cardinality(I) -> I] :
        \A l \in 1 .. Cardinality(I) : Entries(s, I)[l] = s[at[l]]
  BY EntriesOK
<1> QED
  BY <1>1, <1>2

-----------------------------------------------------------------------------
(* The inductive invariant.                                                *)

Works == CQs \cup {"inject"}

QpRec == [state : {"RTS", "ERR", "NONE"}, sends : Nat, rq : {0, 1}]
SrqRec == [state : {"OK", "ERR"}, nr_recv_wqe : Int, free : Int, lost : Nat,
           srq_limit : Nat, issue_srq_limit : BOOLEAN, events : Nat]
DevRec == [cq : [CQs -> CqType], qp : [QPs -> QpRec], srq : SrqRec,
           works : Seq(Works), lost : SUBSET Works, broken : BOOLEAN,
           inject : CQs \cup QPs \cup {SRQ}]
Pcs == {"arm", "poll", "wait", "gone"}

(* A completion the consumer may sleep over. *)
Silent(k, e) == k.notify_flag # "NEXT_COMP" /\ e.owed # "error"
Quiet(k) == \A i \in 1 .. Len(k.cqes) : Silent(k, k.cqes[i])

(* The handshake of a CQ with a consumer at pc.  A consumer that has yet   *)
(* to arm the CQ was told (or never waited); after that has_notified says  *)
(* whether an event is on its way.                                         *)
Awake(k, pc) ==
  /\ pc # "gone" => k.mem = "live"
  /\ pc = "arm" => k.has_notified /\ ~k.event
  /\ pc \in {"poll", "wait"} => (k.event <=> k.has_notified)
  /\ pc \in {"poll", "wait"} => k.notify_flag # "NONE"
  /\ pc = "wait" /\ ~k.event /\ k.state = "OK" => Quiet(k)

(* The life of a CQ, given the works that are queued or lost and whether a *)
(* living QP uses it.                                                      *)
Life(k, queued, lost, used) ==
  /\ k.mem = "live" => k.free + Len(k.cqes) = CqEntries
  /\ used => k.mem = "live"
  /\ queued \/ lost => k.state = "ERR"
  /\ queued => k.mem # "gone"
  /\ k.state = "ERR" /\ k.mem # "gone" => k.reported \/ queued \/ lost

Unique(s) == \A i, j \in 1 .. Len(s) : s[i] = s[j] => i = j

(* The CQs and the work queue of device d, with consumers at pcs and the   *)
(* CQs of U in use.                                                        *)
Queues(d, pcs, U) ==
  /\ d \in DevRec /\ pcs \in [CQs -> Pcs] /\ Unique(d.works)
  /\ \A c \in CQs :
       /\ Awake(d.cq[c], pcs[c])
       /\ Life(d.cq[c], c \in Range(d.works), c \in d.lost, c \in U)

(* The CQs that living QPs use. *)
CqsOf(q) == {SendCq[q], RecvCq[q]}
Used(qp) ==
  {c \in CQs : \E q \in QPs : c \in CqsOf(q) /\ qp[q].state # "NONE"}

(* The receive WQEs of the SRQ add up, and an event was marked. *)
Busy(qp) == {q \in QPs : qp[q].rq = 1}
Books(srq, qp) ==
  /\ srq.nr_recv_wqe >= 0 /\ srq.free >= 0
  /\ srq.free + srq.nr_recv_wqe + srq.lost + Cardinality(Busy(qp)) = MaxSrqWr
  /\ srq.events <= 1 /\ (srq.events > 0 => srq.issue_srq_limit)

CallsOK(k, qp) ==
  /\ k \in [{"send", "srq", "modify"} -> Nat]
  /\ k["send"] <= MaxPost
  /\ \A q \in QPs : qp[q].sends <= k["send"]

ThreadOK ==
  /\ picked \in BOOLEAN /\ (picked => dev.works # <<>>)
  /\ failing \subseteq QPs
  /\ \A q \in failing : dev.qp[q].state # "NONE"

(* Device d between two handlers, with consumers at pcs and calls k made. *)
DeviceOK(d, pcs, k) ==
  Queues(d, pcs, Used(d.qp)) /\ Books(d.srq, d.qp) /\ CallsOK(k, d.qp)

IInv == DeviceOK(dev, consumer, calls) /\ ThreadOK

-----------------------------------------------------------------------------
(* One completion queue                                                    *)

Cqe == [qp : QPs, owed : Owed]

(* A failed completion is inserted as a solicited one. *)
LEMMA FailuresWake ==
  /\ ErrorWc \in Completions
  /\ \A wc \in Completions :
       wc.sol \in BOOLEAN /\ wc.owed \in Owed /\ (wc.owed = "error" => wc.sol)
BY DEF Completions, Owed, ErrorWc

LEMMA CqFields ==
  ASSUME NEW k \in CqType
  PROVE  /\ k.cqes \in Seq(Cqe) /\ Len(k.cqes) \in Nat
         /\ k.free \in Nat /\ k.free <= CqEntries /\ CqEntries \in Nat
         /\ k.state \in {"OK", "ERR"} /\ k.mem \in {"live", "freed", "gone"}
         /\ k.notify_flag \in {"NONE", "NEXT_COMP", "SOLICITED"}
         /\ k.has_notified \in BOOLEAN /\ k.event \in BOOLEAN
         /\ k.reported \in BOOLEAN
<1>1. CqEntries \in Nat
  BY DeviceAssumption
<1>2. k.cqes \in Seq(Cqe) /\ k.free \in 0 .. CqEntries
  BY DEF CqType, Cqe
<1>3. /\ k.state \in {"OK", "ERR"} /\ k.mem \in {"live", "freed", "gone"}
      /\ k.notify_flag \in {"NONE", "NEXT_COMP", "SOLICITED"}
      /\ k.has_notified \in BOOLEAN /\ k.event \in BOOLEAN
      /\ k.reported \in BOOLEAN
  BY DEF CqType
<1> QED
  BY <1>1, <1>2, <1>3

(* n completions at once keep a CQ that was live and not in error sound;   *)
(* it is in error afterwards if and only if they did not fit.              *)
LEMMA FillOK ==
  ASSUME NEW k \in CqType, NEW q \in QPs, NEW wc \in Completions, NEW n \in Nat,
         NEW pc, k.state = "OK", k.free + Len(k.cqes) = CqEntries,
         Awake(k, pc)
  PROVE  LET f == Fill(k, q, wc, n)
         IN  /\ f \in CqType /\ f.mem = k.mem /\ f.reported = k.reported
             /\ f.state = IF n <= k.free THEN "OK" ELSE "ERR"
             /\ f.free + Len(f.cqes) = CqEntries
             /\ Awake(f, pc)
<1> DEFINE m == IF n <= k.free THEN n ELSE k.free
           new == [i \in 1 .. m |-> [qp |-> q, owed |-> wc.owed]]
           wake == m > 0 /\ Wakes(k, wc.sol) /\ ~k.has_notified
           st == IF n <= k.free THEN "OK" ELSE "ERR"
           all == k.cqes \o new
           fr == k.free - m
           hn == k.has_notified \/ wake
           ev == k.event \/ wake
           f == Fill(k, q, wc, n)
<1>1. /\ k.cqes \in Seq(Cqe) /\ Len(k.cqes) \in Nat
      /\ k.free \in Nat /\ k.free <= CqEntries /\ CqEntries \in Nat
      /\ k.has_notified \in BOOLEAN /\ k.event \in BOOLEAN
  BY CqFields
<1>2. m \in Nat /\ m <= k.free /\ fr \in 0 .. CqEntries /\ fr + m = k.free
  BY <1>1
<1>3. f = [k EXCEPT !.state = st, !.free = fr, !.cqes = all,
                    !.has_notified = hn, !.event = ev]
  BY DEF Fill
<1>4. [qp |-> q, owed |-> wc.owed] \in Cqe
  BY FailuresWake DEF Cqe
<1> HIDE DEF m
<1>5. new \in [1 .. m -> Cqe]
  BY <1>4
<1>6. new \in Seq(Cqe) /\ Len(new) = m
  <2> HIDE DEF new
  <2> QED BY <1>2, <1>5, FunctionIsSeq
<1>7. \A i \in 1 .. m : new[i].owed = wc.owed
  OBVIOUS
<1> HIDE DEF new
<1>8. /\ all \in Seq(Cqe) /\ Len(all) = Len(k.cqes) + m
      /\ \A i \in 1 .. Len(k.cqes) + m :
           all[i] = IF i <= Len(k.cqes) THEN k.cqes[i] ELSE new[i - Len(k.cqes)]
  <2> DEFINE o == k.cqes
  <2>1. o \in Seq(Cqe)
    BY <1>1
  <2> HIDE DEF o
  <2>2. /\ o \o new \in Seq(Cqe) /\ Len(o \o new) = Len(o) + Len(new)
        /\ \A i \in 1 .. Len(o) + Len(new) :
             (o \o new)[i] = IF i <= Len(o) THEN o[i] ELSE new[i - Len(o)]
    BY <1>6, <2>1, ConcatProperties
  <2> QED BY <1>6, <2>2 DEF o
<1>9. st \in {"OK", "ERR"} /\ wake \in BOOLEAN
  BY DEF Wakes
<1>10. hn \in BOOLEAN /\ ev \in BOOLEAN
  BY <1>1, <1>9
<1> HIDE DEF all, fr, f, hn, ev, st
<1>11. f \in CqType
  BY <1>2, <1>3, <1>8, <1>9, <1>10 DEF CqType, Cqe
<1>12. /\ f.state = st /\ f.free = fr /\ f.cqes = all /\ f.has_notified = hn
       /\ f.event = ev /\ f.mem = k.mem /\ f.reported = k.reported
       /\ f.notify_flag = k.notify_flag
  BY <1>3 DEF CqType
<1>13. f.free + Len(f.cqes) = CqEntries
  <2>1. f.free = fr /\ Len(f.cqes) = Len(k.cqes) + m
    BY <1>8, <1>12
  <2>2. fr \in Nat /\ k.free = fr + m /\ Len(k.cqes) \in Nat /\ m \in Nat
    BY <1>1, <1>2
  <2>3. \A a, b, c \in Nat : a + (b + c) = (a + c) + b
    OBVIOUS
  <2>4. fr + (Len(k.cqes) + m) = (fr + m) + Len(k.cqes)
    BY <2>2, <2>3, Zenon
  <2> QED BY <2>1, <2>2, <2>4, Zenon
<1>14. Awake(f, pc)
  <2>1. pc = "arm" => f.has_notified /\ ~f.event
    BY <1>1, <1>12 DEF Awake, hn, ev
  <2>2. pc \in {"poll", "wait"} => (f.event <=> f.has_notified)
    BY <1>1, <1>12 DEF Awake, hn, ev
  <2>3. ASSUME pc = "wait", ~f.event, f.state = "OK" PROVE Quiet(f)
    <3>1. ~k.event /\ ~wake
      BY <1>12, <2>3 DEF ev
    <3>2. ~k.has_notified /\ Quiet(k)
      BY <2>3, <3>1 DEF Awake
    <3>3. m > 0 => ~Wakes(k, wc.sol)
      BY <3>1, <3>2
    <3> SUFFICES ASSUME NEW i \in 1 .. Len(all)
                 PROVE  Silent(f, all[i])
      BY <1>12 DEF Quiet
    <3>4. Silent(f, all[i]) <=> Silent(k, all[i])
      BY <1>12 DEF Silent
    <3>5. CASE i <= Len(k.cqes)
      <4>1. all[i] = k.cqes[i] /\ i \in 1 .. Len(k.cqes)
        BY <1>1, <1>2, <1>8, <3>5
      <4> QED BY <3>2, <3>4, <4>1 DEF Quiet
    <3>6. CASE ~(i <= Len(k.cqes))
      <4>1. all[i] = new[i - Len(k.cqes)] /\ i - Len(k.cqes) \in 1 .. m /\ m > 0
        BY <1>1, <1>2, <1>8, <3>6, SMTT(30)
      <4>2. all[i].owed = wc.owed
        BY <1>7, <4>1
      <4>3. k.notify_flag \in {"NEXT_COMP", "SOLICITED"}
        BY <2>3, CqFields DEF Awake
      <4>4. wc.owed = "error" => wc.sol
        BY FailuresWake
      <4> QED BY <3>3, <3>4, <4>1, <4>2, <4>3, <4>4 DEF Wakes, Silent
    <3> QED BY <3>5, <3>6
  <2>4. /\ pc # "gone" => f.mem = "live"
        /\ pc \in {"poll", "wait"} => f.notify_flag # "NONE"
    BY <1>12 DEF Awake
  <2> QED BY <2>1, <2>2, <2>3, <2>4 DEF Awake
<1> QED
  BY <1>11, <1>12, <1>13, <1>14 DEF f, st

(* Taking back the completions of a QP frees as many CQEs.                 *)
LEMMA RemoveCqOK ==
  ASSUME NEW k \in CqType, NEW q, NEW pc, Awake(k, pc)
  PROVE  LET f == pib_util_remove_cq(k, q)
         IN  /\ f.mem = k.mem /\ f.reported = k.reported /\ f.state = k.state
             /\ k.free + Len(k.cqes) = CqEntries =>
                  f \in CqType /\ f.free + Len(f.cqes) = CqEntries
             /\ Awake(f, pc)
<1> DEFINE I == {i \in DOMAIN k.cqes : k.cqes[i].qp # q}
           left == Entries(k.cqes, I)
           fr == k.free + Len(k.cqes) - Len(left)
           f == pib_util_remove_cq(k, q)
<1>1. /\ k.cqes \in Seq(Cqe) /\ Len(k.cqes) \in Nat
      /\ k.free \in Nat /\ k.free <= CqEntries /\ CqEntries \in Nat
  BY CqFields
<1>2. I \in SUBSET (1 .. Len(k.cqes))
  BY <1>1
<1>3. f = [k EXCEPT !.cqes = left, !.free = fr]
  BY DEF pib_util_remove_cq
<1> HIDE DEF I
<1>4. left \in Seq(Cqe) /\ Len(left) \in Nat /\ Len(left) <= Len(k.cqes)
  BY <1>1, <1>2, EntriesOK
<1>5. \A j \in 1 .. Len(left) : \E i \in I : left[j] = k.cqes[i]
  BY <1>1, <1>2, EntriesFrom
<1> HIDE DEF left, f
<1>6. /\ f.cqes = left /\ f.free = fr /\ f.has_notified = k.has_notified
      /\ f.event = k.event /\ f.mem = k.mem /\ f.reported = k.reported
      /\ f.notify_flag = k.notify_flag /\ f.state = k.state
  BY <1>3 DEF CqType
<1>7. ASSUME k.free + Len(k.cqes) = CqEntries
      PROVE  f \in CqType /\ f.free + Len(f.cqes) = CqEntries
  <2>1. fr \in 0 .. CqEntries /\ fr + Len(left) = CqEntries
    BY <1>1, <1>4, <1>7
  <2> HIDE DEF fr
  <2>2. f \in CqType
    BY <1>3, <1>4, <2>1 DEF CqType, Cqe
  <2> QED BY <1>6, <2>1, <2>2
<1>8. ASSUME Quiet(k) PROVE Quiet(f)
  <2> SUFFICES ASSUME NEW j \in 1 .. Len(left) PROVE Silent(f, left[j])
    BY <1>6 DEF Quiet
  <2>1. PICK i \in I : left[j] = k.cqes[i]
    BY <1>5
  <2>2. Silent(k, k.cqes[i])
    BY <1>2, <1>8 DEF Quiet
  <2> QED BY <1>6, <2>1, <2>2 DEF Silent
<1>9. Awake(f, pc)
  BY <1>6, <1>8 DEF Awake
<1> QED
  BY <1>6, <1>7, <1>9 DEF f

-----------------------------------------------------------------------------
(* The device                                                              *)

LEMMA DevFields ==
  ASSUME NEW d \in DevRec
  PROVE  /\ d.cq \in [CQs -> CqType] /\ d.qp \in [QPs -> QpRec]
         /\ d.srq \in SrqRec /\ d.works \in Seq(Works)
         /\ d.lost \in SUBSET Works /\ d.broken \in BOOLEAN
         /\ d.inject \in CQs \cup QPs \cup {SRQ}
  BY DEF DevRec

(* Two devices that agree on all works and CQs but those of c.             *)
SameOthers(d, e, c) ==
  /\ \A x \in CQs : x # c =>
       /\ e.cq[x] = d.cq[x]
       /\ x \in Range(e.works) <=> x \in Range(d.works)
       /\ x \in e.lost <=> x \in d.lost

LEMMA ChangeOne ==
  ASSUME NEW d, NEW e \in DevRec, NEW p, NEW U, NEW c \in CQs, NEW pc \in Pcs,
         Queues(d, p, U), Unique(e.works), SameOthers(d, e, c),
         Awake(e.cq[c], pc),
         Life(e.cq[c], c \in Range(e.works), c \in e.lost, c \in U)
  PROVE  Queues(e, [p EXCEPT ![c] = pc], U)
<1> DEFINE r == [p EXCEPT ![c] = pc]
<1>1. p \in [CQs -> Pcs]
  BY DEF Queues
<1>2. r \in [CQs -> Pcs] /\ r[c] = pc /\ \A x \in CQs : x # c => r[x] = p[x]
  BY <1>1
<1> HIDE DEF r
<1>3. ASSUME NEW x \in CQs
      PROVE  /\ Awake(e.cq[x], r[x])
             /\ Life(e.cq[x], x \in Range(e.works), x \in e.lost, x \in U)
  <2>1. CASE x = c
    BY <1>2, <2>1
  <2>2. CASE x # c
    <3>1. /\ Awake(d.cq[x], p[x])
          /\ Life(d.cq[x], x \in Range(d.works), x \in d.lost, x \in U)
      BY DEF Queues
    <3>2. /\ e.cq[x] = d.cq[x] /\ r[x] = p[x]
          /\ x \in Range(e.works) <=> x \in Range(d.works)
          /\ x \in e.lost <=> x \in d.lost
      BY <1>2, <2>2 DEF SameOthers
    <3> QED BY <3>1, <3>2 DEF Life
  <2> QED BY <2>1, <2>2
<1>4. Queues(e, r, U)
  BY <1>2, <1>3 DEF Queues
<1> QED
  BY <1>4 DEF r

(* The same without a change of the consumer.                              *)
LEMMA ChangeOneCq ==
  ASSUME NEW d, NEW e \in DevRec, NEW p, NEW U, NEW c \in CQs,
         Queues(d, p, U), Unique(e.works), SameOthers(d, e, c),
         Awake(e.cq[c], p[c]),
         Life(e.cq[c], c \in Range(e.works), c \in e.lost, c \in U)
  PROVE  Queues(e, p, U)
<1>1. p \in [CQs -> Pcs]
  BY DEF Queues
<1>2. p[c] \in Pcs /\ [p EXCEPT ![c] = p[c]] = p
  BY <1>1
<1> DEFINE pc == p[c]
<1> HIDE DEF pc
<1>3. pc \in Pcs /\ Awake(e.cq[c], pc)
  BY <1>2 DEF pc
<1>4. Queues(e, [p EXCEPT ![c] = pc], U)
  BY <1>3, ChangeOne
<1> QED
  BY <1>2, <1>4 DEF pc

(* Everything of the device but its CQs and works.                         *)
KeepsRest(d, e) ==
  /\ e.qp = d.qp /\ e.srq = d.srq /\ e.inject = d.inject
  /\ d.works # <<>> => e.works # <<>>

LEMMA UniqueAppend ==
  ASSUME NEW S, NEW s \in Seq(S), NEW x \in S, Unique(s), x \notin Range(s)
  PROVE  Unique(Append(s, x))
<1> DEFINE t == Append(s, x)
<1>1. /\ Len(s) \in Nat /\ Len(t) = Len(s) + 1 /\ t[Len(s) + 1] = x
      /\ \A i \in 1 .. Len(s) : t[i] = s[i]
  BY AppendProperties
<1>2. \A i \in 1 .. Len(s) : s[i] # x
  BY DEF Range
<1> HIDE DEF t
<1>3. \A i \in 1 .. Len(t) : i \in 1 .. Len(s) \/ i = Len(s) + 1
  BY <1>1
<1>4. ASSUME NEW i \in 1 .. Len(t), NEW j \in 1 .. Len(t), t[i] = t[j]
      PROVE  i = j
  BY <1>1, <1>2, <1>3, <1>4 DEF Unique
<1> QED
  BY <1>4 DEF Unique, t

(* pib_queue_work of a work that is not queued: it is queued or lost, and  *)
(* nothing else changes.                                                   *)
LEMMA QueueWorkOK ==
  ASSUME NEW d \in DevRec, NEW w \in Works, NEW race, Unique(d.works),
         w \notin Range(d.works)
  PROVE  LET r == pib_queue_work(d, w, race)
         IN  /\ r \in DevRec /\ Unique(r.works) /\ KeepsRest(d, r)
             /\ r.cq = d.cq /\ (w \in Range(r.works) \/ w \in r.lost)
             /\ \A x : x # w => /\ x \in Range(r.works) <=> x \in Range(d.works)
                                /\ x \in r.lost <=> x \in d.lost
<1> DEFINE r == pib_queue_work(d, w, race)
           l == d.lost \cup {w}
           s == Append(d.works, w)
           b == (race = "broken")
<1>1. d.works \in Seq(Works) /\ d.lost \in SUBSET Works
  BY DevFields
<1>2. l \in SUBSET Works /\ w \in l /\ b \in BOOLEAN
  BY <1>1
<1>3. \/ r = [d EXCEPT !.lost = l]
      \/ r = [d EXCEPT !.lost = l, !.broken = b]
      \/ r = [d EXCEPT !.works = s]
  BY DEF pib_queue_work
<1>4. s \in Seq(Works) /\ s # <<>> /\ Range(s) = Range(d.works) \cup {w}
  BY <1>1, RangeOfAppend, AppendProperties
<1>5. Unique(s)
  BY <1>1, UniqueAppend
<1>6. \A x : x # w => (x \in l <=> x \in d.lost)
  OBVIOUS
<1> HIDE DEF r, l, s, b
<1>7. CASE r = [d EXCEPT !.lost = l] \/ r = [d EXCEPT !.lost = l, !.broken = b]
  <2>1. r \in DevRec
    BY <1>2, <1>7 DEF DevRec
  <2>2. /\ r.works = d.works /\ r.lost = l /\ r.cq = d.cq /\ r.qp = d.qp
        /\ r.srq = d.srq /\ r.inject = d.inject
    BY <1>7 DEF DevRec
  <2> QED BY <2>1, <2>2, <1>2, <1>6 DEF r, KeepsRest
<1>8. CASE r = [d EXCEPT !.works = s]
  <2>1. r \in DevRec
    BY <1>4, <1>8 DEF DevRec
  <2>2. /\ r.works = s /\ r.lost = d.lost /\ r.cq = d.cq /\ r.qp = d.qp
        /\ r.srq = d.srq /\ r.inject = d.inject
    BY <1>8 DEF DevRec
  <2> QED BY <2>1, <2>2, <1>4, <1>5 DEF r, KeepsRest
<1> QED
  BY <1>3, <1>7, <1>8

(* Completions go to a CQ that is in use.  The rest of the device is not   *)
(* touched, and an overflow is queued or lost.                             *)
LEMMA InsertOK ==
  ASSUME NEW d, NEW p, NEW U, NEW c \in CQs, NEW q \in QPs,
         NEW wc \in Completions, NEW n \in Nat, NEW race, Queues(d, p, U), c \in U
  PROVE  LET r == insert_wcs(d, c, q, wc, n, race)
         IN  Queues(r, p, U) /\ KeepsRest(d, r)
<1> DEFINE k == d.cq[c]
           f == Fill(k, q, wc, n)
           e == [d EXCEPT !.cq[c] = f]
           r == insert_wcs(d, c, q, wc, n, race)
<1>1. /\ d \in DevRec /\ Unique(d.works) /\ Awake(k, p[c])
      /\ Life(k, c \in Range(d.works), c \in d.lost, c \in U)
  BY DEF Queues
<1>2. d.cq \in [CQs -> CqType] /\ k \in CqType
  BY <1>1, DevFields
<1>3. /\ r = IF k.state # "OK" THEN d
             ELSE IF n <= k.free THEN e
             ELSE pib_queue_work(e, c, race)
  BY DEF insert_wcs
<1>4. CASE k.state # "OK"
  <2>1. r = d
    BY <1>3, <1>4
  <2> QED BY <2>1 DEF KeepsRest
<1>5. CASE k.state = "OK"
  <2>1. k.mem = "live" /\ k.free + Len(k.cqes) = CqEntries
    BY <1>1 DEF Life
  <2>2. c \notin Range(d.works) /\ c \notin d.lost
    BY <1>1, <1>5 DEF Life
  <2> HIDE DEF k
  <2>3. /\ f \in CqType /\ f.mem = "live" /\ Awake(f, p[c])
        /\ f.state = IF n <= k.free THEN "OK" ELSE "ERR"
        /\ f.free + Len(f.cqes) = CqEntries
    BY <1>1, <1>2, <1>5, <2>1, FillOK
  <2> HIDE DEF f
  <2>4. e \in DevRec
    BY <1>1, <2>3 DEF DevRec
  <2>5. /\ e.cq[c] = f /\ \A x \in CQs : x # c => e.cq[x] = d.cq[x]
        /\ e.works = d.works /\ e.lost = d.lost
    BY <1>1, <1>2 DEF DevRec
  <2>6. KeepsRest(d, e)
    BY <1>1 DEF DevRec, KeepsRest
  <2> HIDE DEF e
  <2>7. CASE n <= k.free
    <3>1. r = e
      BY <1>3, <1>5, <2>7
    <3>2. Life(e.cq[c], c \in Range(e.works), c \in e.lost, c \in U)
      BY <2>2, <2>3, <2>5, <2>7 DEF Life
    <3>3. SameOthers(d, e, c) /\ Unique(e.works)
      BY <1>1, <2>5 DEF SameOthers
    <3>4. Awake(e.cq[c], p[c])
      BY <2>3, <2>5
    <3>5. Queues(e, p, U)
      BY <2>4, <3>2, <3>3, <3>4, ChangeOneCq
    <3> QED BY <2>6, <3>1, <3>5
  <2>8. CASE ~(n <= k.free)
    <3>1. r = pib_queue_work(e, c, race)
      BY <1>3, <1>5, <2>8
    <3>2. c \in Works /\ Unique(e.works) /\ c \notin Range(e.works)
      BY <1>1, <2>2, <2>5 DEF Works
    <3>3. /\ r \in DevRec /\ Unique(r.works) /\ KeepsRest(e, r)
          /\ r.cq = e.cq /\ (c \in Range(r.works) \/ c \in r.lost)
          /\ \A x : x # c => /\ x \in Range(r.works) <=> x \in Range(e.works)
                             /\ x \in r.lost <=> x \in e.lost
      BY <2>4, <3>1, <3>2, QueueWorkOK
    <3> HIDE DEF r
    <3>4. SameOthers(d, r, c)
      BY <2>5, <3>3 DEF SameOthers
    <3>5. r.cq[c] = f
      BY <2>5, <3>3
    <3>6. Life(r.cq[c], c \in Range(r.works), c \in r.lost, c \in U)
      BY <2>3, <2>8, <3>3, <3>5 DEF Life
    <3>7. Awake(r.cq[c], p[c])
      BY <2>3, <3>5
    <3>8. Queues(r, p, U)
      BY <3>3, <3>4, <3>6, <3>7, ChangeOneCq
    <3>9. KeepsRest(d, r)
      BY <2>6, <3>3 DEF KeepsRest
    <3> QED BY <3>8, <3>9 DEF r
  <2> QED BY <2>7, <2>8
<1> QED
  BY <1>2, <1>4, <1>5, CqFields

LEMMA InsertErrorOK ==
  ASSUME NEW d, NEW p, NEW U, NEW c \in CQs, NEW q \in QPs, NEW race,
         Queues(d, p, U), c \in U
  PROVE  LET r == insert_wc_error(d, c, q, race)
         IN  Queues(r, p, U) /\ KeepsRest(d, r)
  BY InsertOK, FailuresWake DEF insert_wc_error, insert_wc

(* A change of the QPs and the SRQ alone, which may give up CQs.           *)
LEMMA ChangeRest ==
  ASSUME NEW d, NEW e \in DevRec, NEW p, NEW U, NEW V, Queues(d, p, U),
         e.cq = d.cq, e.works = d.works, e.lost = d.lost, V \subseteq U
  PROVE  Queues(e, p, V)
<1>1. ASSUME NEW x \in CQs
      PROVE  /\ Awake(e.cq[x], p[x])
             /\ Life(e.cq[x], x \in Range(e.works), x \in e.lost, x \in V)
  <2>1. /\ Awake(d.cq[x], p[x])
        /\ Life(d.cq[x], x \in Range(d.works), x \in d.lost, x \in U)
    BY DEF Queues
  <2>2. Life(d.cq[x], x \in Range(d.works), x \in d.lost, x \in V)
    BY <2>1 DEF Life
  <2> QED BY <2>1, <2>2
<1> QED
  BY <1>1 DEF Queues

(* The QP and the SRQ after q failed.                                      *)
ErrQp == [state |-> "ERR", sends |-> 0, rq |-> 0]
Returned(srq, n) == [srq EXCEPT !.free = @ + n]
Replaced(d, r, q, x) ==
  /\ r.qp = [d.qp EXCEPT ![q] = x] /\ r.srq = Returned(d.srq, d.qp[q].rq)
  /\ d.works # <<>> => r.works # <<>>

LEMMA FlushOK ==
  ASSUME NEW d, NEW p, NEW U, NEW q \in QPs, NEW race, Queues(d, p, U),
         CqsOf(q) \subseteq U
  PROVE  LET r == FlushToError(d, q, race)
         IN  Queues(r, p, U) /\ Replaced(d, r, q, ErrQp)
<1> DEFINE n == d.qp[q].sends
           a == insert_wcs(d, SendCq[q], q, ErrorWc, n, race)
           b == insert_wc_error(a, RecvCq[q], q, race)
           v == IF d.qp[q].rq = 1 THEN pib_util_free_recv_wqe(b) ELSE a
           r == FlushToError(d, q, race)
<1>1. /\ SendCq[q] \in CQs /\ RecvCq[q] \in CQs
      /\ SendCq[q] \in U /\ RecvCq[q] \in U
  BY DeviceAssumption DEF CqsOf
<1>2. d \in DevRec
  BY DEF Queues
<1>3. /\ d.qp \in [QPs -> QpRec] /\ d.srq \in SrqRec
      /\ n \in Nat /\ d.qp[q].rq \in {0, 1}
  BY <1>2, DevFields DEF QpRec
<1>4. r = [v EXCEPT !.qp[q] = ErrQp]
  BY DEF FlushToError, ErrQp
<1>5. Queues(a, p, U) /\ KeepsRest(d, a)
  <2> HIDE DEF n
  <2>1. ErrorWc \in Completions
    BY FailuresWake
  <2> QED BY <1>1, <1>3, <2>1, InsertOK
<1>6. Queues(b, p, U) /\ KeepsRest(a, b)
  <2> HIDE DEF a
  <2> QED BY <1>1, <1>5, InsertErrorOK
<1> HIDE DEF a, b
<1>7. a \in DevRec /\ b \in DevRec
  BY <1>5, <1>6 DEF Queues
<1>8. ErrQp \in QpRec
  BY DEF ErrQp, QpRec
<1>9. Returned(d.srq, 0) = d.srq /\ Returned(d.srq, 1) \in SrqRec
  BY <1>3 DEF Returned, SrqRec
<1>10. CASE d.qp[q].rq = 1
  <2>1. v = [b EXCEPT !.srq = Returned(d.srq, 1)]
    BY <1>5, <1>6, <1>10 DEF KeepsRest, pib_util_free_recv_wqe, Returned
  <2> HIDE DEF v, r
  <2>2. r = [b EXCEPT !.srq = Returned(d.srq, 1), !.qp[q] = ErrQp]
    BY <1>4, <1>7, <2>1 DEF DevRec
  <2>3. r \in DevRec
    BY <1>7, <1>8, <1>9, <2>2 DEF DevRec
  <2>4. /\ r.cq = b.cq /\ r.works = b.works /\ r.lost = b.lost
        /\ r.qp = [b.qp EXCEPT ![q] = ErrQp] /\ r.srq = Returned(d.srq, 1)
    BY <1>7, <2>2 DEF DevRec
  <2>5. Queues(r, p, U)
    BY <1>6, <2>3, <2>4, ChangeRest
  <2>6. b.qp = d.qp /\ (d.works # <<>> => b.works # <<>>)
    BY <1>5, <1>6 DEF KeepsRest
  <2> QED BY <1>10, <2>4, <2>5, <2>6 DEF r, Replaced
<1>11. CASE d.qp[q].rq = 0
  <2>1. v = a
    BY <1>11
  <2> HIDE DEF v, r
  <2>2. r = [a EXCEPT !.qp[q] = ErrQp]
    BY <1>4, <2>1
  <2>3. r \in DevRec
    BY <1>7, <1>8, <2>2 DEF DevRec
  <2>4. /\ r.cq = a.cq /\ r.works = a.works /\ r.lost = a.lost
        /\ r.qp = [a.qp EXCEPT ![q] = ErrQp] /\ r.srq = a.srq
    BY <1>7, <2>2 DEF DevRec
  <2>5. Queues(r, p, U)
    BY <1>5, <2>3, <2>4, ChangeRest
  <2>6. a.qp = d.qp /\ a.srq = d.srq /\ (d.works # <<>> => a.works # <<>>)
    BY <1>5 DEF KeepsRest
  <2> QED BY <1>9, <1>11, <2>4, <2>5, <2>6 DEF r, Replaced
<1> QED
  BY <1>3, <1>10, <1>11

(* A QP that is reset or destroyed takes back its completions.             *)
LEMMA ResetOK ==
  ASSUME NEW d, NEW p, NEW U, NEW q \in QPs, NEW state \in {"RTS", "NONE"},
         Queues(d, p, U), CqsOf(q) \subseteq U
  PROVE  LET r == reset_qp(d, q, state)
             new == [state |-> state, sends |-> 0, rq |-> 0]
         IN  Queues(r, p, U) /\ Replaced(d, r, q, new) /\ r.works = d.works
<1> DEFINE r == reset_qp(d, q, state)
           new == [state |-> state, sends |-> 0, rq |-> 0]
           n == d.qp[q].rq
           s == Returned(d.srq, n)
           Left(c) == pib_util_remove_cq(d.cq[c], q)
           k == [c \in CQs |-> IF c \in CqsOf(q) THEN Left(c) ELSE d.cq[c]]
<1>1. d \in DevRec
  BY DEF Queues
<1>2. /\ d.qp \in [QPs -> QpRec] /\ d.srq \in SrqRec /\ n \in {0, 1}
      /\ d.cq \in [CQs -> CqType]
  BY <1>1, DevFields DEF QpRec
<1>3. r = [d EXCEPT !.qp[q] = new, !.srq = s, !.cq = k]
  BY <1>1 DEF reset_qp, Returned, CqsOf, DevRec
<1>4. new \in QpRec
  BY DEF QpRec
<1>5. s \in SrqRec
  BY <1>2 DEF SrqRec, Returned
<1>6. ASSUME NEW c \in CQs, c \in CqsOf(q)
      PROVE  /\ Left(c) \in CqType /\ Left(c).mem = "live"
             /\ Left(c).reported = d.cq[c].reported
             /\ Left(c).state = d.cq[c].state
             /\ Left(c).free + Len(Left(c).cqes) = CqEntries
             /\ Awake(Left(c), p[c])
  <2> DEFINE o == d.cq[c]
  <2>1. /\ o \in CqType /\ Awake(o, p[c])
        /\ o.mem = "live" /\ o.free + Len(o.cqes) = CqEntries
    BY <1>2, <1>6 DEF Queues, Life
  <2> HIDE DEF o
  <2>2. LET f == pib_util_remove_cq(o, q)
        IN  /\ f.mem = o.mem /\ f.reported = o.reported /\ f.state = o.state
            /\ f \in CqType /\ f.free + Len(f.cqes) = CqEntries
            /\ Awake(f, p[c])
    BY <2>1, RemoveCqOK
  <2> QED BY <2>1, <2>2 DEF o
<1> HIDE DEF Left, n, s, new
<1>7. k \in [CQs -> CqType]
  BY <1>2, <1>6
<1>8. \A c \in CQs : k[c] = IF c \in CqsOf(q) THEN Left(c) ELSE d.cq[c]
  OBVIOUS
<1> HIDE DEF k, r
<1>9. r \in DevRec
  BY <1>1, <1>3, <1>4, <1>5, <1>7 DEF DevRec
<1>10. /\ r.qp = [d.qp EXCEPT ![q] = new] /\ r.srq = s /\ r.cq = k
       /\ r.works = d.works /\ r.lost = d.lost
  BY <1>1, <1>3 DEF DevRec
<1>11. ASSUME NEW c \in CQs
       PROVE  /\ Awake(k[c], p[c])
              /\ Life(k[c], c \in Range(d.works), c \in d.lost, c \in U)
  <2>1. /\ Awake(d.cq[c], p[c])
        /\ Life(d.cq[c], c \in Range(d.works), c \in d.lost, c \in U)
    BY DEF Queues
  <2>2. CASE c \in CqsOf(q)
    <3>1. k[c] = Left(c)
      BY <1>8, <2>2
    <3>2. d.cq[c].mem = "live"
      BY <2>1, <2>2 DEF Life
    <3>3. Life(Left(c), c \in Range(d.works), c \in d.lost, c \in U)
      BY <1>6, <2>1, <2>2, <3>2 DEF Life
    <3> QED BY <1>6, <2>2, <3>1, <3>3
  <2>3. CASE c \notin CqsOf(q)
    BY <1>8, <2>1, <2>3
  <2> QED BY <2>2, <2>3
<1>12. Unique(d.works) /\ p \in [CQs -> Pcs]
  BY DEF Queues
<1>13. Queues(r, p, U)
  BY <1>9, <1>10, <1>11, <1>12 DEF Queues
<1> QED
  BY <1>10, <1>13 DEF r, s, n, new, Replaced

-----------------------------------------------------------------------------
(* Removing works                                                          *)

(* The list without one of its entries: the others stay, each once.        *)
LEMMA Without ==
  ASSUME NEW S, NEW s \in Seq(S), NEW w, Unique(s)
  PROVE  LET r == Entries(s, {i \in DOMAIN s : s[i] # w})
         IN  r \in Seq(S) /\ Unique(r) /\ Range(r) = Range(s) \ {w}
<1> DEFINE I == {i \in DOMAIN s : s[i] # w}
           r == Entries(s, I)
           n == Cardinality(I)
<1>1. DOMAIN s = 1 .. Len(s) /\ I \in SUBSET (1 .. Len(s))
  OBVIOUS
<1>2. \A i \in 1 .. Len(s) : i \in I <=> s[i] # w
  BY <1>1
<1> HIDE DEF I
<1>3. r \in Seq(S) /\ Len(r) = n
  BY <1>1, EntriesOK
<1>4. PICK at \in [1 .. n -> I] :
        /\ \A j \in 1 .. n : r[j] = s[at[j]]
        /\ \A j, l \in 1 .. n : at[j] = at[l] => j = l
        /\ \A i \in I : \E j \in 1 .. n : at[j] = i
  <2>1. I \in SUBSET (1 .. Len(s))
    BY <1>1
  <2>2. LET e == Entries(s, I)
        IN  /\ e \in Seq(S) /\ Len(e) = Cardinality(I)
            /\ Cardinality(I) \in Nat /\ Cardinality(I) <= Len(s)
            /\ \E at \in [1 .. Cardinality(I) -> I] :
                  /\ \A j \in 1 .. Cardinality(I) : e[j] = s[at[j]]
                  /\ \A j, l \in 1 .. Cardinality(I) : at[j] = at[l] => j = l
                  /\ \A i \in I : \E j \in 1 .. Cardinality(I) : at[j] = i
    BY <2>1, EntriesOK
  <2> QED BY <2>2, Zenon
<1>5. DOMAIN r = 1 .. n
  BY <1>3
<1> HIDE DEF r, n
<1>6. Unique(r)
  <2> SUFFICES ASSUME NEW j \in 1 .. n, NEW l \in 1 .. n, r[j] = r[l]
               PROVE  j = l
    BY <1>3 DEF Unique
  <2>1. s[at[j]] = s[at[l]] /\ at[j] \in 1 .. Len(s) /\ at[l] \in 1 .. Len(s)
    BY <1>1, <1>4
  <2>2. at[j] = at[l]
    BY <2>1 DEF Unique
  <2> QED BY <1>4, <2>2
<1>7. ASSUME NEW x \in Range(r) PROVE x \in Range(s) \ {w}
  <2>1. PICK j \in 1 .. n : x = r[j]
    BY <1>5 DEF Range
  <2>2. at[j] \in I /\ x = s[at[j]]
    BY <1>4, <2>1
  <2> QED BY <1>1, <1>2, <2>2 DEF Range
<1>8. ASSUME NEW x \in Range(s), x # w PROVE x \in Range(r)
  <2>1. PICK i \in 1 .. Len(s) : x = s[i]
    BY <1>1 DEF Range
  <2>2. i \in I
    BY <1>2, <1>8, <2>1
  <2>3. PICK j \in 1 .. n : at[j] = i
    BY <1>4, <2>2
  <2>4. r[j] = x
    BY <1>4, <2>1, <2>3
  <2> QED BY <1>5, <2>4 DEF Range
<1> QED
  BY <1>3, <1>6, <1>7, <1>8 DEF r, I

(* The list without its first entry.                                       *)
LEMMA WithoutHead ==
  ASSUME NEW S, NEW s \in Seq(S), s # <<>>, Unique(s)
  PROVE  /\ Head(s) \in S /\ Tail(s) \in Seq(S) /\ Unique(Tail(s))
         /\ Range(Tail(s)) = Range(s) \ {Head(s)}
<1> DEFINE t == Tail(s)
           h == Head(s)
           n == Len(s)
<1>1. /\ h \in S /\ t \in Seq(S) /\ h = s[1] /\ n \in Nat \ {0}
      /\ Len(t) = n - 1 /\ \A i \in 1 .. n - 1 : t[i] = s[i + 1]
  BY HeadAndTail
<1>2. DOMAIN s = 1 .. n /\ DOMAIN t = 1 .. n - 1
  <2> HIDE DEF t
  <2> QED BY <1>1
<1> HIDE DEF t, h, n
<1>3. Unique(t)
  <2> SUFFICES ASSUME NEW i \in 1 .. n - 1, NEW j \in 1 .. n - 1, t[i] = t[j]
               PROVE  i = j
    BY <1>1 DEF Unique
  <2>1. i + 1 \in 1 .. n /\ j + 1 \in 1 .. n
    BY <1>1
  <2>2. i + 1 = j + 1
    BY <1>1, <2>1 DEF Unique, n
  <2> QED BY <2>2
<1>4. ASSUME NEW x \in Range(t) PROVE x \in Range(s) \ {h}
  <2>1. PICK i \in 1 .. n - 1 : x = t[i]
    BY <1>2 DEF Range
  <2>2. x = s[i + 1] /\ i + 1 \in 1 .. n /\ i + 1 # 1 /\ 1 \in 1 .. n
    BY <1>1, <2>1
  <2>3. x # s[1]
    BY <2>2 DEF Unique, n
  <2> QED BY <1>1, <1>2, <2>2, <2>3 DEF Range
<1>5. ASSUME NEW x \in Range(s), x # h PROVE x \in Range(t)
  <2>1. PICK i \in 1 .. n : x = s[i]
    BY <1>2 DEF Range
  <2>2. i # 1
    BY <1>1, <1>5, <2>1
  <2>3. i - 1 \in 1 .. n - 1 /\ (i - 1) + 1 = i
    BY <1>1, <2>2
  <2>4. x = t[i - 1]
    BY <1>1, <2>1, <2>3
  <2> QED BY <1>2, <2>3, <2>4 DEF Range
<1> QED
  BY <1>1, <1>3, <1>4, <1>5 DEF t, h

-----------------------------------------------------------------------------
(* The receive WQEs that QPs hold                                          *)

LEMMA BusyType ==
  ASSUME NEW qp
  PROVE  /\ Busy(qp) \in SUBSET QPs /\ IsFiniteSet(Busy(qp))
         /\ Cardinality(Busy(qp)) \in Nat
<1>1. IsFiniteSet(QPs)
  BY DeviceAssumption
<1>2. Busy(qp) \in SUBSET QPs
  BY DEF Busy
<1>3. IsFiniteSet(Busy(qp))
  BY <1>1, <1>2, FS_Subset
<1> QED
  BY <1>2, <1>3, FS_CardinalityType

LEMMA BusyChange ==
  ASSUME NEW qp \in [QPs -> QpRec], NEW q \in QPs, NEW x \in QpRec
  PROVE  Cardinality(Busy([qp EXCEPT ![q] = x])) =
           Cardinality(Busy(qp)) - qp[q].rq + x.rq
<1> DEFINE r == [qp EXCEPT ![q] = x]
           B == Busy(qp)
           C == Busy(r)
<1>1. /\ r[q] = x /\ \A y \in QPs : y # q => r[y] = qp[y]
  OBVIOUS
<1>2. qp[q].rq \in {0, 1} /\ x.rq \in {0, 1}
  BY DEF QpRec
<1>3. \A y : y \in B <=> y \in QPs /\ qp[y].rq = 1
  BY DEF Busy
<1>4. \A y : y \in C <=> y \in QPs /\ r[y].rq = 1
  BY DEF Busy
<1>5. IsFiniteSet(B) /\ IsFiniteSet(C)
  BY BusyType
<1>6. Cardinality(B) \in Nat /\ Cardinality(C) \in Nat
  BY BusyType
<1> HIDE DEF B, C, r
<1>7. CASE qp[q].rq = 0 /\ x.rq = 1
  <2>1. C = B \cup {q} /\ q \notin B
    BY <1>1, <1>3, <1>4, <1>7
  <2>2. Cardinality(C) = Cardinality(B) + 1
    BY <1>5, <2>1, FS_AddElement
  <2> QED BY <1>6, <1>7, <2>2 DEF C, B, r
<1>8. CASE qp[q].rq = 1 /\ x.rq = 0
  <2>1. C = B \ {q} /\ q \in B
    BY <1>1, <1>3, <1>4, <1>8
  <2>2. Cardinality(C) = Cardinality(B) - 1
    BY <1>5, <2>1, FS_RemoveElement
  <2> QED BY <1>6, <1>8, <2>2 DEF C, B, r
<1>9. CASE qp[q].rq = x.rq
  <2>1. C = B
    BY <1>1, <1>3, <1>4, <1>9
  <2> QED BY <1>2, <1>6, <1>9, <2>1 DEF C, B, r
<1> QED
  BY <1>2, <1>7, <1>8, <1>9

LEMMA SrqFields ==
  ASSUME NEW s \in SrqRec
  PROVE  /\ s.free \in Int /\ s.nr_recv_wqe \in Int /\ s.lost \in Nat
         /\ s.events \in Nat /\ s.issue_srq_limit \in BOOLEAN
         /\ s.srq_limit \in Nat /\ s.state \in {"OK", "ERR"}
  BY DEF SrqRec

(* A QP gives back the WQE it holds, if any.                               *)
LEMMA BooksReturn ==
  ASSUME NEW qp \in [QPs -> QpRec], NEW srq \in SrqRec, NEW q \in QPs,
         NEW x \in QpRec, x.rq = 0, Books(srq, qp)
  PROVE  Books(Returned(srq, qp[q].rq), [qp EXCEPT ![q] = x])
<1> DEFINE n == qp[q].rq
           s == Returned(srq, n)
           r == [qp EXCEPT ![q] = x]
           B == Cardinality(Busy(qp))
           C == Cardinality(Busy(r))
<1>1. n \in {0, 1}
  BY DEF QpRec
<1>2. /\ srq.free \in Int /\ srq.nr_recv_wqe \in Int /\ srq.lost \in Nat
  BY SrqFields
<1>3. /\ s.free = srq.free + n /\ s.nr_recv_wqe = srq.nr_recv_wqe
      /\ s.lost = srq.lost /\ s.events = srq.events
      /\ s.issue_srq_limit = srq.issue_srq_limit
  BY DEF Returned, SrqRec
<1>4. C = B - n + 0
  BY BusyChange
<1>5. B \in Nat
  BY BusyType
<1>6. /\ srq.nr_recv_wqe >= 0 /\ srq.free >= 0
      /\ srq.free + srq.nr_recv_wqe + srq.lost + B = MaxSrqWr
      /\ srq.events <= 1 /\ (srq.events > 0 => srq.issue_srq_limit)
  BY DEF Books
<1> HIDE DEF n, B, C, s, r
<1>7. s.free >= 0 /\ s.nr_recv_wqe >= 0
  BY <1>1, <1>2, <1>3, <1>6
<1>8. s.free + s.nr_recv_wqe + s.lost + C = MaxSrqWr
  BY <1>1, <1>2, <1>3, <1>4, <1>5, <1>6
<1>9. s.events <= 1 /\ (s.events > 0 => s.issue_srq_limit)
  BY <1>3, <1>6
<1>10. Books(s, r)
  BY <1>7, <1>8, <1>9 DEF Books, C
<1> QED
  BY <1>10 DEF s, r, n

(* A change of a QP that is not about its receive WQE.                     *)
LEMMA BooksSame ==
  ASSUME NEW qp \in [QPs -> QpRec], NEW srq, NEW q \in QPs, NEW x \in QpRec,
         x.rq = qp[q].rq, Books(srq, qp)
  PROVE  Books(srq, [qp EXCEPT ![q] = x])
<1> DEFINE r == [qp EXCEPT ![q] = x]
<1>1. r[q] = x /\ \A y \in QPs : y # q => r[y] = qp[y]
  OBVIOUS
<1> HIDE DEF r
<1>2. Busy(r) = Busy(qp)
  BY <1>1 DEF Busy
<1> QED
  BY <1>2 DEF Books, r

(* What a QP counts stays within the calls made.                           *)
LEMMA CallsSame ==
  ASSUME NEW k, NEW qp \in [QPs -> QpRec], NEW q \in QPs, NEW x \in QpRec,
         x.sends = 0 \/ x.sends <= qp[q].sends, CallsOK(k, qp)
  PROVE  CallsOK(k, [qp EXCEPT ![q] = x])
<1> DEFINE r == [qp EXCEPT ![q] = x]
<1>1. r[q] = x /\ \A y \in QPs : y # q => r[y] = qp[y]
  OBVIOUS
<1>2. /\ k["send"] \in Nat /\ qp[q].sends <= k["send"]
      /\ k \in [{"send", "srq", "modify"} -> Nat]
      /\ k["send"] <= MaxPost
      /\ \A y \in QPs : qp[y].sends <= k["send"]
  BY DEF CallsOK
<1>3. x.sends \in Nat /\ qp[q].sends \in Nat
  BY DEF QpRec
<1>4. x.sends <= k["send"]
  BY <1>2, <1>3
<1> HIDE DEF r
<1>5. \A y \in QPs : r[y].sends <= k["send"]
  BY <1>1, <1>2, <1>4
<1> QED
  BY <1>2, <1>5 DEF CallsOK, r

LEMMA CallsCount ==
  ASSUME NEW k, NEW qp, NEW call \in {"srq", "modify"}, CallsOK(k, qp)
  PROVE  CallsOK([k EXCEPT ![call] = @ + 1], qp)
<1> DEFINE l == [k EXCEPT ![call] = @ + 1]
<1>1. k \in [{"send", "srq", "modify"} -> Nat]
  BY DEF CallsOK
<1>2. l \in [{"send", "srq", "modify"} -> Nat] /\ l["send"] = k["send"]
  BY <1>1
<1> HIDE DEF l
<1> QED
  BY <1>2 DEF CallsOK, l

LEMMA CallsSend ==
  ASSUME NEW k, NEW qp \in [QPs -> QpRec], CallsOK(k, qp), k["send"] < MaxPost
  PROVE  LET l == [k EXCEPT !["send"] = @ + 1]
         IN  /\ CallsOK(l, qp)
             /\ \A q \in QPs : qp[q].sends + 1 <= l["send"]
<1> DEFINE l == [k EXCEPT !["send"] = @ + 1]
<1>1. k \in [{"send", "srq", "modify"} -> Nat] /\ MaxPost \in Nat
  BY DeviceAssumption DEF CallsOK
<1>2. l \in [{"send", "srq", "modify"} -> Nat] /\ l["send"] = k["send"] + 1
  BY <1>1
<1>3. k["send"] \in Nat
  BY <1>1
<1>4. \A q \in QPs : qp[q].sends \in Nat /\ qp[q].sends <= k["send"]
  BY DEF CallsOK, QpRec
<1> HIDE DEF l
<1>5. l["send"] <= MaxPost
  BY <1>1, <1>2, <1>3
<1>6. \A q \in QPs : qp[q].sends <= l["send"] /\ qp[q].sends + 1 <= l["send"]
  BY <1>2, <1>3, <1>4
<1> QED
  BY <1>2, <1>5, <1>6 DEF CallsOK, l

(* A QP that lives on uses the same CQs; one that goes gives its CQs up.   *)
LEMMA UsedChange ==
  ASSUME NEW qp \in [QPs -> QpRec], NEW q \in QPs, NEW x \in QpRec,
         qp[q].state # "NONE"
  PROVE  /\ CqsOf(q) \subseteq Used(qp)
         /\ Used([qp EXCEPT ![q] = x]) \subseteq Used(qp)
         /\ x.state # "NONE" => Used([qp EXCEPT ![q] = x]) = Used(qp)
<1> DEFINE r == [qp EXCEPT ![q] = x]
<1>1. r[q] = x /\ \A y \in QPs : y # q => r[y] = qp[y]
  OBVIOUS
<1>2. SendCq[q] \in CQs /\ RecvCq[q] \in CQs
  BY DeviceAssumption
<1> HIDE DEF r
<1>3. CqsOf(q) \subseteq Used(qp)
  BY <1>2 DEF Used, CqsOf
<1>4. ASSUME NEW c \in CQs, c \in Used(r) PROVE c \in Used(qp)
  <2>1. PICK y \in QPs : c \in CqsOf(y) /\ r[y].state # "NONE"
    BY <1>4 DEF Used
  <2> QED BY <1>1, <2>1 DEF Used
<1>5. ASSUME NEW c \in CQs, c \in Used(qp), x.state # "NONE"
      PROVE  c \in Used(r)
  <2>1. PICK y \in QPs : c \in CqsOf(y) /\ qp[y].state # "NONE"
    BY <1>5 DEF Used
  <2>2. r[y].state # "NONE"
    BY <1>1, <1>5, <2>1
  <2> QED BY <2>1, <2>2 DEF Used
<1>6. Used(r) \subseteq CQs /\ Used(qp) \subseteq CQs
  BY DEF Used
<1> QED
  BY <1>3, <1>4, <1>5, <1>6 DEF r

-----------------------------------------------------------------------------
(* The handlers                                                            *)

(* No QP is gone and the work queue has not run empty.                     *)
Lives(d, e) ==
  /\ \A q \in QPs : d.qp[q].state # "NONE" => e.qp[q].state # "NONE"
  /\ d.works # <<>> => e.works # <<>>

LEMMA QpChanged ==
  ASSUME NEW d, NEW p, NEW k, DeviceOK(d, p, k), NEW q \in QPs, NEW x \in QpRec,
         d.qp[q].state # "NONE", x.sends = 0 \/ x.sends <= d.qp[q].sends,
         NEW r, Queues(r, p, Used(d.qp)), r.qp = [d.qp EXCEPT ![q] = x],
         Books(r.srq, r.qp)
  PROVE  /\ DeviceOK(r, p, k)
         /\ x.state # "NONE" /\ (d.works # <<>> => r.works # <<>>) => Lives(d, r)
<1>1. d \in DevRec /\ r \in DevRec
  BY DEF DeviceOK, Queues
<1>2. d.qp \in [QPs -> QpRec]
  BY <1>1, DevFields
<1> DEFINE o == d.qp
           n == [o EXCEPT ![q] = x]
<1>3. r.qp = n /\ o \in [QPs -> QpRec] /\ o[q].state # "NONE" /\ CallsOK(k, o)
  BY <1>2 DEF DeviceOK
<1>4. x.sends = 0 \/ x.sends <= o[q].sends
  OBVIOUS
<1>5. n[q] = x /\ \A y \in QPs : y # q => n[y] = o[y]
  BY <1>2
<1> HIDE DEF o
<1>6. Used(n) \subseteq Used(o)
  BY <1>3, UsedChange
<1>7. CallsOK(k, n)
  BY <1>3, <1>4, CallsSame
<1> HIDE DEF n
<1>8. Queues(r, p, Used(r.qp))
  BY <1>1, <1>3, <1>6, ChangeRest DEF o
<1>9. DeviceOK(r, p, k)
  BY <1>3, <1>7, <1>8 DEF DeviceOK
<1>10. x.state # "NONE" => \A y \in QPs : o[y].state # "NONE" =>
                                          n[y].state # "NONE"
  BY <1>5
<1> QED
  BY <1>3, <1>9, <1>10 DEF Lives, o

LEMMA FlushDevice ==
  ASSUME NEW d, NEW p, NEW k, DeviceOK(d, p, k), NEW q \in QPs,
         d.qp[q].state # "NONE", NEW race
  PROVE  LET r == FlushToError(d, q, race)
         IN  DeviceOK(r, p, k) /\ Lives(d, r)
<1> DEFINE r == FlushToError(d, q, race)
           U == Used(d.qp)
<1>1. d \in DevRec /\ Queues(d, p, U) /\ Books(d.srq, d.qp)
  BY DEF DeviceOK, Queues
<1>2. d.qp \in [QPs -> QpRec] /\ d.srq \in SrqRec
  BY <1>1, DevFields
<1>3. ErrQp \in QpRec /\ ErrQp.sends = 0 /\ ErrQp.rq = 0 /\ ErrQp.state # "NONE"
  BY DEF ErrQp, QpRec
<1>4. CqsOf(q) \subseteq U
  BY <1>2, <1>3, UsedChange
<1>5. Queues(r, p, U) /\ Replaced(d, r, q, ErrQp)
  <2> HIDE DEF U
  <2>1. Queues(d, p, U) /\ CqsOf(q) \subseteq U
    BY <1>1, <1>4
  <2> QED BY <2>1, FlushOK
<1> HIDE DEF r
<1>6. Books(r.srq, r.qp)
  BY <1>1, <1>2, <1>3, <1>5, BooksReturn DEF Replaced
<1>7. DeviceOK(r, p, k) /\ Lives(d, r)
  BY <1>3, <1>5, <1>6, QpChanged DEF Replaced
<1> QED
  BY <1>7 DEF r

LEMMA ResetDevice ==
  ASSUME NEW d, NEW p, NEW k, DeviceOK(d, p, k), NEW q \in QPs,
         d.qp[q].state # "NONE", NEW state \in {"RTS", "NONE"}
  PROVE  LET r == reset_qp(d, q, state)
         IN  /\ DeviceOK(r, p, k) /\ r.works = d.works
             /\ state = "RTS" => Lives(d, r)
<1> DEFINE r == reset_qp(d, q, state)
           U == Used(d.qp)
           x == [state |-> state, sends |-> 0, rq |-> 0]
<1>1. d \in DevRec /\ Queues(d, p, U) /\ Books(d.srq, d.qp)
  BY DEF DeviceOK, Queues
<1>2. d.qp \in [QPs -> QpRec] /\ d.srq \in SrqRec
  BY <1>1, DevFields
<1>3. x \in QpRec /\ x.sends = 0 /\ x.rq = 0 /\ x.state = state
  BY DEF QpRec
<1>4. CqsOf(q) \subseteq U
  BY <1>2, <1>3, UsedChange
<1>5. Queues(r, p, U) /\ Replaced(d, r, q, x) /\ r.works = d.works
  <2> HIDE DEF U
  <2>1. Queues(d, p, U) /\ CqsOf(q) \subseteq U
    BY <1>1, <1>4
  <2> QED BY <2>1, ResetOK
<1> HIDE DEF r, x
<1>6. Books(r.srq, r.qp)
  BY <1>1, <1>2, <1>3, <1>5, BooksReturn DEF Replaced
<1>7. DeviceOK(r, p, k) /\ (state = "RTS" => Lives(d, r))
  BY <1>3, <1>5, <1>6, QpChanged DEF Replaced
<1> QED
  BY <1>5, <1>7 DEF r

(* A completion for a QP that lives.                                       *)
LEMMA InsertDevice ==
  ASSUME NEW d, NEW p, NEW k, DeviceOK(d, p, k), NEW q \in QPs,
         d.qp[q].state # "NONE", NEW c \in CqsOf(q), NEW wc \in Completions,
         NEW race
  PROVE  LET r == insert_wc(d, c, q, wc, race)
         IN  /\ DeviceOK(r, p, k) /\ Lives(d, r)
             /\ r.qp = d.qp /\ r.srq = d.srq
<1> DEFINE r == insert_wc(d, c, q, wc, race)
           U == Used(d.qp)
<1>1. d \in DevRec /\ Queues(d, p, U) /\ Books(d.srq, d.qp) /\ CallsOK(k, d.qp)
  BY DEF DeviceOK, Queues
<1>2. d.qp \in [QPs -> QpRec] /\ ErrQp \in QpRec
  BY <1>1, DevFields DEF ErrQp, QpRec
<1>3. CqsOf(q) \subseteq U
  BY <1>2, UsedChange
<1>4. c \in CQs /\ c \in U
  BY <1>3, DeviceAssumption DEF CqsOf
<1>5. Queues(r, p, U) /\ KeepsRest(d, r)
  <2> HIDE DEF U
  <2> QED BY <1>1, <1>4, InsertOK DEF insert_wc
<1> HIDE DEF r
<1>6. r.qp = d.qp /\ r.srq = d.srq /\ (d.works # <<>> => r.works # <<>>)
  BY <1>5 DEF KeepsRest
<1>7. DeviceOK(r, p, k)
  BY <1>1, <1>5, <1>6 DEF DeviceOK
<1> QED
  BY <1>6, <1>7 DEF r, Lives

LEMMA LivesTrans ==
  ASSUME NEW d, NEW e, NEW f, Lives(d, e), Lives(e, f)
  PROVE  Lives(d, f)
  BY DEF Lives

(* One QP changes and nothing else.                                        *)
SetQp(d, q, x) == [d EXCEPT !.qp[q] = x]
OnlyQp(d, r, q, x) ==
  /\ r.qp = [d.qp EXCEPT ![q] = x] /\ r.srq = d.srq /\ r.works = d.works

LEMMA SetQpOK ==
  ASSUME NEW d, NEW p, NEW U, NEW q \in QPs, NEW x \in QpRec, Queues(d, p, U)
  PROVE  Queues(SetQp(d, q, x), p, U) /\ OnlyQp(d, SetQp(d, q, x), q, x)
<1> DEFINE r == SetQp(d, q, x)
<1>1. d \in DevRec
  BY DEF Queues
<1>2. r \in DevRec
  BY <1>1 DEF DevRec, SetQp
<1>3. /\ r.qp = [d.qp EXCEPT ![q] = x] /\ r.srq = d.srq
      /\ r.works = d.works /\ r.lost = d.lost /\ r.cq = d.cq
  BY <1>1 DEF DevRec, SetQp
<1> HIDE DEF r
<1>4. Queues(r, p, U)
  BY <1>2, <1>3, ChangeRest
<1> QED
  BY <1>3, <1>4 DEF r, OnlyQp

(* A send WQE leaves its QP.                                               *)
LEMMA TakeSend ==
  ASSUME NEW d, NEW p, NEW k, DeviceOK(d, p, k), NEW q \in QPs,
         d.qp[q].state # "NONE", d.qp[q].sends > 0
  PROVE  LET r == [d EXCEPT !.qp[q].sends = @ - 1]
         IN  DeviceOK(r, p, k) /\ Lives(d, r) /\ r.qp[q].state # "NONE"
<1> DEFINE o == d.qp[q]
           x == [o EXCEPT !.sends = @ - 1]
           r == SetQp(d, q, x)
           U == Used(d.qp)
<1>1. d \in DevRec /\ Queues(d, p, U) /\ Books(d.srq, d.qp)
  BY DEF DeviceOK, Queues
<1>2. d.qp \in [QPs -> QpRec] /\ o \in QpRec
  BY <1>1, DevFields
<1>3. o.sends \in Nat /\ o.sends > 0
  BY <1>2 DEF QpRec
<1>4. x \in QpRec /\ x.rq = o.rq /\ x.sends = o.sends - 1 /\ x.state = o.state
  BY <1>2, <1>3 DEF QpRec
<1>5. r = [d EXCEPT !.qp[q].sends = @ - 1]
  BY <1>1, <1>2 DEF DevRec, QpRec, SetQp
<1>6. x.sends <= o.sends
  BY <1>3, <1>4
<1> HIDE DEF x, U
<1>7. Queues(r, p, U) /\ OnlyQp(d, r, q, x)
  BY <1>1, <1>4, SetQpOK
<1> HIDE DEF r
<1>8. Books(r.srq, r.qp)
  BY <1>1, <1>2, <1>4, <1>7, BooksSame DEF OnlyQp
<1>9. DeviceOK(r, p, k) /\ Lives(d, r)
  BY <1>4, <1>6, <1>7, <1>8, QpChanged DEF U, OnlyQp
<1>10. r.qp[q].state # "NONE"
  BY <1>2, <1>4, <1>7 DEF OnlyQp
<1> QED
  BY <1>5, <1>9, <1>10

(* A receive WQE is completed and goes back to the SRQ.                    *)
LEMMA GiveBack ==
  ASSUME NEW d, NEW p, NEW k, DeviceOK(d, p, k), NEW q \in QPs,
         d.qp[q].state # "NONE", d.qp[q].rq = 1, NEW wc \in Completions
  PROVE  LET g == [d EXCEPT !.qp[q].rq = 0]
             r == pib_util_free_recv_wqe(insert_wc(g, RecvCq[q], q, wc, "no"))
         IN  DeviceOK(r, p, k) /\ Lives(d, r) /\ r.qp[q].state # "NONE"
<1> DEFINE o == d.qp[q]
           x == [o EXCEPT !.rq = 0]
           g == SetQp(d, q, x)
           c == RecvCq[q]
           a == insert_wcs(g, c, q, wc, 1, "no")
           r == pib_util_free_recv_wqe(a)
           U == Used(d.qp)
<1>1. d \in DevRec /\ Queues(d, p, U) /\ Books(d.srq, d.qp)
  BY DEF DeviceOK, Queues
<1>2. d.qp \in [QPs -> QpRec] /\ o \in QpRec /\ d.srq \in SrqRec
  BY <1>1, DevFields
<1>3. x \in QpRec /\ x.rq = 0 /\ x.sends = o.sends /\ x.state = o.state
  BY <1>2 DEF QpRec
<1>4. g = [d EXCEPT !.qp[q].rq = 0]
  BY <1>1, <1>2 DEF DevRec, QpRec, SetQp
<1>5. o.sends \in Nat /\ x.sends <= o.sends
  BY <1>2, <1>3 DEF QpRec
<1>6. c \in CQs /\ c \in U
  <2>1. CqsOf(q) \subseteq U
    BY <1>2, <1>3, UsedChange
  <2> QED BY <2>1, DeviceAssumption DEF CqsOf
<1> HIDE DEF x, U, c
<1>7. Queues(g, p, U) /\ OnlyQp(d, g, q, x)
  BY <1>1, <1>3, SetQpOK
<1> HIDE DEF g
<1>8. Queues(a, p, U) /\ KeepsRest(g, a)
  <2>1. 1 \in Nat
    OBVIOUS
  <2> QED BY <1>6, <1>7, <2>1, InsertOK
<1> HIDE DEF a
<1>9. /\ a \in DevRec /\ a.qp = [d.qp EXCEPT ![q] = x] /\ a.srq = d.srq
      /\ d.works # <<>> => a.works # <<>>
  BY <1>7, <1>8 DEF KeepsRest, Queues, OnlyQp
<1>10. Returned(d.srq, 1) \in SrqRec
  BY <1>2 DEF SrqRec, Returned
<1>11. r = [a EXCEPT !.srq = Returned(d.srq, 1)]
  BY <1>9 DEF pib_util_free_recv_wqe, Returned
<1> HIDE DEF r
<1>12. r \in DevRec
  BY <1>9, <1>10, <1>11 DEF DevRec
<1>13. /\ r.qp = a.qp /\ r.srq = Returned(d.srq, 1) /\ r.cq = a.cq
       /\ r.works = a.works /\ r.lost = a.lost
  BY <1>9, <1>11 DEF DevRec
<1>14. Queues(r, p, U)
  BY <1>8, <1>12, <1>13, ChangeRest
<1>15. Books(r.srq, r.qp)
  BY <1>1, <1>2, <1>3, <1>9, <1>13, BooksReturn
<1>16. r.qp = [d.qp EXCEPT ![q] = x] /\ (d.works # <<>> => r.works # <<>>)
  BY <1>9, <1>13
<1>17. DeviceOK(r, p, k) /\ Lives(d, r)
  BY <1>3, <1>5, <1>14, <1>15, <1>16, QpChanged DEF U
<1>18. r.qp[q].state # "NONE"
  BY <1>2, <1>3, <1>16
<1> QED
  BY <1>4, <1>17, <1>18 DEF r, a, c, insert_wc

(* One CQ and its consumer change.                                         *)
LEMMA CqChanged ==
  ASSUME NEW d, NEW p, NEW k, DeviceOK(d, p, k), NEW c \in CQs,
         NEW f \in CqType, NEW pc \in Pcs, Awake(f, pc),
         Life(f, c \in Range(d.works), c \in d.lost, c \in Used(d.qp))
  PROVE  LET r == [d EXCEPT !.cq[c] = f]
         IN  DeviceOK(r, [p EXCEPT ![c] = pc], k) /\ Lives(d, r)
<1> DEFINE r == [d EXCEPT !.cq[c] = f]
<1>1. d \in DevRec /\ Queues(d, p, Used(d.qp))
  BY DEF DeviceOK, Queues
<1>2. r \in DevRec
  BY <1>1 DEF DevRec
<1>3. /\ r.qp = d.qp /\ r.srq = d.srq /\ r.works = d.works /\ r.lost = d.lost
      /\ r.cq[c] = f /\ \A x \in CQs : x # c => r.cq[x] = d.cq[x]
  BY <1>1 DEF DevRec
<1> HIDE DEF r
<1>4. SameOthers(d, r, c) /\ Unique(r.works)
  BY <1>1, <1>3 DEF SameOthers, Queues
<1>5. /\ Awake(r.cq[c], pc)
      /\ Life(r.cq[c], c \in Range(r.works), c \in r.lost, c \in Used(d.qp))
  BY <1>3
<1>6. Queues(r, [p EXCEPT ![c] = pc], Used(d.qp))
  BY <1>1, <1>2, <1>4, <1>5, ChangeOne
<1>7. DeviceOK(r, [p EXCEPT ![c] = pc], k) /\ Lives(d, r)
  BY <1>3, <1>6 DEF DeviceOK, Lives
<1> QED
  BY <1>7 DEF r

-----------------------------------------------------------------------------
(* The actions                                                             *)

LEMMA StepOK ==
  ASSUME IInv, DeviceOK(dev', consumer', calls'), Lives(dev, dev'),
         picked' = picked, failing' \subseteq failing
  PROVE  IInv'
<1>1. ThreadOK'
  BY DEF IInv, ThreadOK, Lives
<1> QED
  BY <1>1 DEF IInv

LEMMA MoreCalls ==
  ASSUME NEW d, NEW p, NEW k, NEW call \in {"srq", "modify"}, DeviceOK(d, p, k)
  PROVE  DeviceOK(d, p, [k EXCEPT ![call] = @ + 1])
  BY CallsCount DEF DeviceOK

LEMMA NoChange ==
  ASSUME IInv, UNCHANGED vars
  PROVE  IInv'
  BY DEF IInv, ThreadOK, vars

LEMMA PostSendOK ==
  ASSUME IInv, NEW q \in QPs, pib_post_send(q)
  PROVE  IInv'
<1> DEFINE l == [calls EXCEPT !["send"] = @ + 1]
           U == Used(dev.qp)
           o == dev.qp[q]
<1>1. /\ calls["send"] < MaxPost /\ calls' = l /\ consumer' = consumer
      /\ picked' = picked /\ failing' = failing
  BY DEF pib_post_send, Bounded
<1>2. /\ dev \in DevRec /\ Queues(dev, consumer, U) /\ Books(dev.srq, dev.qp)
      /\ CallsOK(calls, dev.qp)
  BY DEF IInv, DeviceOK, Queues
<1>3. dev.qp \in [QPs -> QpRec] /\ o \in QpRec
  BY <1>2, DevFields
<1>4. CallsOK(l, dev.qp) /\ \A y \in QPs : dev.qp[y].sends + 1 <= l["send"]
  BY <1>1, <1>2, <1>3, CallsSend
<1>5. DeviceOK(dev, consumer, l)
  BY <1>2, <1>4 DEF DeviceOK
<1> HIDE DEF l
<1>6. CASE o.state = "RTS" /\ dev' = [dev EXCEPT !.qp[q].sends = @ + 1]
  <2> DEFINE x == [o EXCEPT !.sends = @ + 1]
             r == SetQp(dev, q, x)
  <2>1. o.sends \in Nat
    BY <1>3 DEF QpRec
  <2>2. x \in QpRec /\ x.rq = o.rq /\ x.sends = o.sends + 1 /\ x.state = "RTS"
    BY <1>3, <1>6, <2>1 DEF QpRec
  <2>3. dev' = r
    BY <1>2, <1>3, <1>6 DEF DevRec, QpRec, SetQp
  <2> HIDE DEF x, U
  <2>4. Queues(r, consumer, U) /\ OnlyQp(dev, r, q, x)
    BY <1>2, <2>2, SetQpOK
  <2> HIDE DEF r
  <2>5. r.qp = [dev.qp EXCEPT ![q] = x] /\ r.srq = dev.srq /\ r.works = dev.works
    BY <2>4 DEF OnlyQp
  <2>6. Books(r.srq, r.qp)
    BY <1>2, <1>3, <2>2, <2>5, BooksSame
  <2>7. Used(r.qp) = U
    BY <1>3, <1>6, <2>2, <2>5, UsedChange DEF U
  <2>8. r.qp[q] = x /\ \A y \in QPs : y # q => r.qp[y] = dev.qp[y]
    BY <1>3, <2>5
  <2>9. CallsOK(l, r.qp)
    <3>1. \A y \in QPs : r.qp[y].sends <= l["send"]
      BY <1>4, <2>2, <2>8 DEF CallsOK
    <3> QED BY <1>4, <3>1 DEF CallsOK
  <2>10. DeviceOK(r, consumer, l)
    BY <2>4, <2>6, <2>7, <2>9 DEF DeviceOK
  <2>11. Lives(dev, r)
    BY <2>2, <2>5, <2>8 DEF Lives
  <2> QED BY <1>1, <2>3, <2>10, <2>11, StepOK
<1>7. CASE /\ o.state = "ERR"
           /\ \E race \in Raced : dev' = insert_wc_error(dev, SendCq[q], q, race)
  <2>1. PICK race : dev' = insert_wc(dev, SendCq[q], q, ErrorWc, race)
    BY <1>7 DEF insert_wc_error
  <2>2. /\ SendCq[q] \in CqsOf(q) /\ ErrorWc \in Completions
        /\ dev.qp[q].state # "NONE"
    BY <1>7, FailuresWake DEF CqsOf
  <2> DEFINE r == insert_wc(dev, SendCq[q], q, ErrorWc, race)
  <2>3. DeviceOK(r, consumer, l) /\ Lives(dev, r)
    BY <1>5, <2>2, InsertDevice
  <2> HIDE DEF r
  <2>4. dev' = r
    BY <2>1 DEF r
  <2> QED BY <1>1, <2>3, <2>4, StepOK
<1> QED
  BY <1>6, <1>7 DEF pib_post_send

LEMMA ModifyToErrOK ==
  ASSUME IInv, NEW q \in QPs, ModifyToErr(q)
  PROVE  IInv'
<1> DEFINE l == [calls EXCEPT !["modify"] = @ + 1]
<1>1. /\ calls' = l /\ consumer' = consumer /\ picked' = picked
      /\ failing' = failing /\ dev.qp[q].state # "NONE"
  BY DEF ModifyToErr, Bounded
<1>2. PICK race : dev' = FlushToError(dev, q, race)
  BY DEF ModifyToErr
<1>3. DeviceOK(dev, consumer, l)
  BY MoreCalls DEF IInv
<1> HIDE DEF l
<1> DEFINE r == FlushToError(dev, q, race)
<1>4. DeviceOK(r, consumer, l) /\ Lives(dev, r)
  BY <1>1, <1>3, FlushDevice
<1> HIDE DEF r
<1>5. dev' = r
  BY <1>2 DEF r
<1> QED
  BY <1>1, <1>4, <1>5, StepOK

LEMMA ModifyToResetOK ==
  ASSUME IInv, NEW q \in QPs, ModifyToReset(q)
  PROVE  IInv'
<1> DEFINE l == [calls EXCEPT !["modify"] = @ + 1]
           r == reset_qp(dev, q, "RTS")
<1>1. /\ calls' = l /\ consumer' = consumer /\ picked' = picked
      /\ failing' = failing /\ dev.qp[q].state # "NONE" /\ dev' = r
  BY DEF ModifyToReset, Bounded
<1>2. DeviceOK(dev, consumer, l)
  BY MoreCalls DEF IInv
<1> HIDE DEF l
<1>3. DeviceOK(r, consumer, l) /\ Lives(dev, r)
  BY <1>1, <1>2, ResetDevice
<1> HIDE DEF r
<1> QED
  BY <1>1, <1>3, StepOK

LEMMA DestroyQpOK ==
  ASSUME IInv, NEW q \in QPs, pib_destroy_qp(q)
  PROVE  IInv'
<1> DEFINE r == reset_qp(dev, q, "NONE")
<1>1. /\ calls' = calls /\ consumer' = consumer /\ picked' = picked
      /\ failing' = failing /\ dev.qp[q].state # "NONE" /\ dev' = r
      /\ ~picked /\ failing = {}
  BY DEF pib_destroy_qp, DevLocked
<1>2. DeviceOK(r, consumer, calls)
  BY <1>1, ResetDevice DEF IInv
<1> HIDE DEF r
<1>3. ThreadOK'
  BY <1>1 DEF IInv, ThreadOK
<1> QED
  BY <1>1, <1>2, <1>3 DEF IInv

LEMMA DestroyCqesOK ==
  ASSUME IInv, NEW c \in CQs, DestroyCqes(c)
  PROVE  IInv'
<1> DEFINE k == dev.cq[c]
           f == [k EXCEPT !.mem = "freed", !.cqes = <<>>, !.free = 0]
           r == [dev EXCEPT !.cq[c] = f]
           U == Used(dev.qp)
           p == [consumer EXCEPT ![c] = "gone"]
<1>1. /\ k.mem = "live" /\ consumer' = p /\ picked' = picked
      /\ failing' = failing /\ calls' = calls
      /\ dev' = [dev EXCEPT !.cq[c].mem = "freed", !.cq[c].cqes = <<>>,
                            !.cq[c].free = 0]
  BY DEF DestroyCqes
<1>2. c \notin U
  BY DEF DestroyCqes, Used, CqsOf
<1>3. DeviceOK(dev, consumer, calls) /\ dev \in DevRec
  BY DEF IInv, DeviceOK, Queues
<1>4. k \in CqType /\ Life(k, c \in Range(dev.works), c \in dev.lost, c \in U)
  BY <1>3, DevFields DEF DeviceOK, Queues
<1>5. dev' = r
  BY <1>1, <1>3, <1>4 DEF DevRec, CqType
<1>6. f \in CqType
  <2> DEFINE e == <<>>
             z == 0
  <2>1. e \in Seq([qp : QPs, owed : Owed]) /\ z \in 0 .. CqEntries
    BY DeviceAssumption
  <2> HIDE DEF e, z, k
  <2>2. [k EXCEPT !.mem = "freed", !.cqes = e, !.free = z] \in CqType
    BY <1>4, <2>1 DEF CqType
  <2> QED BY <2>2 DEF e, z
<1>7. /\ f.mem = "freed" /\ f.state = k.state /\ f.reported = k.reported
  BY <1>4 DEF CqType
<1> HIDE DEF f, U
<1>8. Life(f, c \in Range(dev.works), c \in dev.lost, c \in U)
  BY <1>1, <1>2, <1>4, <1>7 DEF Life
<1>9. "gone" \in Pcs /\ Awake(f, "gone")
  BY DEF Pcs, Awake
<1>10. DeviceOK(r, p, calls) /\ Lives(dev, r)
  BY <1>3, <1>6, <1>8, <1>9, CqChanged DEF U
<1> HIDE DEF r, p
<1> QED
  BY <1>1, <1>5, <1>10, StepOK

LEMMA DestroyCqOK ==
  ASSUME IInv, NEW c \in CQs, pib_destroy_cq(c)
  PROVE  IInv'
<1> DEFINE k == dev.cq[c]
           f == [k EXCEPT !.mem = "gone"]
           s == Entries(dev.works, {i \in DOMAIN dev.works : dev.works[i] # c})
           b == dev.broken \/ c \in dev.lost
           r == [dev EXCEPT !.cq[c] = f, !.works = s, !.broken = b]
           U == Used(dev.qp)
<1>1. /\ k.mem = "freed" /\ consumer' = consumer /\ picked' = picked
      /\ failing' = failing /\ calls' = calls /\ ~picked /\ failing = {}
      /\ dev' = pib_cancel_work([dev EXCEPT !.cq[c].mem = "gone"], c)
  BY DEF pib_destroy_cq, DevLocked
<1>2. /\ dev \in DevRec /\ Queues(dev, consumer, U) /\ Books(dev.srq, dev.qp)
      /\ CallsOK(calls, dev.qp) /\ Unique(dev.works)
  BY DEF IInv, DeviceOK, Queues
<1>3. /\ k \in CqType /\ Life(k, c \in Range(dev.works), c \in dev.lost, c \in U)
      /\ Awake(k, consumer[c]) /\ dev.works \in Seq(Works)
      /\ dev.broken \in BOOLEAN
  BY <1>2, DevFields DEF Queues
<1>4. [dev EXCEPT !.cq[c].mem = "gone"] = [dev EXCEPT !.cq[c] = f]
  BY <1>2, <1>3 DEF DevRec, CqType
<1>5. f \in CqType
  BY <1>3 DEF CqType
<1>6. /\ f.mem = "gone" /\ f.state = k.state /\ f.reported = k.reported
      /\ f.event = k.event /\ f.has_notified = k.has_notified
      /\ f.cqes = k.cqes /\ f.notify_flag = k.notify_flag
  BY <1>3 DEF CqType
<1>7. s \in Seq(Works) /\ Unique(s) /\ Range(s) = Range(dev.works) \ {c}
  BY <1>2, <1>3, Without
<1>8. b \in BOOLEAN
  BY <1>3
<1> HIDE DEF f
<1>9. dev' = r
  <2> DEFINE e == [dev EXCEPT !.cq[c] = f]
  <2>1. dev' = pib_cancel_work(e, c)
    BY <1>1, <1>4
  <2>2. e.works = dev.works /\ e.broken = dev.broken /\ e.lost = dev.lost
    BY <1>2 DEF DevRec
  <2> HIDE DEF e
  <2>3. dev' = [e EXCEPT !.works = s, !.broken = b]
    BY <2>1, <2>2 DEF pib_cancel_work
  <2> HIDE DEF s, b
  <2> QED BY <1>2, <2>3 DEF e, DevRec
<1> HIDE DEF s, b, U
<1>10. r \in DevRec
  BY <1>2, <1>5, <1>7, <1>8 DEF DevRec
<1>11. /\ r.qp = dev.qp /\ r.srq = dev.srq /\ r.works = s /\ r.lost = dev.lost
       /\ r.cq[c] = f /\ \A x \in CQs : x # c => r.cq[x] = dev.cq[x]
  BY <1>2 DEF DevRec
<1> HIDE DEF r
<1>12. SameOthers(dev, r, c) /\ Unique(r.works)
  BY <1>7, <1>11 DEF SameOthers
<1>13. Awake(f, consumer[c])
  <2>1. Quiet(k) => Quiet(f)
    BY <1>6 DEF Quiet, Silent
  <2> QED BY <1>1, <1>3, <1>6, <2>1 DEF Awake
<1>14. Life(f, c \in Range(s), c \in dev.lost, c \in U)
  BY <1>1, <1>3, <1>6, <1>7 DEF Life
<1>15. /\ Awake(r.cq[c], consumer[c])
       /\ Life(r.cq[c], c \in Range(r.works), c \in r.lost, c \in U)
  BY <1>11, <1>13, <1>14
<1>16. Queues(r, consumer, U)
  BY <1>2, <1>10, <1>12, <1>15, ChangeOneCq
<1>17. DeviceOK(r, consumer, calls)
  BY <1>2, <1>11, <1>16 DEF DeviceOK, U
<1>18. ThreadOK'
  BY <1>1 DEF IInv, ThreadOK
<1> QED
  BY <1>1, <1>9, <1>17, <1>18 DEF IInv

(* The SRQ changes and nothing else.                                       *)
SetSrq(d, s) == [d EXCEPT !.srq = s]

LEMMA SetSrqOK ==
  ASSUME NEW d, NEW p, NEW k, DeviceOK(d, p, k), NEW s \in SrqRec,
         Books(s, d.qp)
  PROVE  DeviceOK(SetSrq(d, s), p, k) /\ Lives(d, SetSrq(d, s))
<1> DEFINE r == SetSrq(d, s)
           U == Used(d.qp)
<1>1. d \in DevRec /\ Queues(d, p, U)
  BY DEF DeviceOK, Queues
<1>2. r \in DevRec
  BY <1>1 DEF DevRec, SetSrq
<1>3. /\ r.qp = d.qp /\ r.srq = s /\ r.cq = d.cq
      /\ r.works = d.works /\ r.lost = d.lost
  BY <1>1 DEF DevRec, SetSrq
<1> HIDE DEF r, U
<1>4. Queues(r, p, U)
  BY <1>1, <1>2, <1>3, ChangeRest
<1>5. DeviceOK(r, p, k)
  BY <1>3, <1>4 DEF DeviceOK, U
<1> QED
  BY <1>3, <1>5 DEF r, Lives

LEMMA PostSrqRecvOK ==
  ASSUME IInv, pib_post_srq_recv
  PROVE  IInv'
<1> DEFINE l == [calls EXCEPT !["srq"] = @ + 1]
           o == dev.srq
           B == Cardinality(Busy(dev.qp))
           post == [o EXCEPT !.free = @ - 1, !.nr_recv_wqe = @ + 1]
           lose == [o EXCEPT !.free = @ - 1, !.lost = @ + 1]
<1>1. /\ calls' = l /\ consumer' = consumer /\ picked' = picked
      /\ failing' = failing /\ o.free > 0
      /\ dev' \in {[dev EXCEPT !.srq.free = @ - 1, !.srq.nr_recv_wqe = @ + 1],
                   [dev EXCEPT !.srq.free = @ - 1, !.srq.lost = @ + 1]}
  BY DEF pib_post_srq_recv, Bounded
<1>2. DeviceOK(dev, consumer, l) /\ dev \in DevRec /\ Books(o, dev.qp)
  BY MoreCalls DEF IInv, DeviceOK, Queues
<1>3. o \in SrqRec
  BY <1>2, DevFields
<1>4. /\ o.free \in Int /\ o.nr_recv_wqe \in Int /\ o.lost \in Nat
      /\ o.events \in Nat /\ o.issue_srq_limit \in BOOLEAN
  BY <1>3, SrqFields
<1>5. dev' = SetSrq(dev, post) \/ dev' = SetSrq(dev, lose)
  BY <1>1, <1>2, <1>3 DEF DevRec, SrqRec, SetSrq
<1>6. B \in Nat /\ MaxSrqWr \in Nat
  BY BusyType, DeviceAssumption
<1>7. /\ o.nr_recv_wqe >= 0 /\ o.free + o.nr_recv_wqe + o.lost + B = MaxSrqWr
      /\ o.events <= 1 /\ (o.events > 0 => o.issue_srq_limit)
  BY <1>2 DEF Books
<1>8. post \in SrqRec /\ lose \in SrqRec
  <2> HIDE DEF o
  <2>1. o.free - 1 \in Int /\ o.nr_recv_wqe + 1 \in Int /\ o.lost + 1 \in Nat
    BY <1>4
  <2>2. post \in SrqRec
    BY <1>3, <2>1 DEF SrqRec
  <2>3. lose \in SrqRec
    BY <1>3, <2>1 DEF SrqRec
  <2> QED BY <2>2, <2>3
<1>9. /\ post.free = o.free - 1 /\ post.nr_recv_wqe = o.nr_recv_wqe + 1
      /\ post.lost = o.lost /\ post.events = o.events
      /\ post.issue_srq_limit = o.issue_srq_limit
  BY <1>3 DEF SrqRec
<1>10. /\ lose.free = o.free - 1 /\ lose.nr_recv_wqe = o.nr_recv_wqe
       /\ lose.lost = o.lost + 1 /\ lose.events = o.events
       /\ lose.issue_srq_limit = o.issue_srq_limit
  BY <1>3 DEF SrqRec
<1> HIDE DEF post, lose, B, o, l
<1>11. /\ post.free + post.nr_recv_wqe + post.lost + B = MaxSrqWr
       /\ post.free >= 0 /\ post.nr_recv_wqe >= 0
  BY <1>1, <1>4, <1>6, <1>7, <1>9
<1>12. /\ lose.free + lose.nr_recv_wqe + lose.lost + B = MaxSrqWr
       /\ lose.free >= 0 /\ lose.nr_recv_wqe >= 0
  BY <1>1, <1>4, <1>6, <1>7, <1>10
<1>13. Books(post, dev.qp)
  BY <1>7, <1>9, <1>11 DEF Books, B
<1>14. Books(lose, dev.qp)
  BY <1>7, <1>10, <1>12 DEF Books, B
<1>15. /\ DeviceOK(SetSrq(dev, post), consumer, l)
       /\ Lives(dev, SetSrq(dev, post))
  BY <1>2, <1>8, <1>13, SetSrqOK
<1>16. /\ DeviceOK(SetSrq(dev, lose), consumer, l)
       /\ Lives(dev, SetSrq(dev, lose))
  BY <1>2, <1>8, <1>14, SetSrqOK
<1>17. DeviceOK(dev', consumer, l) /\ Lives(dev, dev')
  BY <1>5, <1>15, <1>16
<1> QED
  BY <1>1, <1>17, StepOK

LEMMA ModifySrqOK ==
  ASSUME IInv, NEW limit \in Limits, pib_modify_srq(limit)
  PROVE  IInv'
<1> DEFINE l == [calls EXCEPT !["modify"] = @ + 1]
           o == dev.srq
           s == [o EXCEPT !.srq_limit = limit, !.events = 0,
                          !.issue_srq_limit = FALSE]
<1>1. /\ calls' = l /\ consumer' = consumer /\ picked' = picked
      /\ failing' = failing
      /\ dev' = [dev EXCEPT !.srq.srq_limit = limit, !.srq.events = 0,
                            !.srq.issue_srq_limit = FALSE]
  BY DEF pib_modify_srq, Bounded
<1>2. DeviceOK(dev, consumer, l) /\ dev \in DevRec /\ Books(o, dev.qp)
  BY MoreCalls DEF IInv, DeviceOK, Queues
<1>3. o \in SrqRec /\ limit \in Nat
  BY <1>2, DevFields, DeviceAssumption
<1>4. dev' = SetSrq(dev, s)
  BY <1>1, <1>2, <1>3 DEF DevRec, SrqRec, SetSrq
<1>5. s \in SrqRec
  BY <1>3 DEF SrqRec
<1>6. /\ s.free = o.free /\ s.nr_recv_wqe = o.nr_recv_wqe /\ s.lost = o.lost
      /\ s.events = 0
  BY <1>3 DEF SrqRec
<1> HIDE DEF s, o, l
<1>7. Books(s, dev.qp)
  BY <1>2, <1>6 DEF Books
<1>8. DeviceOK(SetSrq(dev, s), consumer, l) /\ Lives(dev, SetSrq(dev, s))
  BY <1>2, <1>5, <1>7, SetSrqOK
<1> QED
  BY <1>1, <1>4, <1>8, StepOK

LEMMA InjectOK ==
  ASSUME IInv, NEW t \in CQs \cup QPs \cup {SRQ}, inject_err_write(t)
  PROVE  IInv'
<1> DEFINE l == [calls EXCEPT !["modify"] = @ + 1]
           e == [dev EXCEPT !.inject = t]
           r == pib_queue_work(e, "inject", "no")
           U == Used(dev.qp)
<1>1. /\ calls' = l /\ consumer' = consumer /\ picked' = picked
      /\ failing' = failing /\ dev' = r /\ "inject" \notin Range(dev.works)
  BY DEF inject_err_write, Bounded
<1>2. DeviceOK(dev, consumer, l) /\ dev \in DevRec
  BY MoreCalls DEF IInv, DeviceOK, Queues
<1>3. /\ Queues(dev, consumer, U) /\ Unique(dev.works)
      /\ Books(dev.srq, dev.qp) /\ CallsOK(l, dev.qp)
  BY <1>2 DEF DeviceOK, Queues
<1>4. e \in DevRec
  BY <1>2 DEF DevRec
<1>5. /\ e.cq = dev.cq /\ e.qp = dev.qp /\ e.srq = dev.srq
      /\ e.works = dev.works /\ e.lost = dev.lost
  BY <1>2 DEF DevRec
<1>6. "inject" \in Works
  BY DEF Works
<1> HIDE DEF e, l, U
<1>7. /\ r \in DevRec /\ Unique(r.works) /\ KeepsRest(e, r) /\ r.cq = e.cq
      /\ \A x : x # "inject" =>
           /\ x \in Range(r.works) <=> x \in Range(e.works)
           /\ x \in r.lost <=> x \in e.lost
  BY <1>1, <1>3, <1>4, <1>5, <1>6, QueueWorkOK
<1> HIDE DEF r
<1>8. /\ r.qp = dev.qp /\ r.srq = dev.srq /\ r.cq = dev.cq
      /\ dev.works # <<>> => r.works # <<>>
  BY <1>5, <1>7 DEF KeepsRest
<1>9. ASSUME NEW x \in CQs
      PROVE  /\ Awake(r.cq[x], consumer[x])
             /\ Life(r.cq[x], x \in Range(r.works), x \in r.lost, x \in U)
  <2>1. /\ Awake(dev.cq[x], consumer[x])
        /\ Life(dev.cq[x], x \in Range(dev.works), x \in dev.lost, x \in U)
    BY <1>3 DEF Queues
  <2>2. /\ x \in Range(r.works) <=> x \in Range(dev.works)
        /\ x \in r.lost <=> x \in dev.lost
    BY <1>5, <1>7, DeviceAssumption
  <2> QED BY <1>8, <2>1, <2>2 DEF Life
<1>10. consumer \in [CQs -> Pcs]
  BY <1>3 DEF Queues
<1>11. Queues(r, consumer, U)
  BY <1>7, <1>9, <1>10 DEF Queues
<1>12. DeviceOK(r, consumer, l)
  BY <1>3, <1>8, <1>11 DEF DeviceOK, U
<1>13. Lives(dev, r)
  BY <1>8 DEF Lives
<1> QED
  BY <1>1, <1>12, <1>13, StepOK

-----------------------------------------------------------------------------
(* The consumer                                                            *)

(* What is known of a CQ whose consumer moves.                             *)
LEMMA CqOfDevice ==
  ASSUME IInv, NEW c \in CQs
  PROVE  /\ dev \in DevRec /\ DeviceOK(dev, consumer, calls)
         /\ dev.cq[c] \in CqType /\ consumer \in [CQs -> Pcs]
         /\ Awake(dev.cq[c], consumer[c])
         /\ Life(dev.cq[c], c \in Range(dev.works), c \in dev.lost,
                 c \in Used(dev.qp))
<1>1. DeviceOK(dev, consumer, calls) /\ dev \in DevRec
  BY DEF IInv, DeviceOK, Queues
<1> QED
  BY <1>1, DevFields DEF DeviceOK, Queues

LEMMA GetEventOK ==
  ASSUME IInv, NEW c \in CQs, GetEvent(c)
  PROVE  IInv'
<1> DEFINE k == dev.cq[c]
           f == [k EXCEPT !.event = FALSE]
           r == [dev EXCEPT !.cq[c] = f]
           p == [consumer EXCEPT ![c] = "arm"]
<1>1. /\ consumer[c] = "wait" /\ k.event /\ consumer' = p /\ picked' = picked
      /\ failing' = failing /\ calls' = calls
      /\ dev' = [dev EXCEPT !.cq[c].event = FALSE]
  BY DEF GetEvent
<1>2. /\ dev \in DevRec /\ DeviceOK(dev, consumer, calls) /\ k \in CqType
      /\ Awake(k, consumer[c])
      /\ Life(k, c \in Range(dev.works), c \in dev.lost, c \in Used(dev.qp))
  BY CqOfDevice
<1>3. dev' = r
  BY <1>1, <1>2 DEF DevRec, CqType
<1>4. f \in CqType
  BY <1>2 DEF CqType
<1>5. /\ f.mem = k.mem /\ f.state = k.state /\ f.reported = k.reported
      /\ f.event = FALSE /\ f.has_notified = k.has_notified
      /\ f.cqes = k.cqes /\ f.free = k.free
  BY <1>2 DEF CqType
<1> HIDE DEF f, k
<1>6. Awake(f, "arm") /\ "arm" \in Pcs
  BY <1>1, <1>2, <1>5 DEF Awake, Pcs
<1>7. Life(f, c \in Range(dev.works), c \in dev.lost, c \in Used(dev.qp))
  BY <1>2, <1>5 DEF Life
<1>8. DeviceOK(r, p, calls) /\ Lives(dev, r)
  BY <1>2, <1>4, <1>6, <1>7, CqChanged
<1> HIDE DEF r, p
<1> QED
  BY <1>1, <1>3, <1>8, StepOK

(* The consumer moves and its CQ does not change.                          *)
LEMMA ConsumerMoves ==
  ASSUME IInv, NEW c \in CQs, NEW pc \in Pcs, Awake(dev.cq[c], pc),
         consumer' = [consumer EXCEPT ![c] = pc], dev' = dev,
         picked' = picked, failing' = failing, calls' = calls
  PROVE  IInv'
<1> DEFINE k == dev.cq[c]
           r == [dev EXCEPT !.cq[c] = k]
           p == [consumer EXCEPT ![c] = pc]
<1>1. /\ dev \in DevRec /\ DeviceOK(dev, consumer, calls) /\ k \in CqType
      /\ Life(k, c \in Range(dev.works), c \in dev.lost, c \in Used(dev.qp))
  BY CqOfDevice
<1>2. r = dev
  BY <1>1 DEF DevRec
<1> HIDE DEF k
<1>3. Awake(k, pc)
  BY DEF k
<1>4. DeviceOK(r, p, calls) /\ Lives(dev, r)
  BY <1>1, <1>3, CqChanged
<1> HIDE DEF r, p
<1>5. consumer' = p
  BY DEF p
<1> QED
  BY <1>2, <1>4, <1>5, StepOK

LEMMA ReqNotifyOK ==
  ASSUME IInv, NEW c \in CQs, pib_req_notify_cq(c)
  PROVE  IInv'
<1> DEFINE k == dev.cq[c]
           f == Arm(k, Notify[c])
           r == [dev EXCEPT !.cq[c] = f]
           p == [consumer EXCEPT ![c] = "poll"]
<1>1. /\ consumer[c] = "arm" /\ picked' = picked /\ failing' = failing
      /\ calls' = calls
  BY DEF pib_req_notify_cq
<1>2. /\ dev \in DevRec /\ DeviceOK(dev, consumer, calls) /\ k \in CqType
      /\ Awake(k, consumer[c])
      /\ Life(k, c \in Range(dev.works), c \in dev.lost, c \in Used(dev.qp))
  BY CqOfDevice
<1>3. CASE k.state = "OK"
  <2>1. dev' = r /\ consumer' = p
    BY <1>3 DEF pib_req_notify_cq
  <2>2. Notify[c] \in {"NONE", "NEXT_COMP", "SOLICITED"}
    BY DeviceAssumption
  <2>3. f \in CqType
    BY <1>2, <2>2 DEF CqType, Arm
  <2>4. /\ f.mem = k.mem /\ f.state = k.state /\ f.reported = k.reported
        /\ f.event = k.event /\ f.has_notified = FALSE
        /\ f.cqes = k.cqes /\ f.free = k.free /\ f.notify_flag # "NONE"
    BY <1>2, DeviceAssumption DEF CqType, Arm
  <2> HIDE DEF f, k
  <2>5. Awake(f, "poll") /\ "poll" \in Pcs
    BY <1>1, <1>2, <2>4 DEF Awake, Pcs
  <2>6. Life(f, c \in Range(dev.works), c \in dev.lost, c \in Used(dev.qp))
    BY <1>2, <2>4 DEF Life
  <2>7. DeviceOK(r, p, calls) /\ Lives(dev, r)
    BY <1>2, <2>3, <2>5, <2>6, CqChanged
  <2> HIDE DEF r, p
  <2> QED BY <1>1, <2>1, <2>7, StepOK
<1>4. CASE k.state # "OK"
  <2>1. dev' = dev /\ consumer' = [consumer EXCEPT ![c] = "gone"]
    BY <1>4 DEF pib_req_notify_cq
  <2>2. Awake(k, "gone") /\ "gone" \in Pcs
    BY DEF Awake, Pcs
  <2> QED BY <1>1, <2>1, <2>2, ConsumerMoves
<1> QED
  BY <1>3, <1>4

LEMMA PollOK ==
  ASSUME IInv, NEW c \in CQs, pib_poll_cq(c)
  PROVE  IInv'
<1> DEFINE k == dev.cq[c]
<1>1. /\ consumer[c] = "poll" /\ picked' = picked /\ failing' = failing
      /\ calls' = calls
  BY DEF pib_poll_cq
<1>2. /\ dev \in DevRec /\ DeviceOK(dev, consumer, calls) /\ k \in CqType
      /\ Awake(k, consumer[c]) /\ consumer \in [CQs -> Pcs]
      /\ Life(k, c \in Range(dev.works), c \in dev.lost, c \in Used(dev.qp))
  BY CqOfDevice
<1>3. CASE k.state # "OK"
  <2>1. dev' = dev /\ consumer' = [consumer EXCEPT ![c] = "gone"]
    BY <1>3 DEF pib_poll_cq
  <2>2. Awake(k, "gone") /\ "gone" \in Pcs
    BY DEF Awake, Pcs
  <2> QED BY <1>1, <2>1, <2>2, ConsumerMoves
<1>4. CASE k.state = "OK" /\ k.cqes = <<>>
  <2>1. dev' = dev /\ consumer' = [consumer EXCEPT ![c] = "wait"]
    BY <1>4 DEF pib_poll_cq
  <2>2. Quiet(k)
    BY <1>4 DEF Quiet
  <2>3. Awake(k, "wait") /\ "wait" \in Pcs
    BY <1>1, <1>2, <2>2 DEF Awake, Pcs
  <2> QED BY <1>1, <2>1, <2>3, ConsumerMoves
<1>5. CASE k.state = "OK" /\ k.cqes # <<>>
  <2> DEFINE t == Tail(k.cqes)
             n == k.free + 1
             f == [k EXCEPT !.cqes = t, !.free = n]
             r == [dev EXCEPT !.cq[c] = f]
             p == [consumer EXCEPT ![c] = "poll"]
  <2>1. /\ dev' = [dev EXCEPT !.cq[c].cqes = Tail(@), !.cq[c].free = @ + 1]
        /\ consumer' = consumer
    BY <1>5 DEF pib_poll_cq
  <2>2. dev' = r
    BY <1>2, <2>1 DEF DevRec, CqType
  <2>3. p = consumer
    BY <1>1, <1>2
  <2>4. k.mem = "live" /\ k.free + Len(k.cqes) = CqEntries
    BY <1>1, <1>2 DEF Awake, Life
  <2>5. k.cqes \in Seq(Cqe) /\ k.free \in Nat /\ CqEntries \in Nat
    BY <1>2, CqFields
  <2>6. /\ t \in Seq(Cqe) /\ Len(t) = Len(k.cqes) - 1
        /\ Len(k.cqes) \in Nat \ {0}
    BY <1>5, <2>5, HeadAndTail
  <2>7. n \in 0 .. CqEntries /\ n + Len(t) = CqEntries
    <3> DEFINE a == Len(k.cqes)
               b == Len(t)
    <3>1. /\ a \in Nat \ {0} /\ b = a - 1 /\ k.free + a = CqEntries
      BY <2>4, <2>6
    <3> HIDE DEF a, b
    <3>2. n \in 0 .. CqEntries /\ n + b = CqEntries
      BY <2>5, <3>1
    <3> QED BY <3>2 DEF b
  <2> HIDE DEF t, n
  <2>8. f \in CqType
    BY <1>2, <2>6, <2>7 DEF CqType, Cqe
  <2>9. /\ f.mem = k.mem /\ f.state = k.state /\ f.reported = k.reported
        /\ f.event = k.event /\ f.has_notified = k.has_notified
        /\ f.cqes = t /\ f.free = n /\ f.notify_flag = k.notify_flag
    BY <1>2 DEF CqType
  <2> HIDE DEF f, k
  <2>10. Awake(f, "poll") /\ "poll" \in Pcs
    BY <1>1, <1>2, <2>9 DEF Awake, Pcs
  <2>11. Life(f, c \in Range(dev.works), c \in dev.lost, c \in Used(dev.qp))
    BY <1>2, <2>7, <2>9 DEF Life
  <2>12. DeviceOK(r, p, calls) /\ Lives(dev, r)
    BY <1>2, <2>8, <2>10, <2>11, CqChanged
  <2> HIDE DEF r, p
  <2> QED BY <1>1, <2>1, <2>2, <2>3, <2>12, StepOK
<1> QED
  BY <1>3, <1>4, <1>5

-----------------------------------------------------------------------------
(* The thread                                                              *)

LEMMA CompleteSendOK ==
  ASSUME IInv, NEW q \in QPs, CompleteSend(q)
  PROVE  IInv'
<1> DEFINE d == [dev EXCEPT !.qp[q].sends = @ - 1]
           wc == [sol |-> FALSE, owed |-> "no"]
           a == insert_wc(d, SendCq[q], q, wc, "no")
           b == insert_wc(d, SendCq[q], q, ErrorWc, "no")
           f == FlushToError(b, q, "no")
<1>1. /\ dev.qp[q].state # "NONE" /\ dev.qp[q].sends > 0
      /\ consumer' = consumer /\ picked' = picked /\ failing' = failing
      /\ calls' = calls
  BY DEF CompleteSend
<1>2. dev' = a \/ dev' = f
  BY DEF CompleteSend, insert_wc_error
<1>3. DeviceOK(dev, consumer, calls)
  BY DEF IInv
<1>4. DeviceOK(d, consumer, calls) /\ Lives(dev, d) /\ d.qp[q].state # "NONE"
  BY <1>1, <1>3, TakeSend
<1>5. SendCq[q] \in CqsOf(q)
  BY DEF CqsOf
<1> HIDE DEF d
<1>6. DeviceOK(a, consumer, calls) /\ Lives(d, a)
  <2>1. wc \in Completions
    BY DEF Completions, Owed
  <2> HIDE DEF wc
  <2> QED BY <1>4, <1>5, <2>1, InsertDevice
<1>7. DeviceOK(b, consumer, calls) /\ Lives(d, b)
  <2>1. ErrorWc \in Completions
    BY FailuresWake
  <2> QED BY <1>4, <1>5, <2>1, InsertDevice
<1> HIDE DEF a, b
<1>8. DeviceOK(f, consumer, calls) /\ Lives(b, f)
  <2>1. b.qp[q].state # "NONE"
    BY <1>4, <1>7 DEF Lives
  <2> QED BY <1>7, <2>1, FlushDevice
<1> HIDE DEF f
<1>9. Lives(dev, a) /\ Lives(dev, f)
  BY <1>4, <1>6, <1>7, <1>8, LivesTrans
<1>10. DeviceOK(dev', consumer, calls) /\ Lives(dev, dev')
  BY <1>2, <1>6, <1>8, <1>9
<1> QED
  BY <1>1, <1>10, StepOK

LEMMA ReceiveFirstOK ==
  ASSUME IInv, NEW q \in QPs, ReceiveFirst(q)
  PROVE  IInv'
<1> DEFINE o == dev.srq
           s == pib_util_get_srq(o)
           x == [dev.qp[q] EXCEPT !.rq = 1]
           e == SetSrq(dev, s)
           r == SetQp(e, q, x)
           n == [dev.qp EXCEPT ![q] = x]
           U == Used(dev.qp)
           B == Cardinality(Busy(dev.qp))
           C == Cardinality(Busy(n))
           tell == /\ o.srq_limit # 0 /\ ~o.issue_srq_limit
                   /\ o.nr_recv_wqe - 1 < o.srq_limit
<1>1. /\ dev.qp[q].state = "RTS" /\ dev.qp[q].rq = 0 /\ o.nr_recv_wqe > 0
      /\ consumer' = consumer /\ picked' = picked /\ failing' = failing
      /\ calls' = calls
      /\ dev' = [dev EXCEPT !.srq = s, !.qp[q].rq = 1]
  BY DEF ReceiveFirst, SrqHasWqe
<1>2. /\ dev \in DevRec /\ Queues(dev, consumer, U) /\ Books(o, dev.qp)
      /\ CallsOK(calls, dev.qp)
  BY DEF IInv, DeviceOK, Queues
<1>3. dev.qp \in [QPs -> QpRec] /\ dev.qp[q] \in QpRec /\ o \in SrqRec
  BY <1>2, DevFields
<1>4. /\ x \in QpRec /\ x.rq = 1 /\ x.state = "RTS"
      /\ x.sends = dev.qp[q].sends /\ x.sends \in Nat
  BY <1>1, <1>3 DEF QpRec
<1>5. /\ o.free \in Int /\ o.nr_recv_wqe \in Int /\ o.lost \in Nat
      /\ o.events \in Nat /\ o.issue_srq_limit \in BOOLEAN
      /\ o.srq_limit \in Nat
  BY <1>3, SrqFields
<1>6. s = [o EXCEPT !.nr_recv_wqe = o.nr_recv_wqe - 1,
                    !.issue_srq_limit = o.issue_srq_limit \/ tell,
                    !.events = IF tell THEN o.events + 1 ELSE o.events]
  BY <1>3 DEF pib_util_get_srq, SrqRec
<1> HIDE DEF o
<1>7. s \in SrqRec
  <2>1. /\ o.nr_recv_wqe - 1 \in Int
        /\ (o.issue_srq_limit \/ tell) \in BOOLEAN
        /\ (IF tell THEN o.events + 1 ELSE o.events) \in Nat
    BY <1>5
  <2> HIDE DEF s, tell
  <2> QED BY <1>3, <1>6, <2>1 DEF SrqRec
<1>8. /\ s.free = o.free /\ s.nr_recv_wqe = o.nr_recv_wqe - 1
      /\ s.lost = o.lost
      /\ s.issue_srq_limit = (o.issue_srq_limit \/ tell)
      /\ s.events = IF tell THEN o.events + 1 ELSE o.events
  <2> HIDE DEF s, tell
  <2> QED BY <1>3, <1>6 DEF SrqRec
<1>9. dev' = r
  <2> HIDE DEF s
  <2> QED BY <1>1, <1>2, <1>3 DEF DevRec, QpRec, SetSrq, SetQp
<1> HIDE DEF s, x, U
<1>10. C = B - 0 + 1
  BY <1>1, <1>3, <1>4, BusyChange
<1>11. B \in Nat /\ C \in Nat
  BY BusyType
<1> HIDE DEF B, C
<1>12. /\ o.nr_recv_wqe >= 0 /\ o.free >= 0
       /\ o.free + o.nr_recv_wqe + o.lost + B = MaxSrqWr
       /\ o.events <= 1 /\ (o.events > 0 => o.issue_srq_limit)
  BY <1>2 DEF Books, B
<1>13. s.free + s.nr_recv_wqe + s.lost + C = MaxSrqWr
  <2> HIDE DEF tell
  <2> QED BY <1>5, <1>8, <1>10, <1>11, <1>12
<1>14. s.free >= 0 /\ s.nr_recv_wqe >= 0
  BY <1>1, <1>5, <1>8, <1>12
<1>15. s.events <= 1 /\ (s.events > 0 => s.issue_srq_limit)
  <2>1. CASE tell
    <3>1. ~(o.events > 0)
      BY <1>12, <2>1
    <3>2. o.events = 0
      BY <1>5, <3>1
    <3>3. s.events = o.events + 1
      BY <1>8, <2>1
    <3>4. s.issue_srq_limit
      <4> HIDE DEF tell
      <4> QED BY <1>8, <2>1, Zenon
    <3> QED BY <3>2, <3>3, <3>4
  <2>2. CASE ~tell
    <3>1. s.events = o.events /\ s.issue_srq_limit = o.issue_srq_limit
      BY <1>5, <1>8, <2>2
    <3> QED BY <1>12, <3>1
  <2> QED BY <2>1, <2>2
<1>16. Books(s, n)
  BY <1>13, <1>14, <1>15 DEF Books, C
<1>17. e \in DevRec
  BY <1>2, <1>7 DEF DevRec, SetSrq
<1>18. /\ e.qp = dev.qp /\ e.srq = s /\ e.cq = dev.cq /\ e.works = dev.works
       /\ e.lost = dev.lost
  BY <1>2 DEF DevRec, SetSrq
<1> HIDE DEF e
<1>19. Queues(e, consumer, U)
  BY <1>2, <1>17, <1>18, ChangeRest
<1>20. Queues(r, consumer, U) /\ OnlyQp(e, r, q, x)
  BY <1>4, <1>19, SetQpOK
<1> HIDE DEF r
<1>21. r.qp = n /\ r.srq = s /\ r.works = dev.works
  BY <1>18, <1>20 DEF OnlyQp
<1>22. Books(r.srq, r.qp)
  BY <1>16, <1>21
<1>23. x.sends <= dev.qp[q].sends
  BY <1>4
<1>24. DeviceOK(dev, consumer, calls)
  BY DEF IInv
<1>25. DeviceOK(r, consumer, calls) /\ Lives(dev, r)
  BY <1>1, <1>4, <1>20, <1>21, <1>22, <1>23, <1>24, QpChanged DEF U
<1> QED
  BY <1>1, <1>9, <1>25, StepOK

LEMMA ReceiveLastOK ==
  ASSUME IInv, NEW q \in QPs, NEW padded \in BOOLEAN,
         ReceiveLast(q, padded)
  PROVE  IInv'
<1> DEFINE d == [dev EXCEPT !.qp[q].rq = 0]
           wc == Received(q, padded)
           a == pib_util_free_recv_wqe(insert_wc(d, RecvCq[q], q, wc, "no"))
           b == pib_util_free_recv_wqe(insert_wc(d, RecvCq[q], q, ErrorWc, "no"))
           f == FlushToError(b, q, "no")
<1>1. /\ dev.qp[q].state # "NONE" /\ dev.qp[q].rq = 1
      /\ consumer' = consumer /\ picked' = picked /\ failing' = failing
      /\ calls' = calls
  BY DEF ReceiveLast
<1>2. dev' = a \/ dev' = f
  BY DEF ReceiveLast, insert_wc_error
<1>3. DeviceOK(dev, consumer, calls)
  BY DEF IInv
<1>4. DeviceOK(a, consumer, calls) /\ Lives(dev, a)
  <2>1. wc \in Completions
    BY DEF Completions, Owed, Received
  <2> HIDE DEF wc
  <2> QED BY <1>1, <1>3, <2>1, GiveBack
<1>5. DeviceOK(b, consumer, calls) /\ Lives(dev, b) /\ b.qp[q].state # "NONE"
  BY <1>1, <1>3, GiveBack, FailuresWake
<1> HIDE DEF a, b
<1>6. DeviceOK(f, consumer, calls) /\ Lives(b, f)
  BY <1>5, FlushDevice
<1> HIDE DEF f
<1>7. Lives(dev, f)
  BY <1>5, <1>6, LivesTrans
<1>8. DeviceOK(dev', consumer, calls) /\ Lives(dev, dev')
  BY <1>2, <1>4, <1>6, <1>7
<1> QED
  BY <1>1, <1>8, StepOK

LEMMA PickWorkOK ==
  ASSUME IInv, PickWork
  PROVE  IInv'
  BY DEF IInv, ThreadOK, PickWork

LEMMA FailNextOK ==
  ASSUME IInv, NEW q \in QPs, FailNext(q)
  PROVE  IInv'
<1> DEFINE r == FlushToError(dev, q, "no")
<1>1. /\ q \in failing /\ dev' = r /\ failing' \subseteq failing
      /\ consumer' = consumer /\ picked' = picked /\ calls' = calls
  BY DEF FailNext
<1>2. DeviceOK(dev, consumer, calls) /\ dev.qp[q].state # "NONE"
  BY <1>1 DEF IInv, ThreadOK
<1>3. DeviceOK(r, consumer, calls) /\ Lives(dev, r)
  BY <1>2, FlushDevice
<1> HIDE DEF r
<1> QED
  BY <1>1, <1>3, StepOK

(* A CQ goes into error and this is reported, while the first work leaves  *)
(* the queue.                                                              *)
LEMMA CqErrorOK ==
  ASSUME NEW d, NEW p, NEW k, DeviceOK(d, p, k), NEW s \in Seq(Works),
         Unique(s), NEW c \in CQs, d.cq[c].mem # "gone",
         \A x \in CQs : x # c => (x \in Range(s) <=> x \in Range(d.works))
  PROVE  LET g == [d EXCEPT !.works = s]
             r == [g EXCEPT !.cq[c].state = "ERR", !.cq[c].reported = TRUE]
         IN  DeviceOK(r, p, k) /\ r.qp = d.qp
<1> DEFINE o == d.cq[c]
           f == [o EXCEPT !.state = "ERR", !.reported = TRUE]
           r == [d EXCEPT !.works = s, !.cq[c] = f]
           g == [d EXCEPT !.works = s]
           U == Used(d.qp)
<1>1. /\ d \in DevRec /\ Queues(d, p, U) /\ Books(d.srq, d.qp)
      /\ CallsOK(k, d.qp)
  BY DEF DeviceOK, Queues
<1>2. /\ o \in CqType /\ Awake(o, p[c])
      /\ Life(o, c \in Range(d.works), c \in d.lost, c \in U)
  BY <1>1, DevFields DEF Queues
<1>3. r = [g EXCEPT !.cq[c].state = "ERR", !.cq[c].reported = TRUE]
  BY <1>1, <1>2 DEF DevRec, CqType
<1>4. f \in CqType
  BY <1>2 DEF CqType
<1>5. /\ f.mem = o.mem /\ f.state = "ERR" /\ f.reported
      /\ f.event = o.event /\ f.has_notified = o.has_notified
      /\ f.cqes = o.cqes /\ f.free = o.free /\ f.notify_flag = o.notify_flag
  BY <1>2 DEF CqType
<1> HIDE DEF f, U, g
<1>6. r \in DevRec
  BY <1>1, <1>4 DEF DevRec
<1>7. /\ r.qp = d.qp /\ r.srq = d.srq /\ r.works = s /\ r.lost = d.lost
      /\ r.cq[c] = f /\ \A x \in CQs : x # c => r.cq[x] = d.cq[x]
  BY <1>1 DEF DevRec
<1> HIDE DEF r, o
<1>8. SameOthers(d, r, c) /\ Unique(r.works)
  BY <1>7 DEF SameOthers
<1>9. Awake(f, p[c])
  BY <1>2, <1>5 DEF Awake
<1>10. o.mem # "gone"
  BY DEF o
<1>11. Life(f, c \in Range(s), c \in d.lost, c \in U)
  BY <1>2, <1>5, <1>10 DEF Life
<1>12. /\ Awake(r.cq[c], p[c])
       /\ Life(r.cq[c], c \in Range(r.works), c \in r.lost, c \in U)
  BY <1>7, <1>9, <1>11
<1>13. Queues(r, p, U)
  BY <1>1, <1>6, <1>8, <1>12, ChangeOneCq
<1>14. DeviceOK(r, p, k)
  BY <1>1, <1>7, <1>13 DEF DeviceOK, U
<1> QED
  BY <1>3, <1>7, <1>14 DEF g

(* The injected error leaves the queue.                                    *)
LEMMA InjectRemoved ==
  ASSUME NEW d, NEW p, NEW k, DeviceOK(d, p, k), NEW s \in Seq(Works),
         Unique(s), \A x \in CQs : x \in Range(s) <=> x \in Range(d.works)
  PROVE  LET r == [d EXCEPT !.works = s]
         IN  /\ DeviceOK(r, p, k) /\ r.qp = d.qp /\ r.srq = d.srq
             /\ r.cq = d.cq /\ r.inject = d.inject
<1> DEFINE r == [d EXCEPT !.works = s]
           U == Used(d.qp)
<1>1. /\ d \in DevRec /\ Queues(d, p, U) /\ Books(d.srq, d.qp)
      /\ CallsOK(k, d.qp)
  BY DEF DeviceOK, Queues
<1>2. r \in DevRec
  BY <1>1 DEF DevRec
<1>3. /\ r.qp = d.qp /\ r.srq = d.srq /\ r.works = s /\ r.lost = d.lost
      /\ r.cq = d.cq /\ r.inject = d.inject
  BY <1>1 DEF DevRec
<1> HIDE DEF r, U
<1>4. ASSUME NEW x \in CQs
      PROVE  /\ Awake(r.cq[x], p[x])
             /\ Life(r.cq[x], x \in Range(r.works), x \in r.lost, x \in U)
  <2>1. /\ Awake(d.cq[x], p[x])
        /\ Life(d.cq[x], x \in Range(d.works), x \in d.lost, x \in U)
    BY <1>1 DEF Queues
  <2>2. x \in Range(r.works) <=> x \in Range(d.works)
    BY <1>3
  <2> QED BY <1>3, <2>1, <2>2 DEF Life
<1>5. Unique(r.works) /\ p \in [CQs -> Pcs]
  BY <1>1, <1>3 DEF Queues
<1>6. Queues(r, p, U)
  BY <1>2, <1>4, <1>5 DEF Queues
<1>7. DeviceOK(r, p, k)
  BY <1>1, <1>3, <1>6 DEF DeviceOK, U
<1> QED
  BY <1>3, <1>7 DEF r

(* The QPs that a work is going to fail live.                              *)
LEMMA LivingLives ==
  ASSUME NEW d, NEW A \in SUBSET QPs
  PROVE  /\ Living(d, A) \subseteq QPs
         /\ \A q \in Living(d, A) : d.qp[q].state # "NONE"
  BY DEF Living

LEMMA RunWorkOK ==
  ASSUME IInv, RunWork
  PROVE  IInv'
<1> DEFINE w == Head(dev.works)
           s == Tail(dev.works)
           d == [dev EXCEPT !.works = s]
<1>1. /\ picked /\ picked' = FALSE /\ consumer' = consumer /\ calls' = calls
      /\ dev.works # <<>>
  BY DEF IInv, ThreadOK, RunWork
<1>2. d = [dev EXCEPT !.works = Tail(@)]
  OBVIOUS
<1>3. DeviceOK(dev, consumer, calls) /\ dev \in DevRec /\ Unique(dev.works)
  BY DEF IInv, DeviceOK, Queues
<1>4. dev.works \in Seq(Works) /\ dev.inject \in CQs \cup QPs \cup {SRQ}
  BY <1>3, DevFields
<1>5. /\ w \in Works /\ s \in Seq(Works) /\ Unique(s)
      /\ Range(s) = Range(dev.works) \ {w}
  BY <1>1, <1>3, <1>4, WithoutHead
<1>6. w \in Range(dev.works)
  BY <1>1, <1>4, RangeOfTail
<1>7. d.qp = dev.qp /\ d.inject = dev.inject /\ d.cq = dev.cq /\ d.srq = dev.srq
  BY <1>3 DEF DevRec
<1> SUFFICES /\ DeviceOK(dev', consumer, calls)
             /\ failing' \subseteq QPs
             /\ \A q \in failing' : dev'.qp[q].state # "NONE"
  BY <1>1 DEF IInv, ThreadOK
<1>8. ASSUME NEW c \in CQs, dev.cq[c].mem # "gone", w \in {c, "inject"},
             dev' = pib_util_insert_async_cq_error(d, c).dev,
             failing' = pib_util_insert_async_cq_error(d, c).failing
      PROVE  /\ DeviceOK(dev', consumer, calls)
             /\ failing' \subseteq QPs
             /\ \A q \in failing' : dev'.qp[q].state # "NONE"
  <2> DEFINE A == {q \in QPs : c \in {SendCq[q], RecvCq[q]}}
             r == [d EXCEPT !.cq[c].state = "ERR", !.cq[c].reported = TRUE]
  <2>1. dev' = r /\ failing' = Living(d, A)
    BY <1>8 DEF pib_util_insert_async_cq_error
  <2>2. \A x \in CQs : x # c => (x \in Range(s) <=> x \in Range(dev.works))
    BY <1>5, <1>8, DeviceAssumption
  <2>3. DeviceOK(r, consumer, calls) /\ r.qp = dev.qp
    <3> HIDE DEF s
    <3> QED BY <1>3, <1>5, <1>8, <2>2, CqErrorOK
  <2>4. /\ Living(d, A) \subseteq QPs
        /\ \A q \in Living(d, A) : d.qp[q].state # "NONE"
    BY LivingLives
  <2> HIDE DEF r, A, d
  <2> QED BY <1>7, <2>1, <2>3, <2>4
<1>9. CASE w # "inject"
  <2>1. w \in CQs
    BY <1>5, <1>9 DEF Works
  <2>2. dev.cq[w].mem # "gone"
    BY <1>3, <1>6, <2>1 DEF DeviceOK, Queues, Life
  <2>3. /\ dev' = pib_util_insert_async_cq_error(d, w).dev
        /\ failing' = pib_util_insert_async_cq_error(d, w).failing
    BY <1>9 DEF RunWork
  <2> HIDE DEF d, w
  <2> QED BY <1>8, <2>1, <2>2, <2>3
<1>10. CASE w = "inject"
  <2> DEFINE h == pib_inject_err_handler(d)
  <2>1. dev' = h.dev /\ failing' = h.failing
    BY <1>10 DEF RunWork
  <2>2. \A x \in CQs : x \in Range(s) <=> x \in Range(dev.works)
    BY <1>5, <1>10, DeviceAssumption
  <2>3. DeviceOK(d, consumer, calls)
    <3> HIDE DEF s
    <3> QED BY <1>3, <1>5, <2>2, InjectRemoved
  <2> HIDE DEF d
  <2>4. \/ /\ d.inject \in CQs /\ d.cq[d.inject].mem # "gone"
           /\ h = pib_util_insert_async_cq_error(d, d.inject)
        \/ d.inject \in QPs /\ h = [dev |-> d, failing |-> Living(d, {d.inject})]
        \/ h = pib_util_insert_async_srq_error(d)
        \/ h = [dev |-> d, failing |-> {}]
    BY DEF pib_inject_err_handler
  <2> HIDE DEF h
  <2>5. CASE /\ d.inject \in CQs /\ d.cq[d.inject].mem # "gone"
             /\ h = pib_util_insert_async_cq_error(d, d.inject)
    <3> HIDE DEF w
    <3> QED BY <1>7, <1>8, <1>10, <2>1, <2>5
  <2>6. CASE d.inject \in QPs /\ h = [dev |-> d, failing |-> Living(d, {d.inject})]
    <3>1. dev' = d /\ failing' = Living(d, {d.inject})
      BY <2>1, <2>6
    <3>2. {d.inject} \in SUBSET QPs
      BY <2>6
    <3> QED BY <2>3, <3>1, <3>2, LivingLives
  <2>7. CASE h = pib_util_insert_async_srq_error(d)
    <3> DEFINE z == [d.srq EXCEPT !.state = "ERR"]
    <3>1. d \in DevRec /\ Books(d.srq, d.qp)
      BY <2>3 DEF DeviceOK, Queues
    <3>2. d.srq \in SrqRec
      BY <3>1, DevFields
    <3>3. z \in SrqRec /\ Books(z, d.qp)
      BY <3>1, <3>2 DEF SrqRec, Books
    <3>4. dev' = SetSrq(d, z) /\ failing' = Living(d, QPs)
      BY <2>1, <2>7, <3>1 DEF pib_util_insert_async_srq_error, SetSrq, DevRec
    <3> HIDE DEF z
    <3>5. DeviceOK(SetSrq(d, z), consumer, calls) /\ Lives(d, SetSrq(d, z))
      BY <2>3, <3>3, SetSrqOK
    <3>6. /\ Living(d, QPs) \subseteq QPs
          /\ \A q \in Living(d, QPs) : d.qp[q].state # "NONE"
      BY LivingLives
    <3> QED BY <3>4, <3>5, <3>6 DEF Lives
  <2>8. CASE h = [dev |-> d, failing |-> {}]
    BY <2>1, <2>3, <2>8
  <2> QED BY <2>4, <2>5, <2>6, <2>7, <2>8
<1> QED
  BY <1>9, <1>10

-----------------------------------------------------------------------------
(* The invariant                                                           *)

LEMMA InitIInv == Init => IInv
<1> SUFFICES ASSUME Init PROVE IInv
  OBVIOUS
<1>1. /\ dev.cq = [c \in CQs |-> NewCq] /\ dev.qp = [q \in QPs |-> NewQp]
      /\ dev.srq = NewSrq /\ dev.works = <<>> /\ dev.lost = {}
      /\ consumer = [c \in CQs |-> "arm"] /\ picked = FALSE /\ failing = {}
      /\ calls = [k \in {"send", "srq", "modify"} |-> 0]
  BY DEF Init
<1>2. /\ CqEntries \in Nat /\ MaxSrqWr \in Nat /\ MaxPost \in Nat
  BY DeviceAssumption
<1>3. NewCq \in CqType
  <2>1. CqEntries \in 0 .. CqEntries /\ <<>> \in Seq([qp : QPs, owed : Owed])
    BY <1>2
  <2> QED BY <2>1 DEF NewCq, CqType
<1>4. NewQp \in QpRec /\ NewQp.rq = 0 /\ NewQp.sends = 0
  BY DEF NewQp, QpRec
<1>5. NewSrq \in SrqRec
  BY <1>2 DEF NewSrq, SrqRec
<1>6. dev \in DevRec
  <2>1. dev.works \in Seq(Works) /\ dev.lost \in SUBSET Works
    BY <1>1
  <2> DEFINE e == <<>>
             k == [c \in CQs |-> NewCq]
             o == [q \in QPs |-> NewQp]
             n == NewSrq
  <2>2. dev = [cq |-> k, qp |-> o, srq |-> n, works |-> e, lost |-> {},
               broken |-> FALSE, inject |-> SRQ]
    BY DEF Init
  <2>3. k \in [CQs -> CqType] /\ o \in [QPs -> QpRec] /\ e \in Seq(Works)
        /\ n \in SrqRec
    BY <1>3, <1>4, <1>5
  <2> HIDE DEF k, o, e, n
  <2> QED BY <2>2, <2>3 DEF DevRec
<1>7. Unique(dev.works) /\ Range(dev.works) = {}
  BY <1>1 DEF Unique, Range
<1>8. consumer \in [CQs -> Pcs]
  BY <1>1 DEF Pcs
<1>9. ASSUME NEW c \in CQs
      PROVE  /\ Awake(dev.cq[c], consumer[c])
             /\ Life(dev.cq[c], c \in Range(dev.works), c \in dev.lost,
                     c \in Used(dev.qp))
  <2>1. dev.cq[c] = NewCq /\ consumer[c] = "arm" /\ c \notin Range(dev.works)
        /\ c \notin dev.lost
    BY <1>1, <1>7
  <2>2. /\ NewCq.mem = "live" /\ NewCq.has_notified /\ ~NewCq.event
        /\ NewCq.state = "OK" /\ NewCq.free + Len(NewCq.cqes) = CqEntries
    BY <1>2 DEF NewCq
  <2> QED BY <2>1, <2>2 DEF Awake, Life
<1>10. Queues(dev, consumer, Used(dev.qp))
  BY <1>6, <1>7, <1>8, <1>9 DEF Queues
<1>11. Books(dev.srq, dev.qp)
  <2>1. Busy(dev.qp) = {}
    BY <1>1, <1>4 DEF Busy
  <2>2. Cardinality(Busy(dev.qp)) = 0
    BY <2>1, FS_EmptySet
  <2>3. /\ NewSrq.nr_recv_wqe = 0 /\ NewSrq.free = MaxSrqWr
        /\ NewSrq.lost = 0 /\ NewSrq.events = 0
    BY DEF NewSrq
  <2> QED BY <1>1, <1>2, <2>2, <2>3 DEF Books
<1>12. CallsOK(calls, dev.qp)
  BY <1>1, <1>2, <1>4 DEF CallsOK
<1>13. ThreadOK
  BY <1>1 DEF ThreadOK
<1> QED
  BY <1>10, <1>11, <1>12, <1>13 DEF IInv, DeviceOK

LEMMA NextIInv ==
  ASSUME IInv, [Next]_vars
  PROVE  IInv'
<1>1. CASE UNCHANGED vars
  BY <1>1, NoChange
<1>2. CASE Application
  <2>1. ASSUME NEW q \in QPs, \/ pib_post_send(q) \/ ModifyToErr(q)
                              \/ ModifyToReset(q) \/ pib_destroy_qp(q)
        PROVE  IInv'
    BY <2>1, PostSendOK, ModifyToErrOK, ModifyToResetOK, DestroyQpOK
  <2>2. ASSUME NEW c \in CQs, DestroyCqes(c) \/ pib_destroy_cq(c)
        PROVE  IInv'
    BY <2>2, DestroyCqesOK, DestroyCqOK
  <2>3. CASE pib_post_srq_recv
    BY <2>3, PostSrqRecvOK
  <2>4. ASSUME NEW limit \in Limits, pib_modify_srq(limit) PROVE IInv'
    BY <2>4, ModifySrqOK
  <2>5. ASSUME NEW t \in CQs \cup QPs \cup {SRQ}, inject_err_write(t)
        PROVE  IInv'
    BY <2>5, InjectOK
  <2> QED BY <1>2, <2>1, <2>2, <2>3, <2>4, <2>5 DEF Application
<1>3. ASSUME NEW c \in CQs, Consumer(c) PROVE IInv'
  BY <1>3, GetEventOK, ReqNotifyOK, PollOK DEF Consumer
<1>4. CASE Transport
  <2>1. ASSUME NEW q \in QPs, CompleteSend(q) PROVE IInv'
    BY <2>1, CompleteSendOK
  <2>2. ASSUME NEW q \in QPs, ReceiveFirst(q) PROVE IInv'
    BY <2>2, ReceiveFirstOK
  <2>3. ASSUME NEW q \in QPs, NEW padded \in BOOLEAN,
               ReceiveLast(q, padded)
        PROVE  IInv'
    BY <2>3, ReceiveLastOK
  <2> QED BY <1>4, <2>1, <2>2, <2>3 DEF Transport
<1>5. CASE PickWork
  BY <1>5, PickWorkOK
<1>6. CASE RunWork
  BY <1>6, RunWorkOK
<1>7. ASSUME NEW q \in QPs, FailNext(q) PROVE IInv'
  BY <1>7, FailNextOK
<1> QED
  BY <1>1, <1>2, <1>3, <1>4, <1>5, <1>6, <1>7 DEF Next

LEMMA AlwaysIInv == Spec => []IInv
<1>1. IInv /\ [Next]_vars => IInv'
  BY NextIInv
<1> QED
  BY InitIInv, <1>1, PTL DEF Spec

-----------------------------------------------------------------------------
(* The theorems.                                                           *)

(* The device stays well formed: no free CQE, receive WQE or send counter  *)
(* leaves its range, whatever overflows, flushes, resets and destructions  *)
(* have run.                                                               *)
THEOREM TypeCorrect == Spec => []TypeOK
<1>1. ASSUME IInv PROVE TypeOK
  <2> DEFINE s == dev.srq
             B == Cardinality(Busy(dev.qp))
  <2>1. /\ dev \in DevRec /\ consumer \in [CQs -> Pcs] /\ Books(s, dev.qp)
        /\ CallsOK(calls, dev.qp) /\ picked \in BOOLEAN /\ failing \subseteq QPs
    BY <1>1 DEF IInv, DeviceOK, Queues, ThreadOK
  <2>2. /\ dev.cq \in [CQs -> CqType] /\ dev.qp \in [QPs -> QpRec]
        /\ s \in SrqRec /\ dev.works \in Seq(Works) /\ dev.lost \in SUBSET Works
        /\ dev.broken \in BOOLEAN /\ dev.inject \in CQs \cup QPs \cup {SRQ}
    BY <2>1, DevFields
  <2>3. ASSUME NEW q \in QPs
        PROVE  dev.qp[q] \in [state : {"RTS", "ERR", "NONE"},
                              sends : 0 .. MaxPost, rq : {0, 1}]
    <3> DEFINE o == dev.qp[q]
    <3>1. o \in QpRec /\ o.sends \in Nat
      BY <2>2 DEF QpRec
    <3>2. o.sends <= calls["send"] /\ calls["send"] \in Nat
          /\ calls["send"] <= MaxPost /\ MaxPost \in Nat
      BY <2>1, DeviceAssumption DEF CallsOK
    <3> HIDE DEF o
    <3>3. o.sends \in 0 .. MaxPost
      BY <3>1, <3>2
    <3>4. o \in [state : {"RTS", "ERR", "NONE"}, sends : 0 .. MaxPost,
                 rq : {0, 1}]
      BY <3>1, <3>3 DEF QpRec
    <3> QED BY <3>4 DEF o
  <2>4. s \in SrqType
    <3>1. /\ s.free \in Int /\ s.nr_recv_wqe \in Int /\ s.lost \in Nat
      BY <2>2, SrqFields
    <3>2. B \in Nat /\ MaxSrqWr \in Nat
      BY BusyType, DeviceAssumption
    <3>3. /\ s.nr_recv_wqe >= 0 /\ s.free >= 0
          /\ s.free + s.nr_recv_wqe + s.lost + B = MaxSrqWr
      BY <2>1 DEF Books
    <3> HIDE DEF s, B
    <3>4. /\ s.nr_recv_wqe \in 0 .. MaxSrqWr /\ s.free \in 0 .. MaxSrqWr
          /\ s.lost \in 0 .. MaxSrqWr
      BY <3>1, <3>2, <3>3
    <3> QED BY <2>2, <3>4 DEF SrqRec, SrqType
  <2>5. dev.qp \in [QPs -> [state : {"RTS", "ERR", "NONE"}, sends : 0 .. MaxPost,
                            rq : {0, 1}]]
    BY <2>2, <2>3
  <2> QED BY <2>1, <2>2, <2>4, <2>5 DEF TypeOK, Works, Pcs
<1> QED BY AlwaysIInv, <1>1, PTL

(* No CQE is lost or made: what is free and what is queued add up to the   *)
(* size of the CQ (insert_wc, pib_poll_cq, pib_util_remove_cq), for every  *)
(* number of QPs that share it.                                            *)
THEOREM CqesAreConserved == Spec => []CqesConserved
<1>1. IInv => CqesConserved
  BY DEF IInv, DeviceOK, Queues, Life, CqesConserved
<1> QED BY AlwaysIInv, <1>1, PTL

(* Every receive WQE of the SRQ is free, posted, held by one QP, or one of *)
(* those that refused posts have lost (pib_util_get_srq, reset_qp,         *)
(* pib_util_flush_qp).                                                     *)
THEOREM SrqWqesAreConserved == Spec => []SrqWqesConserved
<1>1. IInv => SrqWqesConserved
  BY DEF IInv, DeviceOK, Books, Busy, SrqWqesConserved
<1> QED BY AlwaysIInv, <1>1, PTL

(* A consumer that sleeps in pib_req_notify_cq's loop misses no completion *)
(* when it asked for all and no failure when it asked for solicited ones,  *)
(* however inserts, flushes and resets interleave with it (insert_wc).     *)
THEOREM NoWakeupIsLost == Spec => []NoLostWakeup
<1>1. ASSUME IInv PROVE NoLostWakeup
  <2> SUFFICES ASSUME NEW c \in CQs, consumer[c] = "wait", ~dev.cq[c].event,
                      dev.cq[c].state = "OK", NEW i \in DOMAIN dev.cq[c].cqes
               PROVE  /\ dev.cq[c].notify_flag = "SOLICITED"
                      /\ dev.cq[c].cqes[i].owed # "error"
    BY DEF NoLostWakeup
  <2> DEFINE k == dev.cq[c]
             e == k.cqes[i]
  <2>1. Awake(k, consumer[c]) /\ k \in CqType
    BY <1>1, CqOfDevice
  <2>2. Quiet(k) /\ k.notify_flag # "NONE"
    BY <2>1 DEF Awake
  <2>3. /\ k.cqes \in Seq(Cqe)
        /\ k.notify_flag \in {"NONE", "NEXT_COMP", "SOLICITED"}
    BY <2>1, CqFields
  <2>4. i \in 1 .. Len(k.cqes)
    BY <2>3
  <2>5. Silent(k, e)
    BY <2>2, <2>4 DEF Quiet
  <2> QED BY <2>2, <2>3, <2>5 DEF Silent
<1> QED BY AlwaysIInv, <1>1, PTL

(* No work is queued twice, and none for a CQ whose memory was returned    *)
(* (pib_queue_work against pib_destroy_cq).                                *)
THEOREM QueuedWorksAreLive == Spec => []WorksAreLive
<1>1. ASSUME IInv PROVE WorksAreLive
  <2>1. dev \in DevRec /\ Unique(dev.works)
    BY <1>1 DEF IInv, DeviceOK, Queues
  <2>2. DOMAIN dev.works = 1 .. Len(dev.works)
    BY <2>1, DevFields
  <2>3. \A i, j \in DOMAIN dev.works : dev.works[i] = dev.works[j] => i = j
    BY <2>1, <2>2 DEF Unique
  <2>4. \A c \in CQs \cap Range(dev.works) : dev.cq[c].mem # "gone"
    BY <1>1 DEF IInv, DeviceOK, Queues, Life
  <2> QED BY <2>3, <2>4 DEF WorksAreLive
<1> QED BY AlwaysIInv, <1>1, PTL

(* SRQ_LIMIT_REACHED is raised at most once per pib_modify_srq             *)
(* (pib_util_get_srq).                                                     *)
THEOREM LimitIsToldOnce == Spec => []LimitEventOnce
<1>1. IInv => LimitEventOnce
  BY DEF IInv, DeviceOK, Books, LimitEventOnce
<1> QED BY AlwaysIInv, <1>1, PTL

(* A CQ in error was reported to its consumer, or its work is queued, or   *)
(* the race in process_on_wq_scheduler lost the work.                      *)
THEOREM OverflowNotForgotten == Spec => []OverflowIsReported
<1>1. IInv => OverflowIsReported
  BY DEF IInv, DeviceOK, Queues, Life, OverflowIsReported
<1> QED BY AlwaysIInv, <1>1, PTL
=============================================================================
