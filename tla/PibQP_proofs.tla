---------------------------- MODULE PibQP_proofs ----------------------------
(***************************************************************************)
(* Proofs about PibQP, for every number of WQEs and every bound.           *)
(***************************************************************************)
EXTENDS PibQP, PibLists_proofs

-----------------------------------------------------------------------------
(* The inductive invariant.                                                *)

(* Every work request that has a WQE on a list was posted, and the WQE     *)
(* still says what it was.                                                 *)
WrsOK(q) ==
  \A k \in 1 .. Len(Left(q)) :
    /\ q.swqe[Left(q)[k]].wr \in 1 .. Len(q.posted)
    /\ q.swqe[Left(q)[k]].op = q.posted[q.swqe[Left(q)[k]].wr]

(* What every helper preserves, also in the middle of a handler.           *)
Sound(q) ==
  /\ q \in QpType
  /\ Len(q.posted) <= MaxPost
  /\ q.rfree + q.nr_recv = MaxRecvWr
  /\ \A k \in 1 .. Len(q.cq) : q.cq[k] = q.life
  /\ WrsOK(q)
  /\ q.done \in Seq(1 .. Len(q.posted))

(* What each state of the queue pair promises between two handlers.        *)
StateOK(q) ==
  /\ q.type = "RC" => q.state # "SQE"
  /\ q.type = "UD" => Idle(q)
  /\ q.state \in {"NONE", "RESET"} =>
       /\ Idle(q) /\ q.submitted = <<>> /\ q.nr_recv = 0 /\ q.cq = <<>>
  /\ q.state \in {"ERR", "SQE"} => Idle(q) /\ q.submitted = <<>>
  /\ q.state = "ERR" => q.nr_recv = 0
  /\ q.state = "SQD" /\ Idle(q) /\ (\A i \in Swqes : ~q.swqe[i].local)
       => q.drained

QueueOK(q) ==
  /\ Sound(q)
  /\ Once(q.free \o Left(q), Swqes)
  /\ Posted(q, q.done \o OpenWrs(q))

IInv == QueueOK(qp) /\ StateOK(qp) /\ halted \in BOOLEAN

-----------------------------------------------------------------------------
(* The order of work requests: what may happen to the line of those done   *)
(* and those open.                                                         *)

LEMMA PostedSame ==
  ASSUME NEW q, NEW r, r.posted = q.posted, NEW line, Posted(q, line)
  PROVE  Posted(r, line)
BY DEF Posted

(* A work request is posted: it is the last of the line.                   *)
LEMMA PostedAppend ==
  ASSUME NEW q, NEW r, NEW op, q.posted \in Seq(Opcodes), op \in Opcodes,
         r.posted = Append(q.posted, op),
         NEW line \in Seq(1 .. Len(q.posted)), Posted(q, line)
  PROVE  Posted(r, Append(line, Len(q.posted) + 1))
<1> DEFINE n == Len(q.posted)
           next == Append(line, n + 1)
<1>1. n \in Nat /\ Len(line) \in Nat /\ line \in Seq(Nat) /\ n + 1 \in Nat
  OBVIOUS
<1>2. /\ Len(next) = Len(line) + 1 /\ next[Len(line) + 1] = n + 1
      /\ \A k \in 1 .. Len(line) : next[k] = line[k] /\ line[k] \in 1 .. n
  BY <1>1, SMTT(30)
<1>3. /\ Len(r.posted) = n + 1 /\ r.posted[n + 1] = op
      /\ \A w \in 1 .. n : r.posted[w] = q.posted[w]
  BY <1>1
<1> HIDE DEF n, next
<1>4. ASSUME NEW k \in 1 .. Len(next), NEW l \in 1 .. Len(next), k < l
      PROVE  \/ next[k] < next[l]
             \/ next[k] = next[l] /\ r.posted[next[k]] # "SEND"
  <2>1. k \in 1 .. Len(line)
    BY <1>1, <1>2, <1>4
  <2>2. CASE l = Len(line) + 1
    <3>1. next[k] = line[k] /\ line[k] \in 1 .. n
      BY <2>1, <1>2
    <3>2. next[l] = n + 1
      BY <2>2, <1>2
    <3>3. n \in Nat
      BY <1>1
    <3> QED BY <3>1, <3>2, <3>3
  <2>3. CASE l \in 1 .. Len(line)
    <3>1. \/ line[k] < line[l]
          \/ line[k] = line[l] /\ q.posted[line[k]] # "SEND"
      BY <2>1, <2>3, <1>4 DEF Posted
    <3>2. next[k] = line[k] /\ next[l] = line[l]
      BY <2>1, <2>3, <1>2
    <3>3. r.posted[line[k]] = q.posted[line[k]]
      BY <2>1, <1>2, <1>3
    <3> QED BY <3>1, <3>2, <3>3
  <2>4. l = Len(line) + 1 \/ l \in 1 .. Len(line)
    <3>1. Len(line) \in Nat /\ Len(next) = Len(line) + 1
      BY <1>1, <1>2
    <3> QED BY <3>1
  <2> QED BY <2>2, <2>3, <2>4
<1>5. ASSUME NEW w \in 1 .. Len(r.posted), r.posted[w] = "SEND"
      PROVE  \E k \in 1 .. Len(next) : next[k] = w
  <2>1. CASE w = n + 1
    <3>1. Len(line) + 1 \in 1 .. Len(next)
      BY <1>1, <1>2
    <3> QED BY <2>1, <3>1, <1>2
  <2>2. CASE w \in 1 .. n
    <3>1. PICK k \in 1 .. Len(line) : line[k] = w
      BY <2>2, <1>3, <1>5 DEF Posted, n
    <3>2. k \in 1 .. Len(next) /\ next[k] = w
      BY <3>1, <1>1, <1>2
    <3> QED BY <3>2
  <2> QED BY <2>1, <2>2, <1>1, <1>3
<1> QED
  BY <1>4, <1>5 DEF Posted, next, n

(* A Local Invalidate leaves the line without a completion.                *)
LEMMA PostedRemove ==
  ASSUME NEW q, NEW n \in Nat, NEW d \in Seq(1 .. n), NEW x \in 1 .. n,
         NEW t \in Seq(1 .. n), Posted(q, d \o (<<x>> \o t)),
         q.posted[x] # "SEND"
  PROVE  Posted(q, d \o t)
<1> DEFINE a == d \o (<<x>> \o t)
           b == d \o t
           m == Len(d)
           To(k) == IF k <= m THEN k ELSE k + 1
           From(k) == IF k <= m THEN k ELSE k - 1
<1>1. m \in Nat /\ Len(t) \in Nat /\ <<x>> \in Seq(1 .. n) /\ Len(<<x>>) = 1
  OBVIOUS
<1>2. /\ <<x>> \o t \in Seq(1 .. n) /\ Len(<<x>> \o t) = 1 + Len(t)
      /\ \A i \in 1 .. 1 + Len(t) :
           (<<x>> \o t)[i] = IF i <= 1 THEN x ELSE t[i - 1]
  <2>1. /\ <<x>> \o t \in Seq(1 .. n) /\ Len(<<x>> \o t) = 1 + Len(t)
        /\ \A i \in 1 .. 1 + Len(t) :
             (<<x>> \o t)[i] = IF i <= 1 THEN <<x>>[i] ELSE t[i - 1]
    BY <1>1, ConcatProperties
  <2> QED BY <1>1, <2>1
<1>3. /\ Len(a) = m + 1 + Len(t)
      /\ \A i \in 1 .. m + 1 + Len(t) :
           a[i] = IF i <= m THEN d[i]
                  ELSE IF i = m + 1 THEN x ELSE t[i - m - 1]
  <2>1. /\ Len(a) = m + (1 + Len(t))
        /\ \A i \in 1 .. m + (1 + Len(t)) :
             a[i] = IF i <= m THEN d[i] ELSE (<<x>> \o t)[i - m]
    BY <1>1, <1>2, ConcatProperties
  <2> QED BY <1>1, <1>2, <2>1
<1>4. /\ Len(b) = m + Len(t)
      /\ \A i \in 1 .. m + Len(t) : b[i] = IF i <= m THEN d[i] ELSE t[i - m]
  BY ConcatProperties
<1>5. ASSUME NEW i \in 1 .. Len(b) PROVE To(i) \in 1 .. Len(a) /\ a[To(i)] = b[i]
  <2> HIDE DEF a, b, m
  <2>1. i \in 1 .. m + Len(t) /\ b[i] = IF i <= m THEN d[i] ELSE t[i - m]
    BY <1>4, <1>5
  <2>2. CASE i <= m
    <3>1. To(i) = i /\ i \in 1 .. m + 1 + Len(t)
      BY <1>1, <2>1, <2>2
    <3> QED BY <1>3, <2>1, <2>2, <3>1
  <2>3. CASE ~(i <= m)
    <3> DEFINE k == i + 1
    <3>1. To(i) = k /\ k \in 1 .. m + 1 + Len(t) /\ ~(k <= m) /\ k # m + 1 /\ k - m - 1 = i - m
      BY <1>1, <2>1, <2>3
    <3> HIDE DEF k
    <3> QED BY <1>3, <2>1, <2>3, <3>1
  <2> QED BY <2>2, <2>3
<1>6. ASSUME NEW i \in 1 .. Len(a), i # m + 1
      PROVE  From(i) \in 1 .. Len(b) /\ b[From(i)] = a[i]
  BY <1>1, <1>3, <1>4, <1>6, SMTT(30)
<1>7. a[m + 1] = x
  BY <1>1, <1>3
<1>8. ASSUME NEW k \in 1 .. Len(b), NEW l \in 1 .. Len(b), k < l
      PROVE  \/ b[k] < b[l]
             \/ b[k] = b[l] /\ q.posted[b[k]] # "SEND"
  <2>1. To(k) < To(l)
    BY <1>1, <1>4, <1>8
  <2>2. \A i, j \in 1 .. Len(a) : i < j =>
          a[i] < a[j] \/ (a[i] = a[j] /\ q.posted[a[i]] # "SEND")
    BY DEF Posted
  <2> HIDE DEF a, b, To, m
  <2>3. To(k) \in 1 .. Len(a) /\ To(l) \in 1 .. Len(a)
    BY <1>5
  <2>4. a[To(k)] = b[k] /\ a[To(l)] = b[l]
    BY <1>5
  <2> QED BY <2>1, <2>2, <2>3, <2>4
<1>9. ASSUME NEW w \in 1 .. Len(q.posted), q.posted[w] = "SEND"
      PROVE  \E k \in 1 .. Len(b) : b[k] = w
  <2> HIDE DEF a, b, From, m
  <2>1. PICK k \in 1 .. Len(a) : a[k] = w
    BY <1>9 DEF Posted, a
  <2>2. k # m + 1
    BY <2>1, <1>7, <1>9
  <2> QED BY <2>1, <2>2, <1>6
<1> QED
  BY <1>8, <1>9 DEF Posted

(* A Local Invalidate that fails is completed twice in a row.              *)
LEMMA PostedRepeat ==
  ASSUME NEW q, NEW n \in Nat, NEW d \in Seq(1 .. n), NEW u \in Seq(1 .. n),
         u # <<>>, Posted(q, d \o u), q.posted[Head(u)] # "SEND"
  PROVE  Posted(q, Append(d, Head(u)) \o u)
<1> DEFINE x == Head(u)
           a == d \o u
           e == Append(d, x)
           b == e \o u
           m == Len(d)
           From(k) == IF k <= m + 1 THEN k ELSE k - 1
           To(k) == IF k <= m THEN k ELSE k + 1
<1>1. m \in Nat /\ Len(u) \in Nat \ {0} /\ x = u[1] /\ x \in 1 .. n
  BY HeadAndTail
<1>2. /\ e \in Seq(1 .. n) /\ Len(e) = m + 1 /\ e[m + 1] = x
      /\ \A k \in 1 .. m : e[k] = d[k]
  BY <1>1, AppendProperties
<1>3. /\ Len(a) = m + Len(u)
      /\ \A i \in 1 .. m + Len(u) : a[i] = IF i <= m THEN d[i] ELSE u[i - m]
  BY ConcatProperties
<1> HIDE DEF e, x
<1>4. /\ Len(b) = m + 1 + Len(u)
      /\ \A i \in 1 .. m + 1 + Len(u) :
           b[i] = IF i <= m + 1 THEN e[i] ELSE u[i - (m + 1)]
  <2>1. /\ Len(b) = Len(e) + Len(u)
        /\ \A i \in 1 .. Len(e) + Len(u) :
             b[i] = IF i <= Len(e) THEN e[i] ELSE u[i - Len(e)]
    BY <1>2, ConcatProperties
  <2> HIDE DEF b
  <2> QED BY <1>2, <2>1
<1>5. (\A i, j \in 1 .. Len(a) : i < j =>
         a[i] < a[j] \/ (a[i] = a[j] /\ q.posted[a[i]] # "SEND"))
  BY DEF Posted
<1>6. ASSUME NEW w \in 1 .. Len(q.posted), q.posted[w] = "SEND"
       PROVE  \E k \in 1 .. Len(a) : a[k] = w
  BY <1>6 DEF Posted
<1>7. \A i \in 1 .. m + 1 + Len(u) :
         b[i] = IF i <= m THEN d[i]
                ELSE IF i = m + 1 THEN u[1] ELSE u[i - (m + 1)]
  <2> HIDE DEF b
  <2> QED BY <1>1, <1>2, <1>4
<1> HIDE DEF a, b, m
<1> DEFINE o == Len(u)
<1>8. /\ m \in Nat /\ o \in Nat /\ o >= 1
      /\ Len(a) = m + o /\ Len(b) = m + 1 + o
      /\ \A i \in 1 .. m + o : a[i] = IF i <= m THEN d[i] ELSE u[i - m]
      /\ \A i \in 1 .. m + 1 + o :
           b[i] = IF i <= m THEN d[i]
                  ELSE IF i = m + 1 THEN u[1] ELSE u[i - (m + 1)]
  BY <1>1, <1>3, <1>4, <1>7
<1> HIDE DEF o
<1>9. ASSUME NEW i \in 1 .. Len(b)
      PROVE  From(i) \in 1 .. Len(a) /\ a[From(i)] = b[i]
  <2>1. CASE i <= m + 1
    <3>1. From(i) = i /\ i \in 1 .. m + o /\ i \in 1 .. m + 1 + o
      BY <2>1, <1>8
    <3> HIDE DEF From
    <3>2. CASE i <= m
      BY <3>1, <3>2, <1>8
    <3>3. CASE i = m + 1
      <4>1. ~ (i <= m) /\ i - m = 1
        BY <3>3, <1>8
      <4> QED BY <3>1, <3>3, <4>1, <1>8
    <3>4. i <= m \/ i = m + 1
      BY <2>1, <1>8
    <3> QED BY <3>2, <3>3, <3>4
  <2>2. CASE i > m + 1
    <3>1. /\ From(i) = i - 1 /\ i - 1 \in 1 .. m + o /\ i \in 1 .. m + 1 + o
          /\ ~ (i - 1 <= m) /\ ~ (i <= m) /\ i # m + 1
          /\ (i - 1) - m = i - (m + 1)
      BY <2>2, <1>8
    <3>2. a[i - 1] = u[(i - 1) - m]
      BY <3>1, <1>8
    <3>3. b[i] = u[i - (m + 1)]
      BY <3>1, <1>8
    <3> HIDE DEF From
    <3> QED BY <3>1, <3>2, <3>3, <1>8
  <2> QED BY <2>1, <2>2, <1>8
<1>10. ASSUME NEW i \in 1 .. Len(a)
      PROVE  To(i) \in 1 .. Len(b) /\ b[To(i)] = a[i]
  <2>1. CASE i <= m
    <3>1. To(i) = i /\ i \in 1 .. m + o /\ i \in 1 .. m + 1 + o
      BY <2>1, <1>8
    <3> HIDE DEF To
    <3> QED BY <2>1, <3>1, <1>8
  <2>2. CASE i > m
    <3>1. /\ To(i) = i + 1 /\ i \in 1 .. m + o /\ i + 1 \in 1 .. m + 1 + o
          /\ ~ (i <= m) /\ ~ (i + 1 <= m) /\ i + 1 # m + 1
          /\ (i + 1) - (m + 1) = i - m
      BY <2>2, <1>8
    <3>2. a[i] = u[i - m]
      BY <3>1, <1>8
    <3>3. b[i + 1] = u[(i + 1) - (m + 1)]
      BY <3>1, <1>8
    <3> HIDE DEF To
    <3> QED BY <3>1, <3>2, <3>3, <1>8
  <2> QED BY <2>1, <2>2, <1>8
<1>11. ASSUME NEW k \in 1 .. Len(b), NEW l \in 1 .. Len(b), k < l
      PROVE  \/ b[k] < b[l]
             \/ b[k] = b[l] /\ q.posted[b[k]] # "SEND"
  <2>1. From(k) < From(l) \/ (k = m + 1 /\ l = m + 2)
    BY <1>11, <1>8
  <2>2. CASE From(k) < From(l)
    <3> HIDE DEF From
    <3>1. From(k) \in 1 .. Len(a) /\ From(l) \in 1 .. Len(a)
      BY <1>9
    <3>2. a[From(k)] = b[k] /\ a[From(l)] = b[l]
      BY <1>9
    <3> QED BY <2>2, <3>1, <3>2, <1>5
  <2>3. CASE k = m + 1 /\ l = m + 2
    <3>1. b[k] = x /\ b[l] = x
      BY <2>3, <1>1, <1>8
    <3> QED BY <3>1 DEF x
  <2> QED BY <2>1, <2>2, <2>3
<1>12. ASSUME NEW w \in 1 .. Len(q.posted), q.posted[w] = "SEND"
      PROVE  \E k \in 1 .. Len(b) : b[k] = w
  <2>1. PICK k \in 1 .. Len(a) : a[k] = w
    BY <1>12, <1>6
  <2> HIDE DEF To
  <2> QED BY <2>1, <1>10
<1> QED
  BY <1>11, <1>12 DEF Posted, x, e, b

-----------------------------------------------------------------------------
(* The list of free WQEs and the lists of those in use.                    *)

(* The first entry of the lists in use moves to the end of the free list.  *)
LEMMA OnceFree ==
  ASSUME NEW S, NEW f \in Seq(S), NEW u \in Seq(S), u # <<>>, Once(f \o u, S)
  PROVE  Once(Append(f, Head(u)) \o Tail(u), S)
<1>1. /\ Head(u) \in S /\ <<Head(u)>> \in Seq(S) /\ Tail(u) \in Seq(S)
      /\ <<Head(u)>> \o Tail(u) = u
  BY HeadAndTail
<1>2. Append(f, Head(u)) \o Tail(u) = f \o u
  BY <1>1, AppendIsConcat, ConcatAssociative
<1> QED
  BY <1>2

(* All of them do, the first of them last.                                 *)
LEMMA OnceFreeAll ==
  ASSUME NEW S, NEW f \in Seq(S), NEW u \in Seq(S), u # <<>>, Once(f \o u, S)
  PROVE  /\ Once(f \o Tail(u) \o <<Head(u)>>, S)
         /\ Once(Append(f \o Tail(u), Head(u)), S)
<1>1. /\ Head(u) \in S /\ <<Head(u)>> \in Seq(S) /\ Tail(u) \in Seq(S)
      /\ <<Head(u)>> \o Tail(u) = u
  BY HeadAndTail
<1>2. Once(f \o (Tail(u) \o <<Head(u)>>), S)
  BY <1>1, OnceSwap
<1>3. f \o (Tail(u) \o <<Head(u)>>) = f \o Tail(u) \o <<Head(u)>>
  BY <1>1, ConcatAssociative
<1>4. f \o Tail(u) \in Seq(S)
  BY <1>1, ConcatProperties
<1>5. Append(f \o Tail(u), Head(u)) = f \o Tail(u) \o <<Head(u)>>
  BY <1>1, <1>4, AppendIsConcat
<1> QED
  BY <1>2, <1>3, <1>5

(* The first free WQE becomes the last in use; it was not in use before.   *)
LEMMA OnceTake ==
  ASSUME NEW S, NEW f \in Seq(S), NEW u \in Seq(S), f # <<>>, Once(f \o u, S)
  PROVE  /\ Once(Tail(f) \o Append(u, Head(f)), S)
         /\ \A k \in 1 .. Len(u) : u[k] # Head(f)
<1> DEFINE h == <<Head(f)>>
<1>1. /\ Head(f) \in S /\ h \in Seq(S) /\ Tail(f) \in Seq(S)
      /\ h \o Tail(f) = f /\ Len(f) \in Nat \ {0} /\ Head(f) = f[1]
  BY HeadAndTail
<1>2. Tail(f) \o u \in Seq(S)
  BY <1>1, ConcatProperties
<1> HIDE DEF h
<1>3. f \o u = <<>> \o (h \o (Tail(f) \o u))
  <2>0. Joined(h, Tail(f), u)
    BY <1>1, ListsJoin
  <2>1. (h \o Tail(f)) \o u = h \o (Tail(f) \o u)
    BY <2>0, Zenon DEF Joined
  <2>2. h \o (Tail(f) \o u) \in Seq(S)
    BY <1>1, <1>2, ConcatProperties
  <2> QED BY <1>1, <2>1, <2>2, ConcatEmptySeq
<1>4. Once(<<>> \o ((Tail(f) \o u) \o h), S)
  <2>1. <<>> \in Seq(S)
    OBVIOUS
  <2> QED BY <1>1, <1>2, <1>3, <2>1, OnceSwap
<1>5. <<>> \o ((Tail(f) \o u) \o h) = Tail(f) \o Append(u, Head(f))
  <2>1. Append(u, Head(f)) = u \o h
    BY <1>1, AppendIsConcat DEF h
  <2>0. Joined(Tail(f), u, h)
    BY <1>1, ListsJoin
  <2>2. (Tail(f) \o u) \o h = Tail(f) \o (u \o h)
    BY <2>0, Zenon DEF Joined
  <2>3. (Tail(f) \o u) \o h \in Seq(S)
    BY <1>1, <1>2, ConcatProperties
  <2> QED BY <2>1, <2>2, <2>3, ConcatEmptySeq
<1>6. ASSUME NEW k \in 1 .. Len(u) PROVE u[k] # Head(f)
  <2>1. /\ Len(f \o u) = Len(f) + Len(u) /\ Len(u) \in Nat
        /\ \A i \in 1 .. Len(f) + Len(u) :
             (f \o u)[i] = IF i <= Len(f) THEN f[i] ELSE u[i - Len(f)]
    BY ConcatProperties
  <2>2. /\ 1 \in 1 .. Len(f \o u) /\ Len(f) + k \in 1 .. Len(f \o u)
        /\ (f \o u)[1] = Head(f) /\ (f \o u)[Len(f) + k] = u[k]
        /\ 1 # Len(f) + k
    BY <1>1, <2>1
  <2>3. PICK i \in 1 .. Len(f \o u) :
          \A l \in 1 .. Len(f \o u) : (f \o u)[l] = Head(f) => l = i
    BY <1>1 DEF Once
  <2> QED BY <2>2, <2>3
<1> QED
  BY <1>4, <1>5, <1>6

-----------------------------------------------------------------------------
(* The helpers of the handlers.                                            *)

(* r is q but for the WQEs, completions and the counters of the receives.  *)
Keeps(q, r) ==
  /\ r.type = q.type /\ r.swqe = q.swqe /\ r.posted = q.posted
  /\ r.life = q.life /\ r.precv = q.precv /\ r.drained = q.drained

KeepsLists(q, r) ==
  r.waiting = q.waiting /\ r.sending = q.sending /\ r.submitted = q.submitted

LEMMA Fields ==
  ASSUME NEW q \in QpType
  PROVE  /\ q.type \in {"RC", "UD"} /\ q.state \in States
         /\ q.swqe \in [Swqes -> SwqeType] /\ q.free \in Seq(Swqes)
         /\ q.submitted \in Seq(Swqes) /\ q.sending \in Seq(Swqes)
         /\ q.waiting \in Seq(Swqes) /\ q.nr_recv \in 0 .. MaxRecvWr
         /\ q.rfree \in 0 .. MaxRecvWr /\ q.drained \in BOOLEAN
         /\ q.cq \in Seq(0 .. MaxEpoch) /\ q.life \in 0 .. MaxEpoch
         /\ q.posted \in Seq(Opcodes) /\ q.done \in Seq(1 .. MaxPost)
         /\ q.precv \in 0 .. MaxPostRecv
BY DEF QpType

LEMMA Bounds == /\ MaxSendWr \in Nat /\ MaxRecvWr \in Nat /\ MaxPost \in Nat
                /\ MaxPostRecv \in Nat /\ MaxEpoch \in Nat
BY QPAssumption

(* The WQEs in use and their work requests.                                *)
LEMMA LeftType ==
  ASSUME NEW q, Sound(q)
  PROVE  /\ Left(q) \in Seq(Swqes)
         /\ OpenWrs(q) \in Seq(1 .. Len(q.posted))
         /\ Len(OpenWrs(q)) = Len(Left(q))
         /\ \A k \in 1 .. Len(Left(q)) :
              OpenWrs(q)[k] = q.swqe[Left(q)[k]].wr
<1>1. q \in QpType
  BY DEF Sound
<1>2. Left(q) \in Seq(Swqes)
  BY <1>1, Fields, ThreeListsType DEF Left
<1> DEFINE n == Len(Left(q))
           v == OpenWrs(q)
<1>3. n \in Nat
  BY <1>2
<1>4. v = [k \in 1 .. n |-> q.swqe[Left(q)[k]].wr]
  BY DEF OpenWrs
<1>5. \A k \in 1 .. n : q.swqe[Left(q)[k]].wr \in 1 .. Len(q.posted)
  BY DEF Sound, WrsOK
<1> HIDE DEF n, v
<1>6. v \in [1 .. n -> 1 .. Len(q.posted)]
  BY <1>4, <1>5
<1>7. v \in Seq(1 .. Len(q.posted)) /\ Len(v) = n
  BY <1>3, <1>6, FunctionIsSeq
<1> QED
  BY <1>2, <1>4, <1>7 DEF n, v

LEMMA PostedTypes ==
  ASSUME NEW q, Sound(q)
  PROVE  /\ OpenWrs(q) \in Seq(1 .. Len(q.posted))
         /\ q.done \in Seq(1 .. Len(q.posted)) /\ Len(q.posted) \in Nat
<1>1. q \in QpType /\ q.done \in Seq(1 .. Len(q.posted))
  BY DEF Sound
<1>2. q.posted \in Seq(Opcodes)
  BY <1>1, Fields
<1> QED BY <1>1, <1>2, LeftType

(* insert_wc and pib_util_insert_wc_success or _error for a send WQE.      *)
LEMMA InsertSound ==
  ASSUME NEW q, Sound(q)
  PROVE  LET r == insert_wc(q)
         IN  /\ Sound(r) /\ Keeps(q, r) /\ KeepsLists(q, r)
             /\ r.state = q.state /\ r.free = q.free /\ r.done = q.done
             /\ r.nr_recv = q.nr_recv
<1> DEFINE r == insert_wc(q)
<1>1. q \in QpType
  BY DEF Sound
<1>2. r = [q EXCEPT !.cq = Append(q.cq, q.life)]
  BY DEF insert_wc
<1>3. Append(q.cq, q.life) \in Seq(0 .. MaxEpoch)
  BY <1>1, Fields
<1>4. r \in QpType
  BY <1>1, <1>2, <1>3 DEF QpType
<1>5. /\ Keeps(q, r) /\ KeepsLists(q, r) /\ r.state = q.state
      /\ r.free = q.free /\ r.done = q.done /\ r.nr_recv = q.nr_recv
      /\ r.rfree = q.rfree /\ r.cq = Append(q.cq, q.life)
  BY <1>1, <1>2 DEF QpType, Keeps, KeepsLists
<1> HIDE DEF r
<1>6. Left(r) = Left(q)
  BY <1>5 DEF KeepsLists, Left
<1>7. WrsOK(r)
  BY <1>5, <1>6 DEF Keeps, WrsOK, Sound
<1>8. \A k \in 1 .. Len(r.cq) : r.cq[k] = r.life
  <2>1. q.cq \in Seq(0 .. MaxEpoch) /\ q.life \in 0 .. MaxEpoch
    BY <1>1, Fields
  <2>2. \A k \in 1 .. Len(q.cq) : q.cq[k] = q.life
    BY DEF Sound
  <2> QED BY <1>5, <2>1, <2>2 DEF Keeps
<1>9. Sound(r)
  BY <1>4, <1>5, <1>7, <1>8 DEF Sound, Keeps
<1> QED
  BY <1>5, <1>9 DEF r

LEMMA InsertSendSound ==
  ASSUME NEW q, Sound(q), NEW wr \in 1 .. Len(q.posted)
  PROVE  LET r == insert_send_wc(q, wr)
         IN  /\ Sound(r) /\ Keeps(q, r) /\ KeepsLists(q, r)
             /\ r.state = q.state /\ r.free = q.free
             /\ r.done = Append(q.done, wr) /\ r.nr_recv = q.nr_recv
<1> DEFINE p == insert_wc(q)
           r == insert_send_wc(q, wr)
<1>1. /\ Sound(p) /\ Keeps(q, p) /\ KeepsLists(q, p)
      /\ p.state = q.state /\ p.free = q.free /\ p.done = q.done
      /\ p.nr_recv = q.nr_recv
  BY InsertSound
<1>2. r = [p EXCEPT !.done = Append(p.done, wr)]
  BY DEF insert_send_wc
<1> HIDE DEF p, r
<1>3. p \in QpType /\ Len(p.posted) <= MaxPost /\ p.posted = q.posted
  BY <1>1 DEF Sound, Keeps
<1>4. Append(p.done, wr) \in Seq(1 .. Len(q.posted))
  BY <1>1, <1>3 DEF Sound
<1>5. Append(p.done, wr) \in Seq(1 .. MaxPost)
  <2>1. 1 .. Len(q.posted) \subseteq 1 .. MaxPost
    BY <1>3, Fields, Bounds
  <2> QED BY <1>4, <2>1, SeqMonotonic
<1>6. r \in QpType
  BY <1>2, <1>3, <1>5 DEF QpType
<1>7. /\ Keeps(p, r) /\ KeepsLists(p, r) /\ r.state = p.state
      /\ r.free = p.free /\ r.nr_recv = p.nr_recv /\ r.rfree = p.rfree
      /\ r.cq = p.cq /\ r.done = Append(p.done, wr)
  BY <1>2, <1>3 DEF QpType, Keeps, KeepsLists
<1>8. WrsOK(r)
  <2>1. Left(r) = Left(p) /\ r.swqe = p.swqe /\ r.posted = p.posted
    BY <1>7 DEF Keeps, KeepsLists, Left
  <2>2. WrsOK(p)
    BY <1>1 DEF Sound
  <2> QED BY <2>1, <2>2 DEF WrsOK
<1>9. Sound(r)
  BY <1>1, <1>3, <1>4, <1>6, <1>7, <1>8 DEF Sound, Keeps
<1> QED
  BY <1>1, <1>7, <1>9 DEF Keeps, KeepsLists, r

(* The state alone changes.                                                *)
LEMMA SetStateSound ==
  ASSUME NEW q, Sound(q), NEW st \in States
  PROVE  LET r == [q EXCEPT !.state = st]
         IN  /\ Sound(r) /\ Keeps(q, r) /\ KeepsLists(q, r)
             /\ r.state = st /\ r.free = q.free /\ r.done = q.done
             /\ r.nr_recv = q.nr_recv /\ r.cq = q.cq
<1> DEFINE r == [q EXCEPT !.state = st]
<1>1. q \in QpType
  BY DEF Sound
<1>2. r \in QpType
  BY <1>1 DEF QpType
<1>3. /\ Keeps(q, r) /\ KeepsLists(q, r) /\ r.state = st
      /\ r.free = q.free /\ r.done = q.done /\ r.nr_recv = q.nr_recv
      /\ r.rfree = q.rfree /\ r.cq = q.cq
  BY <1>1 DEF QpType, Keeps, KeepsLists
<1> HIDE DEF r
<1>4. Sound(r)
  BY <1>2, <1>3 DEF Sound, Keeps, KeepsLists, WrsOK, Left
<1> QED
  BY <1>3, <1>4 DEF r

(* A list of completions of this life of the queue pair.                   *)
LEMMA CqConcat ==
  ASSUME NEW q, Sound(q), NEW n \in Nat,
         NEW c, c = q.cq \o [k \in 1 .. n |-> q.life]
  PROVE  c \in Seq(0 .. MaxEpoch) /\ \A k \in 1 .. Len(c) : c[k] = q.life
<1> DEFINE v == [k \in 1 .. n |-> q.life]
<1>1. q.cq \in Seq(0 .. MaxEpoch) /\ q.life \in 0 .. MaxEpoch
  BY Fields DEF Sound
<1>2. v \in [1 .. n -> 0 .. MaxEpoch] /\ \A k \in 1 .. n : v[k] = q.life
  BY <1>1
<1> HIDE DEF v
<1>3. v \in Seq(0 .. MaxEpoch) /\ Len(v) = n
  BY <1>2, FunctionIsSeq
<1>4. /\ c \in Seq(0 .. MaxEpoch) /\ Len(c) = Len(q.cq) + n
      /\ \A i \in 1 .. Len(q.cq) + n :
           c[i] = IF i <= Len(q.cq) THEN q.cq[i] ELSE v[i - Len(q.cq)]
  <2>1. c = q.cq \o v
    BY DEF v
  <2> QED BY <1>1, <1>3, <2>1, ConcatProperties
<1>5. Len(q.cq) \in Nat /\ \A k \in 1 .. Len(q.cq) : q.cq[k] = q.life
  <2>1. Len(q.cq) \in Nat
    BY <1>1
  <2> QED BY <2>1 DEF Sound
<1>6. ASSUME NEW i \in 1 .. Len(c) PROVE c[i] = q.life
  <2>1. CASE i <= Len(q.cq)
    BY <2>1, <1>4, <1>5
  <2>2. CASE ~ (i <= Len(q.cq))
    <3>1. i - Len(q.cq) \in 1 .. n
      BY <2>2, <1>4, <1>5
    <3> QED BY <2>2, <3>1, <1>2, <1>4
  <2> QED BY <2>1, <2>2
<1> QED
  BY <1>4, <1>6

(* pib_util_flush_qp, the send queue.                                      *)
LEMMA FlushSendsSound ==
  ASSUME NEW q, Sound(q)
  PROVE  LET r == FlushSends(q)
         IN  /\ Sound(r) /\ Keeps(q, r) /\ r.state = q.state
             /\ Idle(r) /\ r.submitted = <<>>
             /\ r.free = q.free \o Left(q)
             /\ r.done = q.done \o OpenWrs(q)
             /\ r.nr_recv = q.nr_recv
<1> DEFINE r == FlushSends(q)
           c == q.cq \o [k \in 1 .. Len(Left(q)) |-> q.life]
<1>1. q \in QpType
  BY DEF Sound
<1>2. Left(q) \in Seq(Swqes) /\ OpenWrs(q) \in Seq(1 .. Len(q.posted))
  BY LeftType
<1>3. c \in Seq(0 .. MaxEpoch) /\ \A k \in 1 .. Len(c) : c[k] = q.life
  <2>1. Len(Left(q)) \in Nat
    BY <1>2
  <2> QED BY <2>1, CqConcat
<1>4. /\ q.done \o OpenWrs(q) \in Seq(1 .. Len(q.posted))
      /\ q.free \o Left(q) \in Seq(Swqes)
  BY <1>1, <1>2, Fields, ConcatProperties DEF Sound
<1>5. q.done \o OpenWrs(q) \in Seq(1 .. MaxPost)
  <2>1. 1 .. Len(q.posted) \subseteq 1 .. MaxPost
    BY <1>1, Fields, Bounds DEF Sound
  <2> QED BY <1>4, <2>1, SeqMonotonic
<1>6. r = [q EXCEPT !.cq = c, !.done = q.done \o OpenWrs(q),
                    !.free = q.free \o Left(q),
                    !.waiting = <<>>, !.sending = <<>>, !.submitted = <<>>]
  BY DEF FlushSends
<1> HIDE DEF r, c
<1>7. <<>> \in Seq(Swqes)
  OBVIOUS
<1>8. r \in QpType
  BY <1>1, <1>3, <1>4, <1>5, <1>6, <1>7 DEF QpType
<1>9. /\ Keeps(q, r) /\ r.state = q.state /\ Idle(r) /\ r.submitted = <<>>
      /\ r.free = q.free \o Left(q) /\ r.done = q.done \o OpenWrs(q)
      /\ r.nr_recv = q.nr_recv /\ r.rfree = q.rfree /\ r.cq = c
  BY <1>1, <1>6 DEF QpType, Keeps, Idle
<1>10. Len(Left(r)) = 0
  BY <1>7, <1>9, ThreeListsType DEF Left, Idle
<1>11. Sound(r)
  BY <1>3, <1>4, <1>8, <1>9, <1>10 DEF Sound, Keeps, WrsOK
<1> QED
  BY <1>9, <1>11 DEF r

(* pib_util_flush_qp, the receive queue.                                   *)
LEMMA FlushRecvsSound ==
  ASSUME NEW q, Sound(q)
  PROVE  LET r == FlushRecvs(q)
         IN  /\ Sound(r) /\ Keeps(q, r) /\ KeepsLists(q, r)
             /\ r.state = q.state /\ r.free = q.free /\ r.done = q.done
             /\ r.nr_recv = 0
<1> DEFINE r == FlushRecvs(q)
           c == q.cq \o [k \in 1 .. q.nr_recv |-> q.life]
<1>1. q \in QpType
  BY DEF Sound
<1>2. q.nr_recv \in Nat /\ q.rfree + q.nr_recv = MaxRecvWr /\ MaxRecvWr \in Nat
  BY <1>1, Fields, Bounds DEF Sound
<1>3. c \in Seq(0 .. MaxEpoch) /\ \A k \in 1 .. Len(c) : c[k] = q.life
  BY <1>2, CqConcat, Zenon
<1>4. r = [q EXCEPT !.cq = c, !.nr_recv = 0, !.rfree = MaxRecvWr]
  BY <1>2 DEF FlushRecvs
<1> HIDE DEF r, c
<1>5. r \in QpType
  <2>1. 0 \in 0 .. MaxRecvWr /\ MaxRecvWr \in 0 .. MaxRecvWr
    BY <1>2
  <2>2. c \in Seq(0 .. MaxEpoch)
    BY <1>3
  <2> QED BY <1>1, <1>4, <2>1, <2>2 DEF QpType
<1>6. /\ Keeps(q, r) /\ KeepsLists(q, r) /\ r.state = q.state
      /\ r.free = q.free /\ r.done = q.done /\ r.nr_recv = 0
      /\ r.rfree = MaxRecvWr /\ r.cq = c
  BY <1>1, <1>4 DEF QpType, Keeps, KeepsLists
<1>7. Sound(r)
  <2>1. WrsOK(r)
    BY <1>6 DEF Sound, Keeps, KeepsLists, WrsOK, Left
  <2>2. r.rfree + r.nr_recv = MaxRecvWr
    BY <1>2, <1>6
  <2>3. Len(r.posted) <= MaxPost /\ r.done \in Seq(1 .. Len(r.posted))
    BY <1>6 DEF Sound, Keeps
  <2>4. \A k \in 1 .. Len(r.cq) : r.cq[k] = r.life
    BY <1>3, <1>6 DEF Keeps
  <2> QED BY <1>5, <2>1, <2>2, <2>3, <2>4, SMTT(30) DEF Sound
<1> QED
  BY <1>6, <1>7 DEF r

(* The error states: nothing stays outstanding.                            *)
LEMMA ToErrorSound ==
  ASSUME NEW q, Sound(q)
  PROVE  LET r == ToError(q)
         IN  /\ Sound(r) /\ Keeps(q, r) /\ r.state = "ERR"
             /\ Idle(r) /\ r.submitted = <<>> /\ r.nr_recv = 0
             /\ r.free = q.free \o Left(q)
             /\ r.done = q.done \o OpenWrs(q)
<1> DEFINE a == [q EXCEPT !.state = "ERR"]
           b == FlushSends(a)
           r == FlushRecvs(b)
<1>1. ToError(q) = r
  BY DEF ToError, pib_util_flush_qp
<1>2. /\ Sound(a) /\ Keeps(q, a) /\ KeepsLists(q, a) /\ a.state = "ERR"
      /\ a.free = q.free /\ a.done = q.done /\ a.nr_recv = q.nr_recv
  <2>1. "ERR" \in States
    BY DEF States
  <2> QED BY <2>1, SetStateSound
<1>3. Left(a) = Left(q) /\ OpenWrs(a) = OpenWrs(q)
  <2>1. Left(a) = Left(q)
    BY <1>2 DEF KeepsLists, Left
  <2> QED BY <1>2, <2>1 DEF Keeps, OpenWrs
<1> HIDE DEF a
<1>4. /\ Sound(b) /\ Keeps(a, b) /\ b.state = a.state
      /\ Idle(b) /\ b.submitted = <<>> /\ b.free = a.free \o Left(a)
      /\ b.done = a.done \o OpenWrs(a) /\ b.nr_recv = a.nr_recv
  BY <1>2, FlushSendsSound
<1> HIDE DEF b
<1>5. /\ Sound(r) /\ Keeps(b, r) /\ KeepsLists(b, r)
      /\ r.state = b.state /\ r.free = b.free /\ r.done = b.done
      /\ r.nr_recv = 0
  BY <1>4, FlushRecvsSound
<1> HIDE DEF r
<1> QED
  BY <1>1, <1>2, <1>3, <1>4, <1>5 DEF Keeps, KeepsLists, Idle

LEMMA ToSendErrorSound ==
  ASSUME NEW q, Sound(q)
  PROVE  LET r == ToSendError(q)
         IN  /\ Sound(r) /\ Keeps(q, r) /\ r.state = "SQE"
             /\ Idle(r) /\ r.submitted = <<>>
             /\ r.free = q.free \o Left(q)
             /\ r.done = q.done \o OpenWrs(q)
<1> DEFINE a == [q EXCEPT !.state = "SQE"]
           r == FlushSends(a)
<1>1. ToSendError(q) = r
  BY DEF ToSendError
<1>2. /\ Sound(a) /\ Keeps(q, a) /\ KeepsLists(q, a) /\ a.state = "SQE"
      /\ a.free = q.free /\ a.done = q.done
  <2>1. "SQE" \in States
    BY DEF States
  <2> QED BY <2>1, SetStateSound
<1>3. Left(a) = Left(q) /\ OpenWrs(a) = OpenWrs(q)
  <2>1. Left(a) = Left(q)
    BY <1>2 DEF KeepsLists, Left
  <2> QED BY <1>2, <2>1 DEF Keeps, OpenWrs
<1> HIDE DEF a
<1>4. /\ Sound(r) /\ Keeps(a, r) /\ r.state = a.state
      /\ Idle(r) /\ r.submitted = <<>> /\ r.free = a.free \o Left(a)
      /\ r.done = a.done \o OpenWrs(a)
  BY <1>2, FlushSendsSound
<1> HIDE DEF r
<1> QED
  BY <1>1, <1>2, <1>3, <1>4 DEF Keeps

(* FailQP: a UD queue pair may only be stopped.                            *)
LEMMA FailQPSound ==
  ASSUME NEW q, Sound(q)
  PROVE  LET r == FailQP(q)
         IN  /\ Sound(r) /\ Keeps(q, r)
             /\ r.state \in {"ERR", "SQE"} /\ (q.type = "RC" => r.state = "ERR")
             /\ Idle(r) /\ r.submitted = <<>>
             /\ r.state = "ERR" => r.nr_recv = 0
             /\ r.free = q.free \o Left(q)
             /\ r.done = q.done \o OpenWrs(q)
<1>1. CASE q.type = "RC"
  <2>1. FailQP(q) = ToError(q)
    BY <1>1 DEF FailQP
  <2> QED BY <2>1, ToErrorSound
<1>2. CASE q.type # "RC"
  <2>1. FailQP(q) = ToSendError(q)
    BY <1>2 DEF FailQP
  <2> HIDE DEF FailQP
  <2> QED BY <1>2, <2>1, ToSendErrorSound
<1> QED
  BY <1>1, <1>2

-----------------------------------------------------------------------------
(* Lists and order after the helpers.                                      *)

(* With nothing in use the free list is all there is.                      *)
LEMMA NothingLeft ==
  ASSUME NEW r, Sound(r), Idle(r), r.submitted = <<>>
  PROVE  /\ Left(r) = <<>> /\ r.free \o Left(r) = r.free
         /\ r.done \o OpenWrs(r) = r.done
<1>1. r \in QpType
  BY DEF Sound
<1>2. Left(r) = <<>>
  <2>1. <<>> \in Seq(Swqes)
    OBVIOUS
  <2> QED BY <2>1, ThreeListsType DEF Left, Idle
<1>3. OpenWrs(r) = <<>>
  <2>1. OpenWrs(r) \in Seq(1 .. Len(r.posted)) /\ Len(OpenWrs(r)) = 0
    BY <1>2, LeftType
  <2> QED BY <2>1, EmptySeq
<1>4. r.free \in Seq(Swqes) /\ r.done \in Seq(1 .. MaxPost)
  BY <1>1, Fields
<1> QED
  BY <1>2, <1>3, <1>4, ConcatEmptySeq

(* A queue pair whose lists were flushed is in order if it was before.     *)
LEMMA FlushedOK ==
  ASSUME NEW q, NEW r, QueueOK(q), Sound(r), Idle(r), r.submitted = <<>>,
         r.posted = q.posted, r.free = q.free \o Left(q),
         r.done = q.done \o OpenWrs(q)
  PROVE  QueueOK(r)
<1>1. /\ r.free \o Left(r) = r.free /\ r.done \o OpenWrs(r) = r.done
  BY NothingLeft
<1>2. Once(r.free \o Left(r), Swqes)
  BY <1>1 DEF QueueOK
<1>3. Posted(r, r.done \o OpenWrs(r))
  <2>1. Posted(q, r.done)
    BY DEF QueueOK
  <2> QED BY <1>1, <2>1, PostedSame
<1> QED
  BY <1>2, <1>3 DEF QueueOK

(* pib_util_free_send_wqe                                                  *)
LEMMA FreeSound ==
  ASSUME NEW q, Sound(q), NEW i \in Swqes
  PROVE  LET r == pib_util_free_send_wqe(q, i)
         IN  /\ Sound(r) /\ Keeps(q, r) /\ KeepsLists(q, r)
             /\ r.state = q.state /\ r.free = Append(q.free, i)
             /\ r.done = q.done /\ r.nr_recv = q.nr_recv
<1> DEFINE f == Append(q.free, i)
           r == pib_util_free_send_wqe(q, i)
<1>1. q \in QpType
  BY DEF Sound
<1>2. r = [q EXCEPT !.free = f]
  BY DEF pib_util_free_send_wqe
<1>3. f \in Seq(Swqes)
  BY <1>1, Fields
<1> HIDE DEF f, r
<1>4. r \in QpType
  BY <1>1, <1>2, <1>3 DEF QpType
<1>5. /\ Keeps(q, r) /\ KeepsLists(q, r) /\ r.state = q.state /\ r.free = f
      /\ r.done = q.done /\ r.nr_recv = q.nr_recv /\ r.rfree = q.rfree
      /\ r.cq = q.cq
  BY <1>1, <1>2 DEF QpType, Keeps, KeepsLists
<1>6. Sound(r)
  BY <1>4, <1>5 DEF Sound, Keeps, KeepsLists, WrsOK, Left
<1> QED
  BY <1>5, <1>6 DEF r, f

(* r is q without the first WQE in use.                                    *)
LEMMA WithoutFirst ==
  ASSUME NEW q, NEW r, Sound(q), r \in QpType, Left(q) # <<>>,
         Left(r) = Tail(Left(q)), r.swqe = q.swqe, r.posted = q.posted
  PROVE  /\ WrsOK(r) /\ OpenWrs(q) # <<>>
         /\ OpenWrs(r) = Tail(OpenWrs(q))
         /\ Head(OpenWrs(q)) = q.swqe[Head(Left(q))].wr
         /\ Head(OpenWrs(q)) \in 1 .. Len(q.posted)
         /\ q.swqe[Head(Left(q))].op = q.posted[Head(OpenWrs(q))]
<1> DEFINE n == Len(q.posted)
           lq == Left(q)
           lr == Left(r)
           vq == OpenWrs(q)
           vr == OpenWrs(r)
<1>1. /\ lq \in Seq(Swqes) /\ vq \in Seq(1 .. n) /\ Len(vq) = Len(lq)
      /\ \A k \in 1 .. Len(lq) : vq[k] = q.swqe[lq[k]].wr
  BY LeftType
<1>2. /\ Head(lq) = lq[1] /\ Len(lq) \in Nat \ {0} /\ lr \in Seq(Swqes)
      /\ Len(lr) = Len(lq) - 1
      /\ \A k \in 1 .. Len(lq) - 1 : lr[k] = lq[k + 1]
  <2>1. /\ Head(lq) = lq[1] /\ Len(lq) \in Nat \ {0}
        /\ Tail(lq) \in Seq(Swqes) /\ Len(Tail(lq)) = Len(lq) - 1
        /\ \A k \in 1 .. Len(lq) - 1 : Tail(lq)[k] = lq[k + 1]
    BY <1>1, HeadAndTail
  <2> QED BY <2>1
<1>3. \A k \in 1 .. Len(lq) : /\ q.swqe[lq[k]].wr \in 1 .. n
                              /\ q.swqe[lq[k]].op = q.posted[q.swqe[lq[k]].wr]
  BY DEF Sound, WrsOK
<1>4. WrsOK(r)
  <2> SUFFICES ASSUME NEW k \in 1 .. Len(lr)
               PROVE  /\ q.swqe[lr[k]].wr \in 1 .. n
                      /\ q.swqe[lr[k]].op = q.posted[q.swqe[lr[k]].wr]
    BY DEF WrsOK
  <2> HIDE DEF lq, lr
  <2>1. k + 1 \in 1 .. Len(lq) /\ lr[k] = lq[k + 1]
    BY <1>2
  <2> QED BY <2>1, <1>3
<1>5. vq # <<>>
  BY <1>1, <1>2, EmptySeq
<1>6. /\ Head(vq) = vq[1] /\ Tail(vq) \in Seq(1 .. n)
      /\ Len(Tail(vq)) = Len(vq) - 1
      /\ \A k \in 1 .. Len(vq) - 1 : Tail(vq)[k] = vq[k + 1]
  BY <1>1, <1>5, HeadAndTail
<1>7. vr = Tail(vq)
  <2>1. vr = [k \in 1 .. Len(lr) |-> q.swqe[lr[k]].wr]
    BY DEF OpenWrs
  <2> HIDE DEF lq, lr, vq, vr
  <2>2. \A k \in 1 .. Len(lr) : q.swqe[lr[k]].wr = Tail(vq)[k]
    <3> TAKE k \in 1 .. Len(lr)
    <3>1. k + 1 \in 1 .. Len(lq) /\ k \in 1 .. Len(lq) - 1
      BY <1>2
    <3> QED BY <3>1, <1>1, <1>2, <1>6
  <2>3. \A k \in 1 .. Len(lr) : q.swqe[lr[k]].wr \in 1 .. n
    <3> TAKE k \in 1 .. Len(lr)
    <3>1. k + 1 \in 1 .. Len(lq) /\ lr[k] = lq[k + 1]
      BY <1>2
    <3> QED BY <3>1, <1>3
  <2>4. vr \in [1 .. Len(lr) -> 1 .. n] /\ Len(lr) \in Nat
    BY <1>2, <2>1, <2>3
  <2>5. vr \in Seq(1 .. n) /\ Len(vr) = Len(lr)
    BY <2>4, FunctionIsSeq
  <2>6. \A k \in 1 .. Len(vr) : vr[k] = Tail(vq)[k]
    BY <2>1, <2>2, <2>5
  <2>7. Len(vr) = Len(Tail(vq))
    BY <2>5, <1>1, <1>2, <1>6
  <2> QED BY <2>5, <2>6, <2>7, <1>6, SeqEqual
<1>8. 1 \in 1 .. Len(lq)
  BY <1>2
<1>9. /\ Head(vq) = q.swqe[Head(lq)].wr
      /\ Head(vq) \in 1 .. n
      /\ q.swqe[Head(lq)].op = q.posted[Head(vq)]
  BY <1>1, <1>2, <1>3, <1>6, <1>8
<1> QED
  BY <1>4, <1>5, <1>7, <1>9

(* DropFirst takes the first WQE in use off its list.                      *)
LEMMA DropFirstSound ==
  ASSUME NEW q, Sound(q), ~Idle(q)
  PROVE  LET r == DropFirst(q)
         IN  /\ Sound(r) /\ Keeps(q, r) /\ r.state = q.state
             /\ r.free = q.free /\ r.done = q.done /\ r.nr_recv = q.nr_recv
             /\ Left(q) # <<>> /\ Left(r) = Tail(Left(q))
             /\ Head(Left(q)) = Head(q.waiting \o q.sending)
             /\ (q.waiting = <<>> => r.waiting = <<>>)
<1> DEFINE r == DropFirst(q)
           w == q.waiting
           s == q.sending
           u == q.submitted
<1>1. q \in QpType
  BY DEF Sound
<1>2. w \in Seq(Swqes) /\ s \in Seq(Swqes) /\ u \in Seq(Swqes)
  BY <1>1, Fields
<1>3. Left(q) = w \o s \o u /\ Left(q) # <<>>
  BY <1>2, ThreeListsType DEF Left, Idle
<1>4. /\ r \in QpType /\ Keeps(q, r) /\ r.state = q.state
      /\ r.free = q.free /\ r.done = q.done /\ r.nr_recv = q.nr_recv
      /\ r.rfree = q.rfree /\ r.cq = q.cq
      /\ Left(r) = Tail(Left(q)) /\ Head(Left(q)) = Head(w \o s)
      /\ (w = <<>> => r.waiting = <<>>)
  <2>1. CASE w # <<>>
    <3> DEFINE t == Tail(w)
    <3>1. r = [q EXCEPT !.waiting = t]
      BY <2>1 DEF DropFirst
    <3>2. t \in Seq(Swqes)
      BY <1>2, <2>1, HeadAndTail
    <3> HIDE DEF r, t
    <3>3. r \in QpType
      BY <1>1, <3>1, <3>2 DEF QpType
    <3>4. /\ Keeps(q, r) /\ r.state = q.state
          /\ r.free = q.free /\ r.done = q.done /\ r.nr_recv = q.nr_recv
          /\ r.rfree = q.rfree /\ r.cq = q.cq
          /\ r.waiting = t /\ r.sending = s /\ r.submitted = u
      BY <1>1, <3>1 DEF QpType, Keeps
    <3>5. /\ Head(w \o s \o u) = Head(w)
          /\ Tail(w \o s \o u) = Tail(w) \o s \o u
      <4>1. /\ w \in Seq(Swqes) /\ s \in Seq(Swqes) /\ u \in Seq(Swqes)
            /\ w # <<>>
        BY <1>2, <2>1
      <4> HIDE DEF w, s, u
      <4> QED BY <4>1, ThreeListsFirst, SMTT(60)
    <3>6. Head(w \o s) = Head(w)
      BY <1>2, <2>1, HeadOfConcat
    <3> QED BY <1>3, <2>1, <3>3, <3>4, <3>5, <3>6 DEF Left, t
  <2>2. CASE w = <<>>
    <3>0. s # <<>>
      BY <2>2 DEF Idle
    <3> DEFINE t == Tail(s)
    <3>1. r = [q EXCEPT !.sending = t]
      BY <2>2 DEF DropFirst
    <3>2. t \in Seq(Swqes)
      BY <1>2, <3>0, HeadAndTail
    <3> HIDE DEF r, t
    <3>3. r \in QpType
      BY <1>1, <3>1, <3>2 DEF QpType
    <3>4. /\ Keeps(q, r) /\ r.state = q.state
          /\ r.free = q.free /\ r.done = q.done /\ r.nr_recv = q.nr_recv
          /\ r.rfree = q.rfree /\ r.cq = q.cq
          /\ r.waiting = w /\ r.sending = t /\ r.submitted = u
      BY <1>1, <3>1 DEF QpType, Keeps
    <3>5. /\ Head(w \o s \o u) = Head(s)
          /\ Tail(w \o s \o u) = w \o Tail(s) \o u
      <4> HIDE DEF w, s, u
      <4> QED BY <1>2, <2>2, <3>0, ThreeListsFirst
    <3>6. w \o s = s
      BY <1>2, <2>2, ConcatEmptySeq
    <3> QED BY <1>3, <2>2, <3>3, <3>4, <3>5, <3>6 DEF Left, t
  <2> QED BY <2>1, <2>2
<1> HIDE DEF r
<1>5. WrsOK(r)
  BY <1>3, <1>4, WithoutFirst DEF Keeps
<1>6. Sound(r)
  BY <1>4, <1>5 DEF Sound, Keeps
<1> QED
  BY <1>3, <1>4, <1>6 DEF r

(* The first WQE in use completes and is off its list, not yet freed.      *)
LEMMA CompleteFirst ==
  ASSUME NEW q, QueueOK(q), ~Idle(q)
  PROVE  LET i == Head(q.waiting \o q.sending)
             r == DropFirst(insert_send_wc(q, q.swqe[i].wr))
         IN  /\ Sound(r) /\ Keeps(q, r) /\ r.state = q.state
             /\ r.free = q.free /\ r.nr_recv = q.nr_recv
             /\ Left(q) # <<>> /\ Left(r) = Tail(Left(q))
             /\ i \in Swqes /\ i = Head(Left(q))
             /\ Posted(r, r.done \o OpenWrs(r))
             /\ (q.waiting = <<>> => r.waiting = <<>>)
<1> DEFINE i == Head(q.waiting \o q.sending)
           a == insert_send_wc(q, q.swqe[i].wr)
           r == DropFirst(a)
           v == OpenWrs(q)
<1>1. Sound(q) /\ q \in QpType
  BY DEF QueueOK, Sound
<1>2. /\ Left(q) # <<>> /\ i = Head(Left(q)) /\ DropFirst(q) \in QpType
      /\ Left(DropFirst(q)) = Tail(Left(q)) /\ Keeps(q, DropFirst(q))
  BY <1>1, DropFirstSound DEF Sound
<1>3. /\ v # <<>> /\ Head(v) = q.swqe[i].wr /\ Head(v) \in 1 .. Len(q.posted)
  BY <1>1, <1>2, WithoutFirst DEF Keeps
<1>4. /\ Sound(a) /\ Keeps(q, a) /\ KeepsLists(q, a) /\ a.state = q.state
      /\ a.free = q.free /\ a.done = Append(q.done, Head(v))
      /\ a.nr_recv = q.nr_recv
  <2> DEFINE x == q.swqe[i].wr
  <2>1. x \in 1 .. Len(q.posted) /\ x = Head(v)
    BY <1>3, Zenon
  <2>2. a = insert_send_wc(q, x)
    BY SMTT(30)
  <2> HIDE DEF x, v, a
  <2> QED BY <1>1, <2>1, <2>2, InsertSendSound
<1>5. ~Idle(a) /\ Left(a) = Left(q) /\ OpenWrs(a) = v
  <2>1. ~Idle(a) /\ Left(a) = Left(q)
    BY <1>4 DEF KeepsLists, Idle, Left
  <2> QED BY <1>4, <2>1, ZenonT(30) DEF Keeps, OpenWrs
<1>6. i \in Swqes
  <2>1. Left(q) \in Seq(Swqes)
    BY <1>1, LeftType
  <2> QED BY <1>2, <2>1, HeadAndTail
<1> HIDE DEF i, a, v
<1>7. /\ Sound(r) /\ Keeps(a, r) /\ r.state = a.state
      /\ r.free = a.free /\ r.done = a.done /\ r.nr_recv = a.nr_recv
      /\ Left(r) = Tail(Left(a))
      /\ (a.waiting = <<>> => r.waiting = <<>>)
  BY <1>4, <1>5, DropFirstSound
<1> HIDE DEF r
<1>8. OpenWrs(r) = Tail(v)
  BY <1>4, <1>5, <1>7, <1>2, WithoutFirst DEF Keeps, Sound
<1>9. r.done \o OpenWrs(r) = q.done \o v
  <2>1. /\ v \in Seq(1 .. Len(q.posted)) /\ q.done \in Seq(1 .. Len(q.posted))
    BY <1>1, PostedTypes DEF v
  <2>2. /\ Tail(v) \in Seq(1 .. Len(q.posted)) /\ <<Head(v)>> \o Tail(v) = v
        /\ <<Head(v)>> \in Seq(1 .. Len(q.posted))
    BY <1>3, <2>1, HeadAndTail
  <2>3. Append(q.done, Head(v)) = q.done \o <<Head(v)>>
    BY <1>3, <2>1, AppendIsConcat
  <2>0. Joined(q.done, <<Head(v)>>, Tail(v))
    BY <2>1, <2>2, ListsJoin
  <2>4. (q.done \o <<Head(v)>>) \o Tail(v) = q.done \o (<<Head(v)>> \o Tail(v))
    BY <2>0, Zenon DEF Joined
  <2>5. q.done \o <<Head(v)>> \o Tail(v) = q.done \o v
    BY <2>2, <2>4, Zenon
  <2> QED BY <1>4, <1>7, <1>8, <2>3, <2>5
<1>10. Posted(r, r.done \o OpenWrs(r))
  <2>1. Posted(q, q.done \o v)
    BY DEF QueueOK, v
  <2>2. r.posted = q.posted
    BY <1>4, <1>7 DEF Keeps
  <2> QED BY <1>9, <2>1, <2>2, PostedSame
<1>11. /\ Keeps(q, r) /\ (q.waiting = <<>> => r.waiting = <<>>)
  BY <1>4, <1>7 DEF Keeps, KeepsLists
<1> QED
  BY <1>2, <1>4, <1>5, <1>6, <1>7, <1>10, <1>11 DEF r, a, i

-----------------------------------------------------------------------------
(* The handlers leave the lists and the order of work requests intact.     *)

(* The first WQE in use has left its list and is freed.                    *)
LEMMA FreedOK ==
  ASSUME NEW q, NEW p, QueueOK(q), Sound(p), p.free = q.free,
         Left(q) # <<>>, Left(p) = Tail(Left(q)), NEW i, i = Head(Left(q)),
         Posted(p, p.done \o OpenWrs(p))
  PROVE  QueueOK(pib_util_free_send_wqe(p, i))
<1> DEFINE r == pib_util_free_send_wqe(p, i)
<1>1. Left(q) \in Seq(Swqes) /\ q.free \in Seq(Swqes)
  BY LeftType, Fields DEF QueueOK, Sound
<1>2. i \in Swqes
  BY <1>1, HeadAndTail
<1>3. /\ Sound(r) /\ Keeps(p, r) /\ KeepsLists(p, r)
      /\ r.free = Append(p.free, i) /\ r.done = p.done
  BY <1>2, FreeSound
<1> HIDE DEF r
<1>4. Left(r) = Left(p)
  BY <1>3 DEF KeepsLists, Left
<1>5. OpenWrs(r) = OpenWrs(p)
  BY <1>3, <1>4 DEF Keeps, OpenWrs
<1>6. Once(r.free \o Left(r), Swqes)
  <2>1. Once(q.free \o Left(q), Swqes)
    BY DEF QueueOK
  <2>2. Once(Append(q.free, Head(Left(q))) \o Tail(Left(q)), Swqes)
    BY <1>1, <2>1, OnceFree
  <2> QED BY <1>3, <1>4, <2>2
<1>7. Posted(r, r.done \o OpenWrs(r))
  <2>1. r.posted = p.posted
    BY <1>3 DEF Keeps
  <2> QED BY <1>3, <1>5, <2>1, PostedSame
<1> QED
  BY <1>3, <1>6, <1>7 DEF QueueOK, r

(* The first WQE in use has left its list, the others were flushed (f) and *)
(* then it is freed.                                                       *)
FirstDone(q, p, i) ==
  /\ Sound(p) /\ p.free = q.free /\ Left(q) # <<>>
  /\ Left(p) = Tail(Left(q)) /\ i = Head(Left(q))
  /\ Posted(p, p.done \o OpenWrs(p))

AllFlushed(p, f) ==
  /\ Sound(f) /\ Idle(f) /\ f.submitted = <<>> /\ f.posted = p.posted
  /\ f.free = p.free \o Left(p) /\ f.done = p.done \o OpenWrs(p)

LEMMA FailedOK ==
  ASSUME NEW q, NEW p, NEW f, NEW i, QueueOK(q), FirstDone(q, p, i),
         AllFlushed(p, f)
  PROVE  LET r == pib_util_free_send_wqe(f, i)
         IN  /\ QueueOK(r) /\ Idle(r) /\ r.submitted = <<>>
             /\ r.type = f.type /\ r.state = f.state /\ r.nr_recv = f.nr_recv
<1> USE DEF FirstDone, AllFlushed
<1> DEFINE r == pib_util_free_send_wqe(f, i)
<1>1. Left(q) \in Seq(Swqes) /\ q.free \in Seq(Swqes)
  BY LeftType, Fields DEF QueueOK, Sound
<1>2. i \in Swqes
  BY <1>1, HeadAndTail
<1>3. /\ Sound(r) /\ Keeps(f, r) /\ KeepsLists(f, r)
      /\ r.free = Append(f.free, i) /\ r.done = f.done
      /\ r.state = f.state /\ r.nr_recv = f.nr_recv
  BY <1>2, FreeSound
<1> HIDE DEF r
<1>4. Idle(r) /\ r.submitted = <<>>
  BY <1>3 DEF KeepsLists, Idle
<1>5. /\ r.free \o Left(r) = r.free /\ r.done \o OpenWrs(r) = r.done
  BY <1>3, <1>4, NothingLeft
<1>6. Once(r.free \o Left(r), Swqes)
  <2>1. Once(q.free \o Left(q), Swqes)
    BY DEF QueueOK
  <2>2. Once(Append(q.free \o Tail(Left(q)), Head(Left(q))), Swqes)
    BY <1>1, <2>1, OnceFreeAll
  <2> QED BY <1>3, <1>5, <2>2
<1>7. Posted(r, r.done \o OpenWrs(r))
  <2>1. r.posted = p.posted
    BY <1>3 DEF Keeps
  <2> QED BY <1>3, <1>5, <2>1, PostedSame
<1> QED
  BY <1>3, <1>4, <1>6, <1>7 DEF QueueOK, Keeps, r

(* WQEs move between neighbouring lists, or a flag of one changes.         *)
LEMMA MovedOK ==
  ASSUME NEW q, NEW r, QueueOK(q), r \in QpType, Left(r) = Left(q),
         r.free = q.free, r.done = q.done, r.posted = q.posted,
         r.cq = q.cq, r.life = q.life, r.rfree = q.rfree,
         r.nr_recv = q.nr_recv,
         \A i \in Swqes : /\ r.swqe[i].wr = q.swqe[i].wr
                          /\ r.swqe[i].op = q.swqe[i].op
  PROVE  QueueOK(r)
<1>1. Left(q) \in Seq(Swqes)
  BY LeftType DEF QueueOK
<1>2. \A k \in 1 .. Len(Left(q)) : Left(q)[k] \in Swqes
  BY <1>1
<1>3. WrsOK(r)
  <2>1. WrsOK(q)
    BY DEF QueueOK, Sound
  <2> SUFFICES ASSUME NEW k \in 1 .. Len(Left(q))
               PROVE  /\ r.swqe[Left(q)[k]].wr \in 1 .. Len(q.posted)
                      /\ r.swqe[Left(q)[k]].op =
                           q.posted[r.swqe[Left(q)[k]].wr]
    BY DEF WrsOK
  <2>2. /\ r.swqe[Left(q)[k]].wr = q.swqe[Left(q)[k]].wr
        /\ r.swqe[Left(q)[k]].op = q.swqe[Left(q)[k]].op
    BY <1>2
  <2> QED BY <2>1, <2>2 DEF WrsOK
<1>4. Sound(r)
  BY <1>3 DEF QueueOK, Sound
<1>5. OpenWrs(r) = OpenWrs(q)
  <2>1. \A k \in 1 .. Len(Left(q)) :
          r.swqe[Left(q)[k]].wr = q.swqe[Left(q)[k]].wr
    BY <1>2
  <2> QED BY <2>1 DEF OpenWrs
<1>6. Posted(r, r.done \o OpenWrs(r))
  BY <1>5, PostedSame DEF QueueOK
<1> QED
  BY <1>4, <1>6 DEF QueueOK

(* A local-only request succeeds: nobody is told.                          *)
LEMMA LocalSucceedsOK ==
  ASSUME NEW q, QueueOK(q), q.waiting # <<>>,
         q.swqe[Head(q.waiting)].op = "LOCAL_INV"
  PROVE  LET r == LocalSucceeds(q)
         IN  QueueOK(r) /\ r.state = q.state /\ r.type = q.type
             /\ r.swqe = q.swqe
<1> DEFINE p == DropFirst(q)
           i == Head(q.waiting)
           v == OpenWrs(q)
<1>1. Sound(q) /\ ~Idle(q) /\ q \in QpType
  BY DEF QueueOK, Idle, Sound
<1>2. LocalSucceeds(q) = pib_util_free_send_wqe(p, i)
  BY DEF LocalSucceeds, DropFirst
<1>3. /\ Sound(p) /\ Keeps(q, p) /\ p.state = q.state
      /\ p.free = q.free /\ p.done = q.done
      /\ Left(q) # <<>> /\ Left(p) = Tail(Left(q))
      /\ Head(Left(q)) = Head(q.waiting \o q.sending)
  BY <1>1, DropFirstSound
<1>4. i = Head(Left(q)) /\ i \in Swqes
  <2> DEFINE w == q.waiting
             u == q.sending
  <2>1. w \in Seq(Swqes) /\ u \in Seq(Swqes) /\ w # <<>>
    BY <1>1, Fields
  <2> HIDE DEF w, u
  <2>2. Head(w) \in Swqes
    BY <2>1, HeadAndTail
  <2>3. Head(w \o u) = Head(w)
    BY <2>1, HeadOfConcat
  <2> QED BY <1>3, <2>2, <2>3 DEF w, u
<1>5. /\ v # <<>> /\ OpenWrs(p) = Tail(v)
      /\ Head(v) \in 1 .. Len(q.posted)
      /\ q.swqe[i].op = q.posted[Head(v)]
  BY <1>1, <1>3, <1>4, WithoutFirst DEF Keeps, Sound
<1>6. Posted(p, p.done \o OpenWrs(p))
  <2>1. /\ v \in Seq(1 .. Len(q.posted)) /\ q.done \in Seq(1 .. Len(q.posted))
        /\ Len(q.posted) \in Nat
    BY <1>1, PostedTypes
  <2> HIDE DEF v, p
  <2>2. Tail(v) \in Seq(1 .. Len(q.posted)) /\ <<Head(v)>> \o Tail(v) = v
    BY <1>5, <2>1, HeadAndTail
  <2>3. Posted(q, q.done \o (<<Head(v)>> \o Tail(v)))
    BY <2>2 DEF QueueOK, v
  <2>4. q.posted[Head(v)] # "SEND"
    BY <1>5
  <2>5. Posted(q, q.done \o Tail(v))
    BY <1>5, <2>1, <2>2, <2>3, <2>4, PostedRemove
  <2> QED BY <1>3, <1>5, <2>5, PostedSame DEF Keeps
<1> HIDE DEF p
<1>7. QueueOK(pib_util_free_send_wqe(p, i))
  BY <1>3, <1>4, <1>6, FreedOK
<1>8. LET r == pib_util_free_send_wqe(p, i)
      IN  Keeps(p, r) /\ r.state = p.state
  BY <1>3, <1>4, FreeSound
<1> QED
  BY <1>2, <1>3, <1>7, <1>8 DEF Keeps

(* A local-only request fails: it completes twice and the rest is flushed. *)
LEMMA LocalFailsOK ==
  ASSUME NEW q, QueueOK(q), q.waiting # <<>>,
         q.swqe[Head(q.waiting)].op = "LOCAL_INV"
  PROVE  LET r == LocalFails(q)
         IN  /\ QueueOK(r) /\ r.state = "ERR" /\ r.type = q.type
             /\ Idle(r) /\ r.submitted = <<>> /\ r.nr_recv = 0
<1> DEFINE i == Head(q.waiting)
           v == OpenWrs(q)
           p == DropFirst(q)
           a == insert_send_wc(q, q.swqe[i].wr)
           b == ToError(a)
           f == q.free \o Tail(Left(q)) \o <<i>>
           r == LocalFails(q)
<1>1. Sound(q) /\ ~Idle(q) /\ q \in QpType
  BY DEF QueueOK, Idle, Sound
<1>2. r = [b EXCEPT !.free = f]
  BY DEF LocalFails
<1>3. /\ Sound(p) /\ Keeps(q, p) /\ Left(q) # <<>> /\ Left(p) = Tail(Left(q))
      /\ Head(Left(q)) = Head(q.waiting \o q.sending)
  BY <1>1, DropFirstSound
<1>4. i = Head(Left(q)) /\ i \in Swqes
  <2> DEFINE w == q.waiting
             u == q.sending
  <2>1. w \in Seq(Swqes) /\ u \in Seq(Swqes) /\ w # <<>>
    BY <1>1, Fields
  <2> HIDE DEF w, u
  <2>2. Head(w) \in Swqes
    BY <2>1, HeadAndTail
  <2>3. Head(w \o u) = Head(w)
    BY <2>1, HeadOfConcat
  <2> QED BY <1>3, <2>2, <2>3 DEF w, u
<1>5. /\ v # <<>> /\ Head(v) = q.swqe[i].wr
      /\ Head(v) \in 1 .. Len(q.posted)
      /\ q.swqe[i].op = q.posted[Head(v)]
  BY <1>1, <1>3, <1>4, WithoutFirst DEF Keeps, Sound
<1>6. /\ Sound(a) /\ Keeps(q, a) /\ KeepsLists(q, a)
      /\ a.done = Append(q.done, Head(v))
  <2> DEFINE x == q.swqe[i].wr
  <2>1. x \in 1 .. Len(q.posted) /\ x = Head(v)
    BY <1>5
  <2>2. a = insert_send_wc(q, x)
    OBVIOUS
  <2> HIDE DEF x, v, a
  <2> QED BY <1>1, <2>1, <2>2, InsertSendSound
<1>7. OpenWrs(a) = v
  <2> HIDE DEF a
  <2>1. Left(a) = Left(q)
    BY <1>6 DEF KeepsLists, Left
  <2>2. a.swqe = q.swqe
    BY <1>6 DEF Keeps
  <2> QED BY <2>1, <2>2 DEF OpenWrs
<1>8. f \in Seq(Swqes) /\ Once(f, Swqes)
  <2>1. Left(q) \in Seq(Swqes) /\ q.free \in Seq(Swqes)
    BY <1>1, LeftType, Fields
  <2>2. Tail(Left(q)) \in Seq(Swqes) /\ <<i>> \in Seq(Swqes)
    BY <1>3, <1>4, <2>1, HeadAndTail
  <2>3. f \in Seq(Swqes)
    BY <2>1, <2>2, ConcatProperties
  <2>4. Once(q.free \o Left(q), Swqes)
    BY DEF QueueOK
  <2> QED BY <1>3, <1>4, <2>1, <2>3, <2>4, OnceFreeAll
<1> HIDE DEF p, a, v, f, i
<1>9. /\ Sound(b) /\ Keeps(a, b) /\ b.state = "ERR" /\ Idle(b)
      /\ b.submitted = <<>> /\ b.nr_recv = 0 /\ b.done = a.done \o v
  BY <1>6, <1>7, ToErrorSound
<1> HIDE DEF b, r
<1>10. b \in QpType /\ r \in QpType
  <2>1. b \in QpType
    BY <1>9 DEF Sound
  <2> QED BY <1>2, <1>8, <2>1 DEF QpType
<1>11. /\ Keeps(b, r) /\ KeepsLists(b, r) /\ r.state = b.state /\ r.free = f
       /\ r.done = b.done /\ r.nr_recv = b.nr_recv /\ r.rfree = b.rfree
       /\ r.cq = b.cq
  <2>1. /\ r.state = b.state /\ r.free = f /\ r.done = b.done
        /\ r.nr_recv = b.nr_recv /\ r.rfree = b.rfree /\ r.cq = b.cq
    BY <1>2, <1>10 DEF QpType
  <2>2. KeepsLists(b, r)
    BY <1>2, <1>10 DEF QpType, KeepsLists
  <2>3. Keeps(b, r)
    BY <1>2, <1>10 DEF QpType, Keeps
  <2> QED BY <2>1, <2>2, <2>3
<1>12. Sound(r)
  <2>1. Left(r) = Left(b) /\ r.swqe = b.swqe /\ r.posted = b.posted
        /\ r.life = b.life
    BY <1>11 DEF Left, KeepsLists, Keeps
  <2>2. WrsOK(r)
    BY <1>9, <2>1 DEF Sound, WrsOK
  <2> QED BY <1>9, <1>10, <1>11, <2>1, <2>2 DEF Sound
<1>13. Idle(r) /\ r.submitted = <<>>
  BY <1>9, <1>11 DEF KeepsLists, Idle
<1>14. /\ r.free \o Left(r) = r.free /\ r.done \o OpenWrs(r) = r.done
  BY <1>12, <1>13, NothingLeft
<1>15. Posted(r, r.done)
  <2>1. /\ v \in Seq(1 .. Len(q.posted)) /\ q.done \in Seq(1 .. Len(q.posted))
        /\ Len(q.posted) \in Nat
    BY <1>1, PostedTypes DEF v
  <2>2. Posted(q, q.done \o v)
    BY DEF QueueOK, v
  <2>3. q.posted[Head(v)] # "SEND"
    BY <1>5 DEF i
  <2>4. Posted(q, Append(q.done, Head(v)) \o v)
    BY <1>5, <2>1, <2>2, <2>3, PostedRepeat
  <2>5. r.posted = q.posted /\ r.done = Append(q.done, Head(v)) \o v
    BY <1>6, <1>9, <1>11 DEF Keeps
  <2> QED BY <2>4, <2>5, PostedSame
<1> QED
  BY <1>6, <1>8, <1>9, <1>11, <1>12, <1>13, <1>14, <1>15
     DEF QueueOK, Keeps, r

(* pib_post_send puts a free WQE at the end of the submitted list.         *)
LEMMA TakeSwqeOK ==
  ASSUME NEW q, QueueOK(q), q.free # <<>>, NEW op \in Opcodes,
         Len(q.posted) < MaxPost
  PROVE  LET r == TakeSwqe(q, op)
         IN  /\ QueueOK(r) /\ r.type = q.type /\ r.state = q.state
             /\ r.waiting = q.waiting /\ r.sending = q.sending
             /\ r.drained = q.drained
             /\ \A j \in Swqes : q.swqe[j].local => r.swqe[j].local
<1> DEFINE i == Head(q.free)
           e == [wr |-> Len(q.posted) + 1, op |-> op,
                 local |-> \/ q.swqe[i].local
                           \/ q.type = "RC" /\ op = "LOCAL_INV",
                 sent |-> FALSE, status |-> "SUCCESS"]
           po == Append(q.posted, op)
           fr == Tail(q.free)
           su == Append(q.submitted, i)
           sw == [q.swqe EXCEPT ![i] = e]
           r == TakeSwqe(q, op)
<1>1. Sound(q) /\ q \in QpType
  BY DEF QueueOK, Sound
<1>2. r = [q EXCEPT !.posted = po, !.free = fr, !.submitted = su, !.swqe = sw]
  BY DEF TakeSwqe
<1>3. /\ q.posted \in Seq(Opcodes) /\ q.free \in Seq(Swqes)
      /\ q.submitted \in Seq(Swqes) /\ q.swqe \in [Swqes -> SwqeType]
      /\ q.waiting \in Seq(Swqes) /\ q.sending \in Seq(Swqes)
  BY <1>1, Fields
<1>4. i \in Swqes /\ fr \in Seq(Swqes) /\ su \in Seq(Swqes)
  BY <1>3, HeadAndTail
<1>5. Len(q.posted) \in Nat /\ Len(q.posted) + 1 \in 1 .. MaxPost
  BY <1>3, Bounds
<1>6. e \in SwqeType
  <2>1. q.swqe[i].local \in BOOLEAN
    BY <1>3, <1>4 DEF SwqeType
  <2>2. Len(q.posted) + 1 \in 0 .. MaxPost
    BY <1>5, Bounds
  <2> QED BY <2>1, <2>2 DEF SwqeType
<1>7. /\ po \in Seq(Opcodes) /\ Len(po) = Len(q.posted) + 1
      /\ po[Len(q.posted) + 1] = op
      /\ \A w \in 1 .. Len(q.posted) : po[w] = q.posted[w]
  BY <1>3
<1>8. e.wr = Len(q.posted) + 1 /\ e.op = op /\ (q.swqe[i].local => e.local)
  OBVIOUS
<1> HIDE DEF e
<1>9. /\ sw \in [Swqes -> SwqeType] /\ sw[i] = e
      /\ \A j \in Swqes : j # i => sw[j] = q.swqe[j]
  BY <1>3, <1>4, <1>6
<1> HIDE DEF i, po, fr, su, sw, r
<1>10. r \in QpType
  BY <1>1, <1>2, <1>4, <1>7, <1>9 DEF QpType
<1>11. /\ r.posted = po /\ r.free = fr /\ r.submitted = su /\ r.swqe = sw
       /\ r.type = q.type /\ r.state = q.state /\ r.waiting = q.waiting
       /\ r.sending = q.sending /\ r.drained = q.drained /\ r.cq = q.cq
       /\ r.life = q.life /\ r.rfree = q.rfree /\ r.nr_recv = q.nr_recv
       /\ r.done = q.done
  BY <1>1, <1>2 DEF QpType
<1> DEFINE l == Left(q)
<1>12. l \in Seq(Swqes)
  BY <1>1, LeftType
<1>13. Left(r) = Append(l, i)
  <2> DEFINE w == q.waiting
             s == q.sending
             u == q.submitted
  <2>1. w \in Seq(Swqes) /\ s \in Seq(Swqes) /\ u \in Seq(Swqes)
    BY <1>3
  <2>2. Left(r) = w \o s \o Append(u, i)
    BY <1>11 DEF Left, su
  <2>3. l = w \o s \o u
    BY DEF Left
  <2> HIDE DEF w, s, u, l
  <2>4. i \in Swqes
    BY <1>4
  <2>5. w \o s \o Append(u, i) = Append(w \o s \o u, i)
    BY <2>1, <2>4, ThreeListsAppend, SMTT(20)
  <2> QED BY <2>2, <2>3, <2>5, Zenon
<1>14. /\ Once(r.free \o Left(r), Swqes)
       /\ \A k \in 1 .. Len(l) : l[k] # i
  <2>1. Once(q.free \o l, Swqes)
    BY DEF QueueOK
  <2> HIDE DEF l
  <2>2. /\ Once(Tail(q.free) \o Append(l, Head(q.free)), Swqes)
        /\ \A k \in 1 .. Len(l) : l[k] # Head(q.free)
    BY <1>3, <1>12, <2>1, OnceTake
  <2> QED BY <1>11, <1>13, <2>2 DEF fr, i
<1> DEFINE n == Len(l)
           v == OpenWrs(q)
<1>15. /\ n \in Nat /\ Len(Left(r)) = n + 1 /\ Left(r)[n + 1] = i
       /\ \A k \in 1 .. n : Left(r)[k] = l[k] /\ l[k] \in Swqes
  <2> HIDE DEF l
  <2> QED BY <1>4, <1>12, <1>13, AppendProperties
<1>16. /\ v \in Seq(1 .. Len(q.posted)) /\ Len(v) = n
       /\ \A k \in 1 .. n : v[k] = q.swqe[l[k]].wr
  BY <1>1, LeftType
<1>17. \A k \in 1 .. n : /\ q.swqe[l[k]].wr \in 1 .. Len(q.posted)
                         /\ q.swqe[l[k]].op = q.posted[q.swqe[l[k]].wr]
  BY <1>1 DEF Sound, WrsOK
<1> HIDE DEF l, n, v
<1>18. \A k \in 1 .. n : r.swqe[Left(r)[k]] = q.swqe[l[k]]
  BY <1>9, <1>11, <1>14, <1>15 DEF n
<1>19. r.swqe[Left(r)[n + 1]] = e
  BY <1>9, <1>11, <1>15
<1>20. \A k \in 1 .. n + 1 :
         /\ r.swqe[Left(r)[k]].wr \in 1 .. Len(r.posted)
         /\ r.swqe[Left(r)[k]].op = r.posted[r.swqe[Left(r)[k]].wr]
  <2> TAKE k \in 1 .. n + 1
  <2>1. CASE k \in 1 .. n
    <3>1. r.swqe[Left(r)[k]] = q.swqe[l[k]]
      BY <2>1, <1>18
    <3>2. /\ q.swqe[l[k]].wr \in 1 .. Len(q.posted)
          /\ q.swqe[l[k]].op = q.posted[q.swqe[l[k]].wr]
      BY <2>1, <1>17
    <3>3. q.swqe[l[k]].wr \in 1 .. Len(r.posted)
      BY <3>2, <1>5, <1>7, <1>11
    <3>4. r.posted[q.swqe[l[k]].wr] = q.posted[q.swqe[l[k]].wr]
      BY <3>2, <1>7, <1>11
    <3> QED BY <3>1, <3>2, <3>3, <3>4
  <2>2. CASE k = n + 1
    BY <2>2, <1>5, <1>7, <1>8, <1>11, <1>19
  <2> QED BY <2>1, <2>2, <1>15
<1>21. WrsOK(r)
  BY <1>15, <1>20 DEF WrsOK
<1>22. r.done \in Seq(1 .. Len(r.posted))
  <2>1. 1 .. Len(q.posted) \subseteq 1 .. Len(r.posted)
    BY <1>5, <1>7, <1>11
  <2>2. q.done \in Seq(1 .. Len(q.posted))
    BY <1>1 DEF Sound
  <2> QED BY <1>11, <2>1, <2>2, SeqMonotonic
<1>23. Sound(r)
  <2>1. Len(r.posted) <= MaxPost
    BY <1>5, <1>7, <1>11
  <2> QED BY <1>1, <1>10, <1>11, <1>21, <1>22, <2>1 DEF Sound
<1>24. OpenWrs(r) = Append(v, Len(q.posted) + 1)
  <2> DEFINE x == Len(q.posted) + 1
             z == OpenWrs(r)
             y == Append(v, x)
  <2>1. /\ z \in Seq(1 .. Len(r.posted)) /\ Len(z) = n + 1
        /\ \A k \in 1 .. n + 1 : z[k] = r.swqe[Left(r)[k]].wr
    BY <1>15, <1>23, LeftType
  <2>2. v \in Seq(1 .. Len(r.posted)) /\ x \in 1 .. Len(r.posted)
    <3>1. 1 .. Len(q.posted) \subseteq 1 .. Len(r.posted)
      BY <1>5, <1>7, <1>11
    <3> QED BY <1>16, <3>1, <1>5, <1>7, <1>11, SeqMonotonic
  <2> HIDE DEF x, z
  <2>3. /\ y \in Seq(1 .. Len(r.posted)) /\ Len(y) = n + 1 /\ y[n + 1] = x
        /\ \A k \in 1 .. n : y[k] = v[k]
    BY <1>16, <2>2, AppendProperties
  <2> HIDE DEF y
  <2>4. ASSUME NEW k \in 1 .. n + 1 PROVE z[k] = y[k]
    <3>1. CASE k \in 1 .. n
      BY <3>1, <2>1, <2>3, <1>16, <1>18, ZenonT(30)
    <3>2. CASE k = n + 1
      BY <3>2, <2>1, <2>3, <1>8, <1>19, <1>15 DEF x
    <3> QED BY <3>1, <3>2, <1>15
  <2>5. z = y
    BY <2>1, <2>3, <2>4, SeqEqual
  <2> QED BY <2>5 DEF x, y, z
<1>25. Posted(r, r.done \o OpenWrs(r))
  <2> DEFINE line == q.done \o v
             x == Len(q.posted) + 1
  <2>1. /\ q.done \in Seq(1 .. Len(q.posted)) /\ v \in Seq(1 .. Len(q.posted))
        /\ Posted(q, line)
    BY <1>1, <1>16 DEF Sound, QueueOK, v
  <2>2. line \in Seq(1 .. Len(q.posted))
    BY <2>1, ConcatProperties
  <2>3. Posted(r, Append(line, x))
    <3> HIDE DEF line
    <3> QED BY <1>3, <1>11, <2>1, <2>2, PostedAppend DEF po
  <2>4. Append(line, x) = q.done \o Append(v, x)
    <3>1. q.done \in Seq(Nat) /\ v \in Seq(Nat) /\ x \in Nat /\ <<x>> \in Seq(Nat)
      BY <2>1, <1>5, SeqMonotonic
    <3>2. line \in Seq(Nat)
      BY <3>1, ConcatProperties
    <3> HIDE DEF x
    <3>3. Append(line, x) = line \o <<x>> /\ Append(v, x) = v \o <<x>>
      BY <3>1, <3>2, AppendIsConcat
    <3> DEFINE d == q.done
               h == <<x>>
    <3>4. d \in Seq(Nat) /\ h \in Seq(Nat) /\ v \in Seq(Nat)
      BY <3>1
    <3>5. (d \o v) \o h = d \o (v \o h)
      <4> HIDE DEF d, h
      <4>1. Joined(d, v, h)
        BY <3>4, ListsJoin
      <4> QED BY <4>1, Zenon DEF Joined
    <3> QED BY <3>3, <3>5
  <2> QED BY <1>11, <1>24, <2>3, <2>4
<1>26. \A j \in Swqes : q.swqe[j].local => r.swqe[j].local
  <2> TAKE j \in Swqes
  <2>1. CASE j = i
    BY <2>1, <1>8, <1>9, <1>11
  <2>2. CASE j # i
    BY <2>2, <1>9, <1>11
  <2> QED BY <2>1, <2>2
<1> QED
  BY <1>11, <1>14, <1>23, <1>25, <1>26 DEF QueueOK, r

(* A failed queue pair keeps what its state promises.                      *)
LEMMA StoppedOK ==
  ASSUME NEW r, Idle(r), r.submitted = <<>>, r.state \in {"ERR", "SQE"},
         r.type = "RC" => r.state = "ERR", r.state = "ERR" => r.nr_recv = 0
  PROVE  StateOK(r)
BY DEF StateOK

(* A work request posted to a failed queue pair completes at once.         *)
LEMMA FlushPostedOK ==
  ASSUME NEW q, QueueOK(q), StateOK(q), q.state \in {"ERR", "SQE"},
         NEW op \in Opcodes, Len(q.posted) < MaxPost
  PROVE  LET r == FlushPosted(q, op)
         IN  QueueOK(r) /\ StateOK(r) /\ r.state = q.state
<1> DEFINE po == Append(q.posted, op)
           n == Len(q.posted)
           a == [q EXCEPT !.posted = po]
           r == insert_send_wc(a, n + 1)
<1>1. Sound(q) /\ q \in QpType
  BY DEF QueueOK, Sound
<1>2. FlushPosted(q, op) = r
  BY DEF FlushPosted
<1>3. q.posted \in Seq(Opcodes) /\ n \in Nat /\ n + 1 <= MaxPost
  BY <1>1, Fields, Bounds
<1>4. po \in Seq(Opcodes) /\ Len(po) = n + 1
  BY <1>3
<1>5. Idle(q) /\ q.submitted = <<>>
  BY DEF StateOK
<1>6. Left(q) = <<>> /\ q.free \o Left(q) = q.free /\ q.done \o OpenWrs(q) = q.done
  BY <1>1, <1>5, NothingLeft
<1>7. Once(q.free, Swqes) /\ Posted(q, q.done)
  BY <1>6 DEF QueueOK
<1> HIDE DEF po
<1>8. a \in QpType
  BY <1>1, <1>4 DEF QpType
<1>9. /\ a.posted = po /\ a.type = q.type /\ a.state = q.state
      /\ KeepsLists(q, a) /\ a.free = q.free /\ a.done = q.done
      /\ a.nr_recv = q.nr_recv /\ a.rfree = q.rfree /\ a.cq = q.cq
      /\ a.life = q.life
  BY <1>1 DEF QpType, KeepsLists
<1> HIDE DEF a, n
<1>10. Idle(a) /\ a.submitted = <<>> /\ Left(a) = <<>> /\ WrsOK(a)
  <2>1. Idle(a) /\ a.submitted = <<>> /\ Left(a) = Left(q)
    BY <1>5, <1>9 DEF KeepsLists, Idle, Left
  <2> QED BY <1>6, <2>1 DEF WrsOK
<1>11. a.done \in Seq(1 .. Len(a.posted))
  <2>1. 1 .. n \subseteq 1 .. Len(a.posted)
    BY <1>3, <1>4, <1>9
  <2>2. q.done \in Seq(1 .. n)
    BY <1>1 DEF Sound, n
  <2> QED BY <1>9, <2>1, <2>2, SeqMonotonic
<1>12. Sound(a)
  <2>1. Len(a.posted) <= MaxPost
    BY <1>3, <1>4, <1>9
  <2> QED BY <1>1, <1>8, <1>9, <1>10, <1>11, <2>1 DEF Sound
<1>13. /\ Sound(r) /\ Keeps(a, r) /\ KeepsLists(a, r)
       /\ r.state = a.state /\ r.free = a.free
       /\ r.done = Append(a.done, n + 1) /\ r.nr_recv = a.nr_recv
  <2>1. n + 1 \in 1 .. Len(a.posted)
    BY <1>3, <1>4, <1>9
  <2> QED BY <1>12, <2>1, InsertSendSound
<1> HIDE DEF r
<1>14. Idle(r) /\ r.submitted = <<>>
  BY <1>10, <1>13 DEF KeepsLists, Idle
<1>15. r.free \o Left(r) = r.free /\ r.done \o OpenWrs(r) = r.done
  BY <1>13, <1>14, NothingLeft
<1>16. Posted(r, r.done)
  <2>1. r.posted = Append(q.posted, op)
    BY <1>9, <1>13 DEF Keeps, po
  <2>2. q.done \in Seq(1 .. Len(q.posted))
    BY <1>1 DEF Sound
  <2>3. Posted(r, Append(q.done, Len(q.posted) + 1))
    BY <1>3, <1>7, <2>1, <2>2, PostedAppend
  <2> QED BY <1>9, <1>13, <2>3 DEF n
<1>17. StateOK(r)
  <2>1. /\ r.type = q.type /\ r.state = q.state /\ r.nr_recv = q.nr_recv
    BY <1>9, <1>13 DEF Keeps
  <2>2. /\ q.type = "RC" => q.state = "ERR"
        /\ q.state = "ERR" => q.nr_recv = 0
    BY DEF StateOK
  <2> QED BY <1>14, <2>1, <2>2, StoppedOK
<1> QED
  BY <1>2, <1>7, <1>9, <1>13, <1>15, <1>16, <1>17 DEF QueueOK

(* reset_qp forgets everything but the WQEs themselves.                    *)
LEMMA ResetOK ==
  ASSUME NEW q, QueueOK(q), q.life < MaxEpoch
  PROVE  LET r == reset_qp(q)
         IN  /\ QueueOK(r) /\ r.type = q.type /\ r.state = q.state
             /\ Idle(r) /\ r.submitted = <<>> /\ r.nr_recv = 0 /\ r.cq = <<>>
<1> DEFINE f == q.free \o Left(q)
           li == q.life + 1
           r == reset_qp(q)
<1>1. Sound(q) /\ q \in QpType
  BY DEF QueueOK, Sound
<1>2. /\ q.rfree + q.nr_recv = MaxRecvWr /\ MaxRecvWr \in 0 .. MaxRecvWr
      /\ 0 \in 0 .. MaxRecvWr /\ 0 \in 0 .. MaxPostRecv /\ li \in 0 .. MaxEpoch
  BY <1>1, Fields, Bounds DEF Sound
<1>3. f \in Seq(Swqes) /\ Once(f, Swqes)
  <2>1. q.free \in Seq(Swqes) /\ Left(q) \in Seq(Swqes)
    BY <1>1, Fields, LeftType
  <2> QED BY <2>1, ConcatProperties DEF QueueOK
<1>4. r = [q EXCEPT !.free = f, !.waiting = <<>>, !.sending = <<>>,
                    !.submitted = <<>>, !.rfree = MaxRecvWr, !.nr_recv = 0,
                    !.drained = FALSE, !.cq = <<>>, !.life = li,
                    !.posted = <<>>, !.done = <<>>, !.precv = 0]
  BY <1>2 DEF reset_qp
<1>5. /\ <<>> \in Seq(Swqes) /\ <<>> \in Seq(0 .. MaxEpoch)
      /\ <<>> \in Seq(Opcodes) /\ <<>> \in Seq(1 .. MaxPost)
  OBVIOUS
<1> HIDE DEF f, li, r
<1>6. r \in QpType
  BY <1>1, <1>2, <1>3, <1>4, <1>5 DEF QpType
<1>7. /\ r.type = q.type /\ r.state = q.state /\ r.free = f /\ Idle(r)
      /\ r.submitted = <<>> /\ r.rfree = MaxRecvWr /\ r.nr_recv = 0
      /\ r.cq = <<>> /\ r.posted = <<>> /\ r.done = <<>>
  BY <1>1, <1>4 DEF QpType, Idle
<1>8. Len(<<>>) = 0 /\ <<>> \in Seq(1 .. Len(<<>>))
  OBVIOUS
<1>9. Left(r) = <<>>
  BY <1>5, <1>7, ThreeListsType DEF Left, Idle
<1>10. Sound(r)
  <2>1. Len(r.posted) <= MaxPost
    BY <1>7, <1>8, Bounds
  <2>2. r.rfree + r.nr_recv = MaxRecvWr
    BY <1>7, Bounds
  <2>3. WrsOK(r)
    BY <1>8, <1>9 DEF WrsOK
  <2>4. \A k \in 1 .. Len(r.cq) : r.cq[k] = r.life
    BY <1>7, <1>8
  <2> QED BY <1>6, <1>7, <1>8, <2>1, <2>2, <2>3, <2>4 DEF Sound
<1>11. r.free \o Left(r) = r.free /\ r.done \o OpenWrs(r) = r.done
  BY <1>7, <1>10, NothingLeft
<1>12. Posted(r, <<>>)
  BY <1>7, <1>8 DEF Posted
<1> QED
  BY <1>3, <1>7, <1>10, <1>11, <1>12 DEF QueueOK, r

(* pib_create_qp: all WQEs are free.                                       *)
LEMMA NewQPOK ==
  ASSUME NEW type \in {"RC", "UD"}, NEW life \in 0 .. MaxEpoch,
         NEW st \in {"NONE", "RESET"}
  PROVE  LET r == [NewQP(type, life, <<>>) EXCEPT !.state = st]
         IN  QueueOK(r) /\ StateOK(r)
<1> DEFINE f == [i \in Swqes |-> i]
           sw == [i \in Swqes |-> NewSwqe]
           n == NewQP(type, life, <<>>)
           r == [n EXCEPT !.state = st]
<1>1. MaxSendWr \in Nat
  BY Bounds
<1>2. f \in Seq(Swqes) /\ Len(f) = MaxSendWr
  BY <1>1, FunctionIsSeq DEF Swqes
<1>3. Once(f, Swqes)
  <2> SUFFICES ASSUME NEW x \in Swqes
               PROVE  \E k \in 1 .. Len(f) :
                        f[k] = x /\ \A l \in 1 .. Len(f) : f[l] = x => l = k
    BY DEF Once
  <2>1. x \in 1 .. Len(f) /\ f[x] = x
    BY <1>2 DEF Swqes
  <2>2. \A l \in 1 .. Len(f) : f[l] = l
    BY <1>2 DEF Swqes
  <2> HIDE DEF f
  <2> QED BY <2>1, <2>2
<1>4. NewSwqe \in SwqeType
  <2>1. 0 \in 0 .. MaxPost
    BY Bounds
  <2> QED BY <2>1 DEF NewSwqe, SwqeType, Opcodes
<1>5. sw \in [Swqes -> SwqeType]
  BY <1>4
<1>6. n = [type |-> type, state |-> "RESET", swqe |-> sw,
           free |-> f, submitted |-> <<>>, sending |-> <<>>,
           waiting |-> <<>>, nr_recv |-> 0, rfree |-> MaxRecvWr,
           drained |-> FALSE, cq |-> <<>>, life |-> life, posted |-> <<>>,
           done |-> <<>>, precv |-> 0]
  BY DEF NewQP
<1> HIDE DEF f, sw, n
<1>7. /\ MaxRecvWr \in 0 .. MaxRecvWr /\ 0 \in 0 .. MaxRecvWr
      /\ 0 \in 0 .. MaxPostRecv /\ st \in States /\ "RESET" \in States
  BY Bounds DEF States
<1>8. /\ <<>> \in Seq(Swqes) /\ <<>> \in Seq(0 .. MaxEpoch)
      /\ <<>> \in Seq(Opcodes) /\ <<>> \in Seq(1 .. MaxPost)
  OBVIOUS
<1>9. n \in QpType
  BY <1>2, <1>5, <1>6, <1>7, <1>8 DEF QpType
<1>10. /\ n.type = type /\ n.free = f /\ n.sending = <<>> /\ n.waiting = <<>>
       /\ n.submitted = <<>> /\ n.rfree = MaxRecvWr /\ n.nr_recv = 0
       /\ n.cq = <<>> /\ n.posted = <<>> /\ n.done = <<>>
  BY <1>6
<1>11. r \in QpType
  BY <1>7, <1>9 DEF QpType
<1>12. /\ r.type = type /\ r.state = st /\ r.free = f /\ Idle(r)
       /\ r.submitted = <<>> /\ r.rfree = MaxRecvWr /\ r.nr_recv = 0
       /\ r.cq = <<>> /\ r.posted = <<>> /\ r.done = <<>>
  BY <1>9, <1>10 DEF QpType, Idle
<1> HIDE DEF r
<1>13. Len(<<>>) = 0 /\ <<>> \in Seq(1 .. Len(<<>>))
  OBVIOUS
<1>14. Left(r) = <<>>
  BY <1>8, <1>12, ThreeListsType DEF Left, Idle
<1>15. Sound(r)
  <2>1. Len(r.posted) <= MaxPost
    BY <1>12, <1>13, Bounds
  <2>2. r.rfree + r.nr_recv = MaxRecvWr
    BY <1>12, Bounds
  <2>3. WrsOK(r)
    BY <1>13, <1>14 DEF WrsOK
  <2>4. \A k \in 1 .. Len(r.cq) : r.cq[k] = r.life
    BY <1>12, <1>13
  <2> QED BY <1>11, <1>12, <1>13, <2>1, <2>2, <2>3, <2>4 DEF Sound
<1>16. r.free \o Left(r) = r.free /\ r.done \o OpenWrs(r) = r.done
  BY <1>12, <1>15, NothingLeft
<1>17. Posted(r, <<>>)
  BY <1>12, <1>13 DEF Posted
<1>18. StateOK(r)
  BY <1>12 DEF StateOK
<1> QED
  BY <1>3, <1>12, <1>15, <1>16, <1>17, <1>18 DEF QueueOK, r, n

(* sq_draining: nothing else depends on it.                                *)
LEMMA SetDrainedOK ==
  ASSUME NEW q, QueueOK(q), NEW b \in BOOLEAN
  PROVE  LET r == [q EXCEPT !.drained = b]
         IN  /\ QueueOK(r) /\ r.drained = b /\ r.type = q.type
             /\ r.state = q.state /\ r.swqe = q.swqe /\ r.cq = q.cq
             /\ r.waiting = q.waiting /\ r.sending = q.sending
             /\ r.submitted = q.submitted /\ r.nr_recv = q.nr_recv
<1> DEFINE r == [q EXCEPT !.drained = b]
<1>1. q \in QpType
  BY DEF QueueOK, Sound
<1>2. r \in QpType
  BY <1>1 DEF QpType
<1>3. /\ r.drained = b /\ r.type = q.type
      /\ r.state = q.state /\ r.swqe = q.swqe /\ r.cq = q.cq
      /\ r.waiting = q.waiting /\ r.sending = q.sending
      /\ r.submitted = q.submitted /\ r.nr_recv = q.nr_recv
      /\ r.free = q.free /\ r.done = q.done /\ r.posted = q.posted
      /\ r.life = q.life /\ r.rfree = q.rfree
  BY <1>1 DEF QpType
<1> HIDE DEF r
<1>4. Left(r) = Left(q)
  BY <1>3 DEF Left
<1>5. QueueOK(r)
  BY <1>2, <1>3, <1>4, MovedOK
<1> QED BY <1>3, <1>5 DEF r

(* A change of the lists that moves no WQE past another, and of what is    *)
(* known about the sending of one WQE.                                     *)
Moved(q, w, s, u, sw) ==
  [q EXCEPT !.waiting = w, !.sending = s, !.submitted = u, !.swqe = sw]

KeepsOrder(q, w, s, u) ==
  /\ w \in Seq(Swqes) /\ s \in Seq(Swqes) /\ u \in Seq(Swqes)
  /\ w \o s \o u = Left(q)

KeepsWrs(q, sw) ==
  /\ sw \in [Swqes -> SwqeType]
  /\ \A i \in Swqes : sw[i].wr = q.swqe[i].wr /\ sw[i].op = q.swqe[i].op

LEMMA ListsMovedOK ==
  ASSUME NEW q, QueueOK(q), NEW w, NEW s, NEW u, NEW sw,
         KeepsOrder(q, w, s, u), KeepsWrs(q, sw)
  PROVE  LET r == Moved(q, w, s, u, sw)
         IN  /\ QueueOK(r) /\ r.type = q.type /\ r.state = q.state
             /\ r.waiting = w /\ r.sending = s /\ r.submitted = u
             /\ r.swqe = sw /\ r.drained = q.drained
             /\ r.nr_recv = q.nr_recv
<1> DEFINE r == Moved(q, w, s, u, sw)
<1>1. q \in QpType
  BY DEF QueueOK, Sound
<1>2. r \in QpType
  BY <1>1 DEF QpType, Moved, KeepsOrder, KeepsWrs
<1>3. /\ r.type = q.type /\ r.state = q.state /\ r.cq = q.cq
      /\ r.waiting = w /\ r.sending = s /\ r.submitted = u /\ r.swqe = sw
      /\ r.nr_recv = q.nr_recv /\ r.drained = q.drained
      /\ r.free = q.free /\ r.done = q.done /\ r.posted = q.posted
      /\ r.life = q.life /\ r.rfree = q.rfree
  BY <1>1 DEF QpType, Moved
<1> HIDE DEF r
<1>4. Left(r) = Left(q)
  BY <1>3 DEF Left, KeepsOrder
<1>5. QueueOK(r)
  BY <1>2, <1>3, <1>4, MovedOK DEF KeepsWrs
<1> QED BY <1>3, <1>5 DEF r

(* Resend: waiting goes in front of sending.                               *)
LEMMA ResendOK ==
  ASSUME NEW q, QueueOK(q)
  PROVE  LET r == Resend(q)
         IN  /\ QueueOK(r) /\ r.type = q.type /\ r.state = q.state
             /\ r.waiting = <<>> /\ r.sending = q.waiting \o q.sending
             /\ r.submitted = q.submitted /\ r.swqe = q.swqe
             /\ r.drained = q.drained /\ r.nr_recv = q.nr_recv
             /\ (r.sending = <<>> <=> Idle(q))
<1> DEFINE w == q.waiting
           s == q.sending
           u == q.submitted
           sw == q.swqe
           r == Resend(q)
<1>1. q \in QpType
  BY DEF QueueOK, Sound
<1>2. /\ w \in Seq(Swqes) /\ s \in Seq(Swqes) /\ u \in Seq(Swqes)
      /\ sw \in [Swqes -> SwqeType] /\ <<>> \in Seq(Swqes)
  BY <1>1, Fields
<1>3. r = Moved(q, <<>>, w \o s, u, sw)
  BY <1>1 DEF Resend, QpType, Moved
<1>4. Left(q) = w \o s \o u /\ (Idle(q) <=> w = <<>> /\ s = <<>>)
  BY DEF Left, Idle
<1> HIDE DEF w, s, u
<1>5. w \o s \in Seq(Swqes) /\ (w \o s = <<>> <=> w = <<>> /\ s = <<>>)
  BY <1>2, ConcatProperties, ConcatEqualIffEmpty
<1>6. <<>> \o (w \o s) \o u = Left(q)
  BY <1>2, <1>4, ThreeListsMove
<1> DEFINE x == w \o s
           e == <<>>
<1>7. r = Moved(q, e, x, u, sw)
  BY <1>3
<1>8. KeepsOrder(q, e, x, u)
  BY <1>2, <1>5, <1>6 DEF KeepsOrder
<1>9. KeepsWrs(q, sw)
  BY <1>2 DEF KeepsWrs
<1> HIDE DEF r, x, sw, e
<1>10. /\ QueueOK(r) /\ r.type = q.type /\ r.state = q.state
       /\ r.waiting = e /\ r.sending = x /\ r.submitted = u
       /\ r.swqe = sw /\ r.drained = q.drained
       /\ r.nr_recv = q.nr_recv
  BY <1>7, <1>8, <1>9, ListsMovedOK
<1> QED BY <1>4, <1>5, <1>10 DEF w, s, u, x, sw, e, r

(* A queue pair with requests in flight is a connected one that works.     *)
LEMMA BusyState ==
  ASSUME NEW q, Sound(q), StateOK(q), ~Idle(q)
  PROVE  q.type = "RC" /\ q.state \in {"INIT", "RTR", "RTS", "SQD"}
<1>1. q.type \in {"RC", "UD"} /\ q.state \in States
  BY Fields DEF Sound
<1> QED BY <1>1 DEF StateOK, States

LEMMA ResendState ==
  ASSUME NEW q, QueueOK(q), StateOK(q), ~Idle(q)
  PROVE  LET r == Resend(q)
         IN  QueueOK(r) /\ StateOK(r) /\ r.state = q.state
<1> DEFINE r == Resend(q)
<1>1. /\ QueueOK(r) /\ r.type = q.type /\ r.state = q.state
      /\ r.sending # <<>>
  BY ResendOK
<1>2. q.type = "RC" /\ q.state \in {"INIT", "RTR", "RTS", "SQD"}
  BY BusyState DEF QueueOK
<1> HIDE DEF r
<1>3. StateOK(r)
  BY <1>1, <1>2 DEF StateOK, Idle
<1> QED BY <1>1, <1>3 DEF r

(* process_new_send_wr starts the first submitted WQE, in RTS only.        *)
LEMMA StartOK ==
  ASSUME NEW q, QueueOK(q), q.sending = <<>>
  PROVE  LET r == process_new_send_wr(q)
         IN  /\ QueueOK(r) /\ r.type = q.type /\ r.state = q.state
             /\ r.waiting = q.waiting /\ r.swqe = q.swqe
             /\ r.drained = q.drained /\ r.nr_recv = q.nr_recv
             /\ r.sending = <<>> => r = q
             /\ r.sending # <<>> => q.state = "RTS" /\ Tail(r.sending) = <<>>
<1>1. CASE ~(q.state = "RTS" /\ q.submitted # <<>>)
  BY <1>1 DEF process_new_send_wr
<1>2. CASE q.state = "RTS" /\ q.submitted # <<>>
  <2> DEFINE w == q.waiting
             s == q.sending
             u == q.submitted
             sw == q.swqe
             x == <<Head(u)>>
             t == Tail(u)
             r == process_new_send_wr(q)
  <2>1. q \in QpType
    BY DEF QueueOK, Sound
  <2>2. /\ w \in Seq(Swqes) /\ s \in Seq(Swqes) /\ u \in Seq(Swqes)
        /\ sw \in [Swqes -> SwqeType]
    BY <2>1, Fields
  <2>3. r = Moved(q, w, x, t, sw)
    BY <1>2, <2>1 DEF process_new_send_wr, QpType, Moved
  <2>4. Left(q) = w \o s \o u /\ s = <<>> /\ u # <<>>
    BY <1>2 DEF Left
  <2> HIDE DEF w, s, u
  <2>5. w \o x \o t = Left(q)
    BY <2>2, <2>4, ThreeListsMove
  <2>6. /\ Head(u) \in Swqes /\ t \in Seq(Swqes)
    BY <2>2, <2>4, HeadAndTail
  <2>7. x \in Seq(Swqes) /\ x # <<>> /\ Tail(x) = <<>>
    BY <2>6
  <2>8. KeepsOrder(q, w, x, t)
    BY <2>2, <2>5, <2>6, <2>7 DEF KeepsOrder
  <2>9. KeepsWrs(q, sw)
    BY <2>2 DEF KeepsWrs
  <2> HIDE DEF r, x, t, sw
  <2>10. /\ QueueOK(r) /\ r.type = q.type /\ r.state = q.state
         /\ r.waiting = w /\ r.sending = x /\ r.submitted = t
         /\ r.swqe = sw /\ r.drained = q.drained
         /\ r.nr_recv = q.nr_recv
    BY <2>3, <2>8, <2>9, ListsMovedOK
  <2> QED BY <1>2, <2>7, <2>10 DEF w, sw, r
<1> QED BY <1>1, <1>2

(* pib_process_rc_qp_request: the last packet of the first sending WQE     *)
(* left, or an error was found in it.                                      *)
LEMMA RcSentOK ==
  ASSUME NEW q, QueueOK(q), q.sending # <<>>
  PROVE  LET i == Head(q.sending)
             r == [q EXCEPT !.sending = Tail(@), !.waiting = Append(@, i),
                            !.swqe[i].sent = TRUE]
         IN  /\ QueueOK(r) /\ r.type = q.type /\ r.state = q.state
             /\ r.waiting = Append(q.waiting, i) /\ r.sending = Tail(q.sending)
             /\ r.waiting # <<>>
<1> DEFINE w == q.waiting
           s == q.sending
           u == q.submitted
           i == Head(s)
           sw == [q.swqe EXCEPT ![i].sent = TRUE]
           x == Append(w, i)
           t == Tail(s)
           r == [q EXCEPT !.sending = Tail(@), !.waiting = Append(@, i),
                          !.swqe[i].sent = TRUE]
<1>1. q \in QpType
  BY DEF QueueOK, Sound
<1>2. /\ w \in Seq(Swqes) /\ s \in Seq(Swqes) /\ u \in Seq(Swqes)
      /\ q.swqe \in [Swqes -> SwqeType] /\ s # <<>>
  BY <1>1, Fields
<1>3. r = Moved(q, x, t, u, sw)
  BY <1>1 DEF QpType, Moved
<1>4. Left(q) = w \o s \o u
  BY DEF Left
<1> HIDE DEF w, s, u, r
<1>5. x \o t \o u = Left(q)
  BY <1>2, <1>4, ThreeListsMove
<1>6. i \in Swqes /\ t \in Seq(Swqes)
  BY <1>2, HeadAndTail
<1>7. x \in Seq(Swqes) /\ x # <<>>
  <2> HIDE DEF i
  <2>1. x \in Seq(Swqes) /\ x[Len(w) + 1] = i /\ Len(x) = Len(w) + 1
    BY <1>2, <1>6, AppendProperties
  <2>2. Len(w) \in Nat /\ Len(<<>>) = 0
    BY <1>2
  <2> QED BY <2>1, <2>2
<1>8. KeepsOrder(q, x, t, u)
  BY <1>2, <1>5, <1>6, <1>7 DEF KeepsOrder
<1>9. KeepsWrs(q, sw)
  BY <1>2, <1>6 DEF KeepsWrs, SwqeType
<1> HIDE DEF x, t, sw, i
<1>10. /\ QueueOK(r) /\ r.type = q.type /\ r.state = q.state
       /\ r.waiting = x /\ r.sending = t
  BY <1>3, <1>8, <1>9, ListsMovedOK
<1> QED BY <1>7, <1>10 DEF w, s, x, t, i, r

LEMMA RcStatusOK ==
  ASSUME NEW q, QueueOK(q), q.sending # <<>>
  PROVE  LET r == [q EXCEPT !.swqe[Head(q.sending)].status = "ERR"]
         IN  /\ QueueOK(r) /\ r.type = q.type /\ r.state = q.state
             /\ r.waiting = q.waiting /\ r.sending = q.sending
<1> DEFINE w == q.waiting
           s == q.sending
           u == q.submitted
           i == Head(s)
           sw == [q.swqe EXCEPT ![i].status = "ERR"]
           r == [q EXCEPT !.swqe[Head(q.sending)].status = "ERR"]
<1>1. q \in QpType
  BY DEF QueueOK, Sound
<1>2. /\ w \in Seq(Swqes) /\ s \in Seq(Swqes) /\ u \in Seq(Swqes)
      /\ q.swqe \in [Swqes -> SwqeType] /\ s # <<>>
  BY <1>1, Fields
<1>3. r = Moved(q, w, s, u, sw)
  BY <1>1 DEF QpType, Moved
<1>4. Left(q) = w \o s \o u
  BY DEF Left
<1> HIDE DEF w, s, u, r
<1>5. i \in Swqes
  BY <1>2, HeadAndTail
<1>6. KeepsOrder(q, w, s, u)
  BY <1>2, <1>4 DEF KeepsOrder
<1>7. KeepsWrs(q, sw)
  BY <1>2, <1>5 DEF KeepsWrs, SwqeType
<1> HIDE DEF sw, i
<1>8. /\ QueueOK(r) /\ r.type = q.type /\ r.state = q.state
      /\ r.waiting = w /\ r.sending = s
  BY <1>3, <1>6, <1>7, ListsMovedOK
<1> QED BY <1>8 DEF w, s, r

(* The first sending WQE leaves with an error and takes the queue pair     *)
(* with it.  Nothing waits in front of it.                                 *)
LEMMA CompletionErrorOK ==
  ASSUME NEW q, QueueOK(q), q.sending # <<>>, q.waiting = <<>>
  PROVE  LET r == CompletionError(q)
         IN  QueueOK(r) /\ StateOK(r) /\ r.state \in {"ERR", "SQE"}
<1> DEFINE i == Head(q.waiting \o q.sending)
           a == insert_send_wc(q, q.swqe[i].wr)
           p == DropFirst(a)
           f == FailQP(p)
           r == pib_util_free_send_wqe(f, i)
<1>1. /\ ~Idle(q) /\ Sound(q) /\ q \in QpType
  BY SMTT(60) DEF Idle, QueueOK, Sound
<1>2. /\ Sound(p) /\ Keeps(q, p) /\ p.free = q.free
      /\ Left(q) # <<>> /\ Left(p) = Tail(Left(q))
      /\ i = Head(Left(q)) /\ Posted(p, p.done \o OpenWrs(p))
  BY <1>1, CompleteFirst
<1>3. i = Head(q.sending)
  <2> DEFINE s == q.sending
  <2>1. s \in Seq(Swqes)
    BY <1>1, Fields
  <2>2. i = Head(<<>> \o s)
    OBVIOUS
  <2> HIDE DEF s, i
  <2>3. <<>> \o s = s
    BY <2>1, ConcatEmptySeq
  <2> QED BY <2>2, <2>3 DEF s
<1>4. CompletionError(q) = r
  <2>1. a.waiting = <<>>
    BY DEF insert_send_wc, insert_wc
  <2>2. p = [a EXCEPT !.sending = Tail(@)]
    BY <2>1 DEF DropFirst
  <2> QED BY <1>3, <2>2 DEF CompletionError
<1> HIDE DEF i, p
<1>5. /\ Sound(f) /\ Keeps(p, f)
      /\ f.state \in {"ERR", "SQE"} /\ (p.type = "RC" => f.state = "ERR")
      /\ Idle(f) /\ f.submitted = <<>>
      /\ f.state = "ERR" => f.nr_recv = 0
      /\ f.free = p.free \o Left(p)
      /\ f.done = p.done \o OpenWrs(p)
  BY <1>2, FailQPSound
<1>6. f.posted = p.posted /\ f.type = p.type
  BY <1>5 DEF Keeps
<1> HIDE DEF f
<1>7. /\ QueueOK(r) /\ Idle(r) /\ r.submitted = <<>>
      /\ r.type = f.type /\ r.state = f.state /\ r.nr_recv = f.nr_recv
  <2>1. FirstDone(q, p, i)
    BY <1>2 DEF FirstDone
  <2>2. AllFlushed(p, f)
    BY <1>5, <1>6 DEF AllFlushed
  <2> QED BY <2>1, <2>2, FailedOK
<1> HIDE DEF r
<1>8. StateOK(r)
  BY <1>5, <1>6, <1>7, StoppedOK
<1> QED BY <1>4, <1>5, <1>7, <1>8

(* The first sending WQE is sent and complete.                             *)
LEMMA UdSentOK ==
  ASSUME NEW q, QueueOK(q), q.sending # <<>>, q.waiting = <<>>
  PROVE  LET i == Head(q.sending)
             r == pib_util_free_send_wqe(
                    [insert_send_wc(q, q.swqe[i].wr) EXCEPT !.sending = Tail(@)],
                    i)
         IN  /\ QueueOK(r) /\ r.type = q.type /\ r.state = q.state
             /\ r.waiting = <<>> /\ r.sending = Tail(q.sending)
             /\ r.swqe = q.swqe /\ r.drained = q.drained
<1> DEFINE i == Head(q.waiting \o q.sending)
           a == insert_send_wc(q, q.swqe[i].wr)
           p == DropFirst(a)
           r == pib_util_free_send_wqe(p, i)
<1>1. /\ ~Idle(q) /\ Sound(q) /\ q \in QpType
  BY DEF Idle, QueueOK, Sound
<1>2. /\ Sound(p) /\ Keeps(q, p) /\ p.free = q.free /\ p.state = q.state
      /\ Left(q) # <<>> /\ Left(p) = Tail(Left(q))
      /\ i \in Swqes /\ i = Head(Left(q)) /\ Posted(p, p.done \o OpenWrs(p))
  BY <1>1, CompleteFirst
<1>3. i = Head(q.sending)
  <2> DEFINE s == q.sending
  <2>1. s \in Seq(Swqes)
    BY <1>1, Fields
  <2>2. i = Head(<<>> \o s)
    OBVIOUS
  <2> HIDE DEF s, i
  <2>3. <<>> \o s = s
    BY <2>1, ConcatEmptySeq
  <2> QED BY <2>2, <2>3 DEF s
<1>4. p = [a EXCEPT !.sending = Tail(@)]
  <2>1. a.waiting = <<>>
    BY DEF insert_send_wc, insert_wc
  <2> QED BY <2>1 DEF DropFirst
<1>5. p.waiting = <<>> /\ p.sending = Tail(q.sending) /\ p.drained = q.drained
  <2>1. /\ a.sending = q.sending /\ a.waiting = <<>> /\ a.drained = q.drained
        /\ "sending" \in DOMAIN a
    BY <1>1 DEF insert_send_wc, insert_wc, QpType
  <2> HIDE DEF a
  <2> QED BY <1>4, <2>1
<1> HIDE DEF p
<1>6. QueueOK(r)
  BY <1>2, FreedOK
<1>7. /\ r.type = p.type /\ r.state = p.state /\ r.waiting = p.waiting
      /\ r.sending = p.sending /\ r.swqe = p.swqe /\ r.drained = p.drained
  BY <1>2 DEF pib_util_free_send_wqe, Sound, QpType
<1> QED BY <1>2, <1>3, <1>4, <1>5, <1>6, <1>7, ZenonT(30) DEF Keeps

-----------------------------------------------------------------------------
(* What a step starts: the WQEs that are sending or waiting after it and   *)
(* were not before.                                                        *)
StartsNothing(q, r) ==
  Range(r.sending \o r.waiting) \subseteq Range(q.sending \o q.waiting)

LEMMA SameStarted ==
  ASSUME NEW q, NEW r, r.sending = q.sending, r.waiting = q.waiting
  PROVE  StartsNothing(q, r)
BY DEF StartsNothing

LEMMA FirstDropped ==
  ASSUME NEW q \in QpType, NEW r,
         \/ /\ q.waiting # <<>> /\ r.waiting = Tail(q.waiting)
            /\ r.sending = q.sending
         \/ /\ q.sending # <<>> /\ r.sending = Tail(q.sending)
            /\ r.waiting = q.waiting
  PROVE  StartsNothing(q, r)
<1> DEFINE w == q.waiting
           s == q.sending
<1>1. w \in Seq(Swqes) /\ s \in Seq(Swqes)
  BY Fields
<1>2. CASE w # <<>> /\ r.waiting = Tail(w) /\ r.sending = s
  <2> HIDE DEF w, s
  <2> DEFINE t == Tail(w)
  <2>1. t \in Seq(Swqes) /\ Range(t) \subseteq Range(w)
    BY <1>1, <1>2, RangeOfTail, HeadAndTail
  <2> HIDE DEF t
  <2>2. Range(s \o t) = Range(s) \cup Range(t)
    BY <1>1, <2>1, RangeConcatenation
  <2>3. Range(s \o w) = Range(s) \cup Range(w)
    BY <1>1, RangeConcatenation
  <2> QED BY <1>2, <2>1, <2>2, <2>3 DEF StartsNothing, w, s, t
<1>3. CASE s # <<>> /\ r.sending = Tail(s) /\ r.waiting = w
  <2> HIDE DEF w, s
  <2> DEFINE t == Tail(s)
  <2>1. t \in Seq(Swqes) /\ Range(t) \subseteq Range(s)
    BY <1>1, <1>3, RangeOfTail, HeadAndTail
  <2> HIDE DEF t
  <2>2. Range(t \o w) = Range(t) \cup Range(w)
    BY <1>1, <2>1, RangeConcatenation
  <2>3. Range(s \o w) = Range(s) \cup Range(w)
    BY <1>1, RangeConcatenation
  <2> QED BY <1>3, <2>1, <2>2, <2>3 DEF StartsNothing, w, s, t
<1> QED BY <1>2, <1>3

LEMMA FirstMoved ==
  ASSUME NEW q \in QpType, NEW r, q.sending # <<>>,
         r.waiting = Append(q.waiting, Head(q.sending)),
         r.sending = Tail(q.sending)
  PROVE  StartsNothing(q, r)
<1> DEFINE w == q.waiting
           s == q.sending
           i == Head(s)
           t == Tail(s)
           x == Append(w, i)
<1>1. w \in Seq(Swqes) /\ s \in Seq(Swqes) /\ s # <<>>
  BY Fields
<1>2. r.sending = t /\ r.waiting = x
  OBVIOUS
<1> HIDE DEF w, s
<1>3. i \in Swqes /\ t \in Seq(Swqes)
  BY <1>1, HeadAndTail
<1>4. i \in Range(s) /\ Range(t) \subseteq Range(s)
  BY <1>1, RangeOfTail
<1> HIDE DEF i, t
<1>5. x \in Seq(Swqes) /\ Range(x) = Range(w) \cup {i}
  BY <1>1, <1>3, AppendProperties, RangeOfAppend
<1> HIDE DEF x
<1>6. Range(t \o x) = Range(t) \cup Range(x)
  BY <1>3, <1>5, RangeConcatenation
<1>7. Range(s \o w) = Range(s) \cup Range(w)
  BY <1>1, RangeConcatenation
<1> QED BY <1>2, <1>4, <1>5, <1>6, <1>7 DEF StartsNothing, w, s

LEMMA ResendStarts ==
  ASSUME NEW q, QueueOK(q)
  PROVE  StartsNothing(q, Resend(q))
<1> DEFINE w == q.waiting
           s == q.sending
           e == <<>>
           x == w \o s
           r == Resend(q)
<1>1. r.waiting = e /\ r.sending = x
  BY ResendOK
<1>2. w \in Seq(Swqes) /\ s \in Seq(Swqes) /\ e \in Seq(Swqes)
  BY Fields DEF QueueOK, Sound
<1>3. Range(e) = {}
  BY DEF Range
<1> HIDE DEF w, s, e, r
<1>4. Range(x) = Range(w) \cup Range(s) /\ x \in Seq(Swqes)
  BY <1>2, RangeConcatenation, ConcatProperties
<1>5. Range(s \o w) = Range(s) \cup Range(w)
  BY <1>2, RangeConcatenation
<1> HIDE DEF x
<1>6. Range(x \o e) = Range(x) \cup Range(e)
  BY <1>2, <1>4, RangeConcatenation
<1> QED BY <1>1, <1>3, <1>4, <1>5, <1>6 DEF StartsNothing, w, s, r

-----------------------------------------------------------------------------
(* process_send_wr for a queue pair whose first sending WQE is to go on.   *)
LEMMA SendOK ==
  ASSUME NEW q, QueueOK(q), q.state \in {"RTS", "SQD"}, q.sending # <<>>,
         q.type = "UD" => q.waiting = <<>> /\ Tail(q.sending) = <<>>
                          /\ q.state = "RTS",
         NEW r \in process_send_wr(q)
  PROVE  /\ QueueOK(r) /\ StateOK(r)
         /\ r.state = "SQD" => q.state = "SQD" /\ StartsNothing(q, r)
<1> DEFINE i == Head(q.sending)
<1>1. q \in QpType /\ q.type \in {"RC", "UD"}
  BY Fields DEF QueueOK, Sound
<1>2. CASE r = CompletionError(q) /\ q.waiting = <<>>
  BY <1>2, CompletionErrorOK
<1>3. CASE r = q /\ q.type = "RC"
  <2>1. ~Idle(q)
    BY DEF Idle
  <2> QED BY <1>3, <2>1, SameStarted DEF StateOK
<1>4. CASE /\ q.type = "RC"
           /\ r = [q EXCEPT !.sending = Tail(@), !.waiting = Append(@, i),
                            !.swqe[i].sent = TRUE]
  <2>1. /\ QueueOK(r) /\ r.type = "RC" /\ r.state = q.state
        /\ r.waiting = Append(q.waiting, i) /\ r.sending = Tail(q.sending)
        /\ r.waiting # <<>>
    BY <1>4, RcSentOK
  <2>2. StartsNothing(q, r)
    BY <1>1, <2>1, FirstMoved
  <2>3. StateOK(r)
    BY <2>1 DEF StateOK, Idle
  <2> QED BY <2>1, <2>2, <2>3
<1>5. CASE q.type = "RC" /\ r = [q EXCEPT !.swqe[i].status = "ERR"]
  <2>1. /\ QueueOK(r) /\ r.type = "RC" /\ r.state = q.state
        /\ r.waiting = q.waiting /\ r.sending = q.sending
    BY <1>5, RcStatusOK
  <2>2. StartsNothing(q, r)
    BY <2>1, SameStarted
  <2>3. StateOK(r)
    BY <2>1 DEF StateOK, Idle
  <2> QED BY <2>1, <2>2, <2>3
<1>6. CASE /\ q.type = "UD"
           /\ r = pib_util_free_send_wqe(
                    [insert_send_wc(q, q.swqe[i].wr) EXCEPT !.sending = Tail(@)],
                    i)
  <2>1. /\ QueueOK(r) /\ r.type = "UD" /\ r.state = "RTS"
        /\ r.waiting = <<>> /\ r.sending = <<>>
    BY <1>6, UdSentOK
  <2>2. StateOK(r)
    BY <2>1 DEF StateOK, Idle
  <2> QED BY <2>1, <2>2, ZenonT(30)
<1>7. CASE q.swqe[i].status # "SUCCESS"
  <2>1. CASE q.waiting # <<>>
    <3>1. r = q /\ q.type = "RC"
      BY <1>1, <1>7, <2>1 DEF process_send_wr
    <3> QED BY <1>3, <3>1
  <2>2. CASE q.waiting = <<>>
    <3>1. r = CompletionError(q)
      BY <1>7, <2>2 DEF process_send_wr
    <3> QED BY <1>2, <2>2, <3>1
  <2> QED BY <2>1, <2>2
<1>8. CASE q.swqe[i].status = "SUCCESS" /\ q.type = "RC"
  <2>1. r \in RcRequest(q)
    BY <1>8 DEF process_send_wr
  <2>2. \/ r = q
        \/ r = [q EXCEPT !.sending = Tail(@), !.waiting = Append(@, i),
                         !.swqe[i].sent = TRUE]
        \/ r = [q EXCEPT !.swqe[i].status = "ERR"]
    BY <2>1, Zenon DEF RcRequest
  <2> QED BY <1>3, <1>4, <1>5, <1>8, <2>2
<1>9. CASE q.swqe[i].status = "SUCCESS" /\ q.type = "UD"
  <2>1. r \in UdRequest(q)
    BY <1>9 DEF process_send_wr
  <2>2. \/ r = CompletionError(q)
        \/ r = pib_util_free_send_wqe(
                 [insert_send_wc(q, q.swqe[i].wr) EXCEPT !.sending = Tail(@)], i)
    BY <2>1, Zenon DEF UdRequest
  <2> QED BY <1>2, <1>6, <1>9, <2>2
<1> QED BY <1>1, <1>7, <1>8, <1>9

(* One pass over the send queue.                                           *)
LEMMA FirstSendingOK ==
  ASSUME NEW q, QueueOK(q), StateOK(q), q.state \in {"RTS", "SQD"},
         NEW r \in FirstSending(q)
  PROVE  /\ QueueOK(r) /\ StateOK(r)
         /\ r.state = "SQD" => q.state = "SQD" /\ StartsNothing(q, r)
<1> DEFINE p == IF q.sending = <<>> THEN process_new_send_wr(q) ELSE q
<1>1. r \in IF p.sending = <<>> THEN {p} ELSE process_send_wr(p)
  BY DEF FirstSending
<1>2. q.type \in {"RC", "UD"}
  BY Fields DEF QueueOK, Sound
<1>3. CASE q.sending = <<>>
  <2>1. p = process_new_send_wr(q)
    BY <1>3
  <2>2. /\ QueueOK(p) /\ p.type = q.type /\ p.state = q.state
        /\ p.waiting = q.waiting
        /\ p.sending = <<>> => p = q
        /\ p.sending # <<>> => q.state = "RTS" /\ Tail(p.sending) = <<>>
    BY <1>3, <2>1, StartOK
  <2> HIDE DEF p
  <2>3. CASE p.sending = <<>>
    <3>1. r = q
      BY <1>1, <2>2, <2>3
    <3> QED BY <3>1, SameStarted
  <2>4. CASE p.sending # <<>>
    <3>1. q.type = "UD" => p.waiting = <<>>
      BY <2>2 DEF StateOK, Idle
    <3>2. r \in process_send_wr(p) /\ p.state = "RTS"
      BY <1>1, <2>2, <2>4
    <3>3. /\ QueueOK(r) /\ StateOK(r)
          /\ r.state = "SQD" => p.state = "SQD" /\ StartsNothing(p, r)
      BY <2>2, <2>4, <3>1, <3>2, SendOK
    <3> QED BY <3>2, <3>3
  <2> QED BY <2>3, <2>4
<1>4. CASE q.sending # <<>>
  <2>1. p = q
    BY <1>4
  <2> HIDE DEF p
  <2>2. r \in process_send_wr(q) /\ q.type # "UD"
    BY <1>1, <1>4, <2>1 DEF StateOK, Idle
  <2> QED BY <1>4, <2>2, SendOK
<1> QED BY <1>3, <1>4

(* SchedulerPass.                                                          *)
LEMMA SchedulerPassOK ==
  ASSUME NEW q, QueueOK(q), StateOK(q), q.state \in {"RTS", "SQD"},
         NEW r, r \in FirstSending(q) \cup
                  (IF q.waiting # <<>> THEN FirstSending(Resend(q)) ELSE {})
  PROVE  /\ QueueOK(r) /\ StateOK(r)
         /\ q.state = "SQD" /\ r.state = "SQD" => StartsNothing(q, r)
<1>1. CASE r \in FirstSending(q)
  BY <1>1, FirstSendingOK
<1>2. CASE q.waiting # <<>> /\ r \in FirstSending(Resend(q))
  <2> DEFINE p == Resend(q)
  <2>1. ~Idle(q)
    BY <1>2 DEF Idle
  <2>2. QueueOK(p) /\ StateOK(p) /\ p.state = q.state
    BY <2>1, ResendState
  <2>3. StartsNothing(q, p)
    BY ResendStarts
  <2> HIDE DEF p
  <2>4. /\ QueueOK(r) /\ StateOK(r)
        /\ r.state = "SQD" => p.state = "SQD" /\ StartsNothing(p, r)
    BY <1>2, <2>2, FirstSendingOK DEF p
  <2> QED BY <2>3, <2>4 DEF StartsNothing
<1> QED BY <1>1, <1>2

(* LocalOnlyPass.  Its WQE keeps the mark that makes it local.             *)
LEMMA LocalOnlyOK ==
  ASSUME NEW q, QueueOK(q), StateOK(q), q.state \in {"RTS", "SQD"},
         LocalAtHead(q), q.swqe[Head(q.waiting)].op = "LOCAL_INV",
         NEW r \in {LocalSucceeds(q), LocalFails(q)}
  PROVE  /\ QueueOK(r) /\ StateOK(r)
         /\ q.state = "SQD" /\ r.state = "SQD" => StartsNothing(q, r)
<1>1. q.waiting # <<>> /\ q.swqe[Head(q.waiting)].local /\ ~Idle(q)
  BY DEF LocalAtHead, Idle
<1>2. q \in QpType /\ q.waiting \in Seq(Swqes)
  BY Fields DEF QueueOK, Sound
<1>3. q.type = "RC"
  BY <1>1, BusyState DEF QueueOK
<1>4. CASE r = LocalSucceeds(q)
  <2>1. QueueOK(r) /\ r.state = q.state /\ r.type = q.type /\ r.swqe = q.swqe
    BY <1>1, <1>4, LocalSucceedsOK
  <2>2. r.waiting = Tail(q.waiting) /\ r.sending = q.sending
    BY <1>2, <1>4 DEF LocalSucceeds, pib_util_free_send_wqe, QpType
  <2>3. StartsNothing(q, r)
    BY <1>1, <1>2, <2>2, FirstDropped
  <2>4. Head(q.waiting) \in Swqes
    BY <1>1, <1>2, HeadAndTail
  <2>5. r.swqe[Head(q.waiting)].local
    BY <1>1, <2>1
  <2>6. StateOK(r)
    BY <1>3, <2>1, <2>4, <2>5 DEF StateOK
  <2> QED BY <2>1, <2>3, <2>6
<1>5. CASE r = LocalFails(q)
  <2>1. /\ QueueOK(r) /\ r.state = "ERR" /\ r.type = q.type
        /\ Idle(r) /\ r.submitted = <<>> /\ r.nr_recv = 0
    BY <1>1, <1>5, LocalFailsOK
  <2>2. StateOK(r)
    BY <2>1, StoppedOK
  <2> QED BY <2>1, <2>2
<1> QED BY <1>4, <1>5

(* ToError from any state: whatever fails the queue pair flushes it.       *)
LEMMA ToErrorOK ==
  ASSUME NEW q, QueueOK(q)
  PROVE  LET r == ToError(q)
         IN  /\ QueueOK(r) /\ StateOK(r) /\ r.state = "ERR" /\ Idle(r)
             /\ r.submitted = <<>> /\ r.nr_recv = 0 /\ r.type = q.type
<1> DEFINE r == ToError(q)
<1>1. Sound(q)
  BY DEF QueueOK
<1>2. /\ Sound(r) /\ Keeps(q, r) /\ r.state = "ERR"
      /\ Idle(r) /\ r.submitted = <<>> /\ r.nr_recv = 0
      /\ r.free = q.free \o Left(q) /\ r.done = q.done \o OpenWrs(q)
  BY <1>1, ToErrorSound
<1>3. r.posted = q.posted /\ r.type = q.type
  BY <1>2 DEF Keeps
<1> HIDE DEF r
<1>4. QueueOK(r)
  BY <1>2, <1>3, FlushedOK
<1>5. StateOK(r)
  BY <1>2, StoppedOK
<1> QED BY <1>2, <1>3, <1>4, <1>5 DEF r

(* The receive queue: what stays of QueueOK is everything about the sends. *)
LEMMA RecvsOK ==
  ASSUME NEW q, NEW r, QueueOK(q), Sound(r), KeepsLists(q, r),
         r.free = q.free, r.done = q.done, r.swqe = q.swqe,
         r.posted = q.posted
  PROVE  QueueOK(r)
<1>1. Left(r) = Left(q)
  BY DEF KeepsLists, Left
<1>2. OpenWrs(r) = OpenWrs(q)
  BY <1>1 DEF OpenWrs
<1>3. Posted(r, r.done \o OpenWrs(r))
  <2>1. Posted(q, q.done \o OpenWrs(q))
    BY DEF QueueOK
  <2> QED BY <1>2, <2>1, PostedSame
<1> QED BY <1>1, <1>3 DEF QueueOK

LEMMA InsertOK ==
  ASSUME NEW q, QueueOK(q)
  PROVE  LET r == insert_wc(q)
         IN  /\ QueueOK(r) /\ Keeps(q, r) /\ KeepsLists(q, r)
             /\ r.state = q.state /\ r.nr_recv = q.nr_recv
<1> DEFINE r == insert_wc(q)
<1>1. /\ Sound(r) /\ Keeps(q, r) /\ KeepsLists(q, r)
      /\ r.state = q.state /\ r.free = q.free /\ r.done = q.done
      /\ r.nr_recv = q.nr_recv
  BY InsertSound DEF QueueOK
<1>2. r.swqe = q.swqe /\ r.posted = q.posted
  BY <1>1 DEF Keeps
<1> HIDE DEF r
<1>3. QueueOK(r)
  BY <1>1, <1>2, RecvsOK
<1> QED BY <1>1, <1>3 DEF r

(* A receive WQE is posted or used: n of them are on the queue.            *)
Received(q, n, f, c) == [q EXCEPT !.nr_recv = n, !.rfree = f, !.precv = c]

LEMMA ReceivedOK ==
  ASSUME NEW q, QueueOK(q), NEW n \in 0 .. MaxRecvWr,
         NEW f \in 0 .. MaxRecvWr, f + n = MaxRecvWr,
         NEW c \in 0 .. MaxPostRecv
  PROVE  LET r == Received(q, n, f, c)
         IN  /\ QueueOK(r) /\ KeepsLists(q, r) /\ r.type = q.type
             /\ r.state = q.state /\ r.swqe = q.swqe
             /\ r.drained = q.drained /\ r.nr_recv = n
<1> DEFINE r == Received(q, n, f, c)
<1>1. Sound(q) /\ q \in QpType
  BY DEF QueueOK, Sound
<1>2. r \in QpType
  BY <1>1 DEF QpType, Received
<1>3. /\ KeepsLists(q, r) /\ r.type = q.type
      /\ r.state = q.state /\ r.swqe = q.swqe
      /\ r.drained = q.drained /\ r.nr_recv = n /\ r.rfree = f
      /\ r.free = q.free /\ r.done = q.done /\ r.posted = q.posted
      /\ r.cq = q.cq /\ r.life = q.life
  BY <1>1 DEF QpType, Received, KeepsLists
<1> HIDE DEF r
<1>4. WrsOK(r)
  <2>1. Left(r) = Left(q)
    BY <1>3 DEF KeepsLists, Left
  <2> QED BY <1>1, <1>3, <2>1 DEF WrsOK, Sound
<1>5. Sound(r)
  BY <1>1, <1>2, <1>3, <1>4 DEF Sound
<1>6. QueueOK(r)
  BY <1>3, <1>5, RecvsOK
<1> QED BY <1>3, <1>6 DEF r

(* What StateOK says about a queue pair that works depends on the sends.   *)
LEMMA WorkingOK ==
  ASSUME NEW q, NEW r, StateOK(q), KeepsLists(q, r), r.type = q.type,
         r.state = q.state, r.swqe = q.swqe, r.drained = q.drained,
         q.state \notin {"NONE", "RESET", "ERR"}
  PROVE  StateOK(r) /\ StartsNothing(q, r)
<1>1. Idle(r) <=> Idle(q)
  BY DEF Idle, KeepsLists
<1>2. StateOK(r)
  BY <1>1 DEF StateOK, KeepsLists
<1> QED BY <1>2, SameStarted DEF KeepsLists

(* pib_post_recv.                                                          *)
LEMMA PostRecvOK ==
  ASSUME NEW q, QueueOK(q), StateOK(q), q.precv < MaxPostRecv, NEW r,
         LET p == [q EXCEPT !.precv = @ + 1]
         IN  \/ /\ q.state = "ERR"
                /\ r = insert_wc(p)
             \/ /\ q.state \in {"INIT", "RTR", "RTS", "SQD", "SQE"}
                /\ q.rfree > 0
                /\ r = [p EXCEPT !.nr_recv = @ + 1, !.rfree = @ - 1]
  PROVE  /\ QueueOK(r) /\ StateOK(r)
         /\ q.state = "SQD" => StartsNothing(q, r)
<1> DEFINE p == [q EXCEPT !.precv = @ + 1]
           n == q.nr_recv
           f == q.rfree
           c == q.precv + 1
<1>1. Sound(q) /\ q \in QpType
  BY DEF QueueOK, Sound
<1>2. /\ n \in 0 .. MaxRecvWr /\ f \in 0 .. MaxRecvWr /\ f + n = MaxRecvWr
      /\ c \in 0 .. MaxPostRecv
  BY <1>1, Fields, Bounds, SMTT(30) DEF Sound
<1>3. CASE q.state = "ERR" /\ r = insert_wc(p)
  <2>1. p = Received(q, n, f, c)
    BY <1>1 DEF Received, QpType
  <2> HIDE DEF p, n, f, c
  <2>2. /\ QueueOK(p) /\ KeepsLists(q, p) /\ p.type = q.type
        /\ p.state = q.state /\ p.nr_recv = n
    BY <1>2, <2>1, ReceivedOK
  <2>3. /\ QueueOK(r) /\ Keeps(p, r) /\ KeepsLists(p, r)
        /\ r.state = p.state /\ r.nr_recv = p.nr_recv
    BY <1>3, <2>2, InsertOK
  <2>4. Idle(q) /\ q.submitted = <<>> /\ n = 0
    BY <1>3 DEF StateOK, n
  <2>5. Idle(r) /\ r.submitted = <<>> /\ r.nr_recv = 0 /\ r.state = "ERR"
    BY <1>3, <2>2, <2>3, <2>4 DEF KeepsLists, Idle
  <2>6. StateOK(r)
    BY <2>5, StoppedOK
  <2> QED BY <1>3, <2>3, <2>6
<1>4. CASE /\ q.state \in {"INIT", "RTR", "RTS", "SQD", "SQE"}
           /\ q.rfree > 0
           /\ r = [p EXCEPT !.nr_recv = @ + 1, !.rfree = @ - 1]
  <2>1. r = Received(q, n + 1, f - 1, c)
    BY <1>1, <1>4 DEF Received, QpType
  <2>2. /\ n + 1 \in 0 .. MaxRecvWr /\ f - 1 \in 0 .. MaxRecvWr
        /\ (f - 1) + (n + 1) = MaxRecvWr
    BY <1>2, <1>4, Bounds
  <2> DEFINE m == n + 1
             g == f - 1
  <2> HIDE DEF p, n, f, c, m, g
  <2>3. /\ QueueOK(r) /\ KeepsLists(q, r) /\ r.type = q.type
        /\ r.state = q.state /\ r.swqe = q.swqe /\ r.drained = q.drained
    BY <1>2, <2>1, <2>2, ReceivedOK DEF m, g
  <2> QED BY <1>4, <2>3, WorkingOK
<1> QED BY <1>3, <1>4

(* receive_request.                                                        *)
LEMMA ReceiveRequestOK ==
  ASSUME NEW q, QueueOK(q), StateOK(q),
         q.state \in {"RTR", "RTS", "SQD", "SQE"}, q.nr_recv > 0, NEW r,
         LET p == [q EXCEPT !.nr_recv = @ - 1, !.rfree = @ + 1]
         IN  r = insert_wc(p) \/ r = ToError(insert_wc(p)) \/ r = p
  PROVE  /\ QueueOK(r) /\ StateOK(r)
         /\ r.state = "SQD" => StartsNothing(q, r)
<1> DEFINE p == [q EXCEPT !.nr_recv = @ - 1, !.rfree = @ + 1]
           a == insert_wc(p)
           n == q.nr_recv - 1
           f == q.rfree + 1
           c == q.precv
<1>1. Sound(q) /\ q \in QpType
  BY DEF QueueOK, Sound
<1>2. /\ n \in 0 .. MaxRecvWr /\ f \in 0 .. MaxRecvWr /\ f + n = MaxRecvWr
      /\ c \in 0 .. MaxPostRecv
  <2>1. /\ q.nr_recv \in 0 .. MaxRecvWr /\ q.rfree \in 0 .. MaxRecvWr
        /\ c \in 0 .. MaxPostRecv
    BY <1>1, Fields
  <2>2. q.rfree + q.nr_recv = MaxRecvWr
    BY <1>1 DEF Sound
  <2> QED BY <2>1, <2>2, Bounds
<1>3. p = Received(q, n, f, c)
  BY <1>1 DEF Received, QpType
<1>4. r = a \/ r = ToError(a) \/ r = p
  BY Zenon
<1> HIDE DEF p, n, f, c
<1>5. /\ QueueOK(p) /\ KeepsLists(q, p) /\ p.type = q.type
      /\ p.state = q.state /\ p.swqe = q.swqe /\ p.drained = q.drained
  BY <1>2, <1>3, ReceivedOK
<1>6. StateOK(p) /\ StartsNothing(q, p)
  BY <1>5, WorkingOK
<1>7. /\ QueueOK(a) /\ Keeps(p, a) /\ KeepsLists(p, a) /\ a.state = p.state
  BY <1>5, InsertOK
<1>8. StateOK(a) /\ StartsNothing(q, a)
  <2>1. /\ KeepsLists(q, a) /\ a.type = q.type /\ a.state = q.state
        /\ a.swqe = q.swqe /\ a.drained = q.drained
    BY <1>5, <1>7 DEF Keeps, KeepsLists
  <2> QED BY <2>1, WorkingOK
<1> HIDE DEF a
<1>9. QueueOK(ToError(a)) /\ StateOK(ToError(a)) /\ ToError(a).state = "ERR"
  BY <1>7, ToErrorOK
<1> QED BY <1>4, <1>5, <1>6, <1>7, <1>8, <1>9

(* pib_poll_cq.                                                            *)
LEMMA PollOK ==
  ASSUME NEW q, QueueOK(q), StateOK(q), q.cq # <<>>
  PROVE  LET r == [q EXCEPT !.cq = Tail(@)]
         IN  QueueOK(r) /\ StateOK(r) /\ StartsNothing(q, r)
<1> DEFINE c == q.cq
           t == Tail(c)
           r == [q EXCEPT !.cq = Tail(@)]
<1>1. Sound(q) /\ q \in QpType
  BY DEF QueueOK, Sound
<1>2. c \in Seq(0 .. MaxEpoch) /\ c # <<>>
  BY <1>1, Fields
<1>3. r = [q EXCEPT !.cq = t]
  OBVIOUS
<1>4. \A k \in 1 .. Len(c) : c[k] = q.life
  BY <1>1 DEF Sound
<1> HIDE DEF c
<1>5. /\ t \in Seq(0 .. MaxEpoch) /\ Len(t) = Len(c) - 1 /\ Len(c) \in Nat
      /\ \A k \in 1 .. Len(t) : t[k] = c[k + 1]
  BY <1>2, HeadTailProperties
<1>6. \A k \in 1 .. Len(t) : t[k] = q.life
  BY <1>4, <1>5
<1> HIDE DEF t, r
<1>7. r \in QpType
  BY <1>1, <1>3, <1>5 DEF QpType
<1>8. /\ KeepsLists(q, r) /\ r.type = q.type
      /\ r.state = q.state /\ r.swqe = q.swqe
      /\ r.drained = q.drained /\ r.nr_recv = q.nr_recv /\ r.rfree = q.rfree
      /\ r.free = q.free /\ r.done = q.done /\ r.posted = q.posted
      /\ r.cq = t /\ r.life = q.life
  BY <1>1, <1>3 DEF QpType, KeepsLists
<1>9. WrsOK(r)
  <2>1. Left(r) = Left(q)
    BY <1>8 DEF KeepsLists, Left
  <2> QED BY <1>1, <1>8, <2>1 DEF WrsOK, Sound
<1>10. Sound(r)
  BY <1>1, <1>6, <1>7, <1>8, <1>9 DEF Sound
<1>11. QueueOK(r)
  BY <1>8, <1>10, RecvsOK
<1>12. Idle(r) <=> Idle(q)
  BY <1>8 DEF Idle, KeepsLists
<1>13. q.state \notin {"NONE", "RESET"}
  BY DEF StateOK
<1>14. StateOK(r)
  BY <1>8, <1>12, <1>13 DEF StateOK, KeepsLists
<1>15. StartsNothing(q, r)
  <2>1. r.sending = q.sending /\ r.waiting = q.waiting
    BY <1>8, SMTT(30) DEF KeepsLists
  <2> QED BY <2>1, SameStarted
<1> QED BY <1>11, <1>14, <1>15 DEF r

(* receive_response acknowledges the oldest started request ...            *)
LEMMA AckOK ==
  ASSUME NEW q, QueueOK(q), StateOK(q), ~Idle(q)
  PROVE  LET i == Head(q.waiting \o q.sending)
             r == SqDrained(pib_util_free_send_wqe(
                    DropFirst(insert_send_wc(q, q.swqe[i].wr)), i))
         IN  QueueOK(r) /\ StateOK(r) /\ StartsNothing(q, r)
<1> DEFINE i == Head(q.waiting \o q.sending)
           a == insert_send_wc(q, q.swqe[i].wr)
           p == DropFirst(a)
           f == pib_util_free_send_wqe(p, i)
           b == f.drained \/ (f.state = "SQD" /\ Idle(f))
           r == SqDrained(f)
<1>1. q.type = "RC" /\ q.state \in {"INIT", "RTR", "RTS", "SQD"}
  BY BusyState DEF QueueOK
<1>2. /\ Sound(p) /\ Keeps(q, p) /\ p.free = q.free /\ p.state = q.state
      /\ Left(q) # <<>> /\ Left(p) = Tail(Left(q))
      /\ i \in Swqes /\ i = Head(Left(q)) /\ Posted(p, p.done \o OpenWrs(p))
  BY CompleteFirst
<1>3. \/ q.waiting # <<>> /\ p.waiting = Tail(q.waiting) /\ p.sending = q.sending
      \/ q.sending # <<>> /\ p.sending = Tail(q.sending) /\ p.waiting = q.waiting
  <2>1. q \in QpType
    BY DEF QueueOK, Sound
  <2>2. /\ a.sending = q.sending /\ a.waiting = q.waiting
        /\ "sending" \in DOMAIN a /\ "waiting" \in DOMAIN a
    BY <2>1 DEF insert_send_wc, insert_wc, QpType
  <2> HIDE DEF a
  <2>3. CASE q.waiting # <<>>
    BY <2>2, <2>3 DEF DropFirst
  <2>4. CASE q.waiting = <<>>
    BY <2>2, <2>4 DEF DropFirst, Idle
  <2> QED BY <2>3, <2>4
<1> HIDE DEF a, p, i
<1>4. QueueOK(f)
  BY <1>2, FreedOK
<1>5. /\ f.type = p.type /\ f.state = p.state /\ f.waiting = p.waiting
      /\ f.sending = p.sending /\ f.drained \in BOOLEAN
  BY <1>2 DEF pib_util_free_send_wqe, Sound, QpType
<1> HIDE DEF f
<1>6. r = [f EXCEPT !.drained = b] /\ b \in BOOLEAN
  BY <1>5 DEF SqDrained
<1> HIDE DEF b, r
<1>7. /\ QueueOK(r) /\ r.drained = b /\ r.type = f.type
      /\ r.state = f.state
      /\ r.waiting = f.waiting /\ r.sending = f.sending
  BY <1>4, <1>6, SetDrainedOK
<1>8. r.type = "RC" /\ r.state \in {"INIT", "RTR", "RTS", "SQD"}
  BY <1>1, <1>2, <1>5, <1>7 DEF Keeps
<1>9. r.state = "SQD" /\ Idle(r) => r.drained
  BY <1>7 DEF Idle, b
<1>10. StateOK(r)
  BY <1>8, <1>9 DEF StateOK
<1>11. StartsNothing(q, r)
  <2>1. q \in QpType
    BY DEF QueueOK, Sound
  <2> QED BY <1>3, <1>5, <1>7, <2>1, FirstDropped
<1> QED BY <1>7, <1>10, <1>11, ZenonT(30) DEF r, f, p, a, i

(* ... or refuses it for good.                                             *)
LEMMA NakOK ==
  ASSUME NEW q, QueueOK(q), StateOK(q), ~Idle(q)
  PROVE  LET i == Head(q.waiting \o q.sending)
             r == pib_util_free_send_wqe(
                    ToError(DropFirst(insert_send_wc(q, q.swqe[i].wr))), i)
         IN  QueueOK(r) /\ StateOK(r) /\ r.state = "ERR"
<1> DEFINE i == Head(q.waiting \o q.sending)
           a == insert_send_wc(q, q.swqe[i].wr)
           p == DropFirst(a)
           f == ToError(p)
           r == pib_util_free_send_wqe(f, i)
<1>1. /\ Sound(p) /\ Keeps(q, p) /\ p.free = q.free /\ p.state = q.state
      /\ Left(q) # <<>> /\ Left(p) = Tail(Left(q))
      /\ i \in Swqes /\ i = Head(Left(q)) /\ Posted(p, p.done \o OpenWrs(p))
  BY CompleteFirst
<1> HIDE DEF a, p, i
<1>2. /\ Sound(f) /\ Keeps(p, f) /\ f.state = "ERR"
      /\ Idle(f) /\ f.submitted = <<>> /\ f.nr_recv = 0
      /\ f.free = p.free \o Left(p) /\ f.done = p.done \o OpenWrs(p)
  BY <1>1, ToErrorSound
<1>3. FirstDone(q, p, i)
  BY <1>1 DEF FirstDone
<1>4. AllFlushed(p, f)
  BY <1>2 DEF AllFlushed, Keeps
<1> HIDE DEF f
<1>5. /\ QueueOK(r) /\ Idle(r) /\ r.submitted = <<>>
      /\ r.type = f.type /\ r.state = f.state /\ r.nr_recv = f.nr_recv
  BY <1>3, <1>4, FailedOK
<1> HIDE DEF r
<1>6. StateOK(r)
  BY <1>2, <1>5, StoppedOK
<1> QED BY <1>2, <1>5, <1>6 DEF r, f, p, a, i

(* A new value of qp->state alone.                                         *)
LEMMA SetStateOK ==
  ASSUME NEW q, QueueOK(q), NEW st \in States
  PROVE  LET r == [q EXCEPT !.state = st]
         IN  /\ QueueOK(r) /\ Keeps(q, r) /\ KeepsLists(q, r) /\ r.state = st
             /\ r.nr_recv = q.nr_recv /\ r.cq = q.cq
<1> DEFINE r == [q EXCEPT !.state = st]
<1>1. /\ Sound(r) /\ Keeps(q, r) /\ KeepsLists(q, r)
      /\ r.state = st /\ r.free = q.free /\ r.done = q.done
      /\ r.nr_recv = q.nr_recv /\ r.cq = q.cq
  BY SetStateSound DEF QueueOK
<1>2. r.swqe = q.swqe /\ r.posted = q.posted
  BY <1>1 DEF Keeps
<1> HIDE DEF r
<1>3. QueueOK(r)
  BY <1>1, <1>2, RecvsOK
<1> QED BY <1>1, <1>3 DEF r

(* The side reactions of pib_modify_qp.                                    *)
LEMMA SideReactionOK ==
  ASSUME NEW q, QueueOK(q), StateOK(q), NEW cur \in States, NEW new \in States,
         ib_modify_qp_is_ok(cur, new), new = "RESET" => q.life < MaxEpoch
  PROVE  LET r == SideReaction(q, cur, new)
         IN  /\ QueueOK(r) /\ StateOK(r) /\ r.state = new
             /\ new = "SQD" => StartsNothing(q, r)
<1> DEFINE a == [q EXCEPT !.state = new]
           p == CASE new = "RESET" -> reset_qp(a)
                  [] new = "ERR"   -> ToError(q)
                  [] OTHER         -> a
           b == /\ Idle(q) \/ p.drained
                /\ ~(cur = "SQD" /\ new # "SQD")
           r == SideReaction(q, cur, new)
<1>1. r = [p EXCEPT !.drained = b]
  BY DEF SideReaction
<1>2. /\ QueueOK(a) /\ Keeps(q, a) /\ KeepsLists(q, a) /\ a.state = new
      /\ a.nr_recv = q.nr_recv /\ a.cq = q.cq
  BY SetStateOK
<1>3. QueueOK(p) /\ p.state = new /\ p.type = q.type
  <2>1. CASE new = "RESET"
    <3> HIDE DEF a
    <3>1. QueueOK(reset_qp(a)) /\ reset_qp(a).type = a.type
          /\ reset_qp(a).state = a.state
      BY <1>2, <2>1, ResetOK DEF Keeps
    <3> QED BY <1>2, <2>1, <3>1 DEF Keeps
  <2>2. CASE new = "ERR"
    BY <2>2, ToErrorOK
  <2>3. CASE new \notin {"RESET", "ERR"}
    BY <1>2, <2>3 DEF Keeps
  <2> QED BY <2>1, <2>2, <2>3
<1>4. b \in BOOLEAN
  OBVIOUS
<1>5. /\ QueueOK(r) /\ r.drained = b /\ r.type = p.type
      /\ r.state = p.state /\ r.swqe = p.swqe /\ r.cq = p.cq
      /\ r.waiting = p.waiting /\ r.sending = p.sending
      /\ r.submitted = p.submitted /\ r.nr_recv = p.nr_recv
  <2> HIDE DEF p, b, r
  <2> QED BY <1>1, <1>3, <1>4, SetDrainedOK
<1>6. new \in {"RESET", "ERR", "INIT", "RTR", "RTS", "SQD"}
  BY DEF ib_modify_qp_is_ok
<1>7. CASE new = "RESET"
  <2> HIDE DEF a, b, r
  <2>1. p = reset_qp(a)
    BY <1>7
  <2> HIDE DEF p
  <2>2. /\ Idle(p) /\ p.submitted = <<>> /\ p.nr_recv = 0 /\ p.cq = <<>>
    BY <1>2, <1>7, <2>1, ResetOK DEF Keeps
  <2>3. Idle(r) /\ r.submitted = <<>> /\ r.nr_recv = 0 /\ r.cq = <<>>
    BY <1>5, <2>2 DEF Idle
  <2>4. StateOK(r)
    BY <1>3, <1>5, <1>7, <2>3 DEF StateOK
  <2> QED BY <1>3, <1>5, <1>7, <2>4 DEF r
<1>8. CASE new = "ERR"
  <2> HIDE DEF a, b, r
  <2>1. p = ToError(q)
    BY <1>8
  <2> HIDE DEF p
  <2>2. Idle(p) /\ p.submitted = <<>> /\ p.nr_recv = 0
    BY <2>1, ToErrorOK
  <2>3. Idle(r) /\ r.submitted = <<>> /\ r.nr_recv = 0
    BY <1>5, <2>2 DEF Idle
  <2>4. StateOK(r)
    BY <1>3, <1>5, <1>8, <2>3, StoppedOK
  <2> QED BY <1>3, <1>5, <1>8, <2>4 DEF r
<1>9. CASE new \in {"INIT", "RTR", "RTS", "SQD"}
  <2>1. p = a
    BY <1>9
  <2>2. new = "SQD" /\ Idle(q) => b
    OBVIOUS
  <2> HIDE DEF a, p, b, r
  <2>3. KeepsLists(q, r)
    BY <1>2, <1>5, <2>1 DEF KeepsLists
  <2>4. Idle(r) <=> Idle(q)
    BY <2>3 DEF KeepsLists, Idle
  <2>5. r.state = new /\ r.type = q.type
    BY <1>3, <1>5
  <2>6. StateOK(r)
    BY <1>5, <1>9, <2>2, <2>4, <2>5 DEF StateOK
  <2>7. StartsNothing(q, r)
    BY <2>3, SameStarted DEF KeepsLists
  <2> QED BY <1>5, <2>5, <2>6, <2>7 DEF r
<1> QED BY <1>6, <1>7, <1>8, <1>9

(* pib_destroy_qp.                                                         *)
LEMMA DestroyOK ==
  ASSUME NEW q, QueueOK(q), q.life < MaxEpoch
  PROVE  LET r == [reset_qp(q) EXCEPT !.state = "NONE"]
         IN  QueueOK(r) /\ StateOK(r) /\ r.state = "NONE"
<1> DEFINE p == reset_qp(q)
           r == [p EXCEPT !.state = "NONE"]
<1>1. /\ QueueOK(p) /\ Idle(p) /\ p.submitted = <<>> /\ p.nr_recv = 0
      /\ p.cq = <<>>
  BY ResetOK
<1>2. "NONE" \in States
  BY DEF States
<1> HIDE DEF p
<1>3. /\ QueueOK(r) /\ KeepsLists(p, r) /\ r.state = "NONE"
      /\ r.nr_recv = p.nr_recv /\ r.cq = p.cq
  BY <1>1, <1>2, SetStateOK
<1> HIDE DEF r
<1>4. Idle(r) /\ r.submitted = <<>>
  BY <1>1, <1>3 DEF KeepsLists, Idle
<1>5. StateOK(r)
  BY <1>1, <1>3, <1>4 DEF StateOK
<1> QED BY <1>3, <1>5 DEF p, r

(* pib_post_send.                                                          *)
LEMMA PostSendOK ==
  ASSUME NEW q, QueueOK(q), StateOK(q), NEW op \in Opcodes,
         Len(q.posted) < MaxPost, NEW r,
         \/ q.state \in {"ERR", "SQE"} /\ r = FlushPosted(q, op)
         \/ /\ q.state \in {"RTR", "RTS", "SQD"} /\ q.free # <<>>
            /\ r = TakeSwqe(q, op)
  PROVE  /\ QueueOK(r) /\ StateOK(r)
         /\ q.state = "SQD" => StartsNothing(q, r)
<1>1. CASE q.state \in {"ERR", "SQE"} /\ r = FlushPosted(q, op)
  BY <1>1, FlushPostedOK
<1>2. CASE /\ q.state \in {"RTR", "RTS", "SQD"} /\ q.free # <<>>
           /\ r = TakeSwqe(q, op)
  <2>1. /\ QueueOK(r) /\ r.type = q.type /\ r.state = q.state
        /\ r.waiting = q.waiting /\ r.sending = q.sending
        /\ r.drained = q.drained
        /\ \A j \in Swqes : q.swqe[j].local => r.swqe[j].local
    BY <1>2, TakeSwqeOK
  <2>2. Idle(r) <=> Idle(q)
    BY <2>1 DEF Idle
  <2>3. StateOK(r)
    BY <1>2, <2>1, <2>2 DEF StateOK
  <2> QED BY <2>1, <2>3, SameStarted
<1> QED BY <1>1, <1>2

-----------------------------------------------------------------------------
(* The induction.                                                          *)

LEMMA InitIInv == Init => IInv
<1> SUFFICES ASSUME Init PROVE IInv
  OBVIOUS
<1>1. 0 \in 0 .. MaxEpoch
  BY Bounds
<1>2. QueueOK(qp) /\ StateOK(qp)
  BY <1>1, NewQPOK DEF Init
<1> QED BY <1>2 DEF IInv, Init

(* Every step keeps the invariant, and one within SQD starts nothing.      *)
LEMMA NextIInv ==
  ASSUME IInv, [Next]_vars
  PROVE  /\ IInv'
         /\ qp.state = "SQD" /\ qp'.state = "SQD" => StartsNothing(qp, qp')
<1> DEFINE Good == /\ QueueOK(qp') /\ StateOK(qp')
                   /\ qp.state = "SQD" /\ qp'.state = "SQD" =>
                        StartsNothing(qp, qp')
<1>1. QueueOK(qp) /\ StateOK(qp) /\ halted \in BOOLEAN
  BY DEF IInv
<1>2. SUFFICES Good /\ halted' \in BOOLEAN
  BY DEF IInv
<1>3. CASE UNCHANGED vars
  BY <1>1, <1>3, SameStarted DEF vars
<1>4. ASSUME NEW type \in QpTypes, pib_create_qp(type)
      PROVE  Good /\ halted' \in BOOLEAN
  <2> DEFINE n == NewQP(type, qp.life, <<>>)
             r == [n EXCEPT !.state = "RESET"]
  <2>1. type \in {"RC", "UD"}
    BY QPAssumption
  <2>2. qp.cq = <<>> /\ qp.life \in 0 .. MaxEpoch
    BY <1>1, <1>4, Fields DEF pib_create_qp, StateOK, QueueOK, Sound
  <2>3. QueueOK(r) /\ StateOK(r)
    BY <2>1, <2>2, NewQPOK
  <2>4. n = r
    BY DEF NewQP
  <2>5. qp' = r /\ halted' = halted /\ qp.state = "NONE"
    BY <1>4, <2>2, <2>4 DEF pib_create_qp
  <2> HIDE DEF r
  <2> QED BY <1>1, <2>3, <2>5
<1>5. ASSUME NEW cur \in States, NEW new \in States, pib_modify_qp(cur, new)
      PROVE  Good /\ halted' \in BOOLEAN
  <2>1. /\ ib_modify_qp_is_ok(cur, new)
        /\ new = "RESET" => qp.life < MaxEpoch
        /\ qp' = SideReaction(qp, cur, new) /\ halted' = halted
    BY <1>5 DEF pib_modify_qp
  <2>2. /\ QueueOK(qp') /\ StateOK(qp') /\ qp'.state = new
        /\ new = "SQD" => StartsNothing(qp, qp')
    BY <1>1, <2>1, SideReactionOK
  <2> QED BY <1>1, <2>1, <2>2
<1>6. ASSUME NEW op \in Opcodes, pib_post_send(op)
      PROVE  Good /\ halted' \in BOOLEAN
  <2>1. /\ Len(qp.posted) < MaxPost /\ halted' = halted
        /\ \/ qp.state \in {"ERR", "SQE"} /\ qp' = FlushPosted(qp, op)
           \/ /\ qp.state \in {"RTR", "RTS", "SQD"} /\ qp.free # <<>>
              /\ qp' = TakeSwqe(qp, op)
    BY <1>6 DEF pib_post_send
  <2>2. /\ QueueOK(qp') /\ StateOK(qp')
        /\ qp.state = "SQD" => StartsNothing(qp, qp')
    BY <1>1, <2>1, PostSendOK
  <2> QED BY <1>1, <2>1, <2>2
<1>7. CASE pib_post_recv
  <2>1. /\ QueueOK(qp') /\ StateOK(qp')
        /\ qp.state = "SQD" => StartsNothing(qp, qp')
    BY <1>1, <1>7, PostRecvOK DEF pib_post_recv
  <2> QED BY <1>1, <1>7, <2>1 DEF pib_post_recv
<1>8. CASE pib_poll_cq
  <2>1. QueueOK(qp') /\ StateOK(qp') /\ StartsNothing(qp, qp')
    BY <1>1, <1>8, PollOK DEF pib_poll_cq
  <2> QED BY <1>1, <1>8, <2>1 DEF pib_poll_cq
<1>9. CASE pib_destroy_qp
  <2>1. QueueOK(qp') /\ StateOK(qp') /\ qp'.state = "NONE"
    BY <1>1, <1>9, DestroyOK DEF pib_destroy_qp
  <2> QED BY <1>1, <1>9, <2>1 DEF pib_destroy_qp
<1>10. CASE LocalOnlyPass
  <2>1. CASE qp.swqe[Head(qp.waiting)].op = "LOCAL_INV"
    <3>1. /\ qp.state \in {"RTS", "SQD"} /\ LocalAtHead(qp)
          /\ qp' \in {LocalSucceeds(qp), LocalFails(qp)} /\ halted' = halted
      BY <1>10, <2>1 DEF LocalOnlyPass
    <3>2. Good
      BY <1>1, <2>1, <3>1, LocalOnlyOK
    <3> QED BY <1>1, <3>1, <3>2
  <2>2. CASE qp.swqe[Head(qp.waiting)].op # "LOCAL_INV"
    <3>1. qp' = qp /\ halted' = TRUE
      BY <1>10, <2>2 DEF LocalOnlyPass
    <3> QED BY <1>1, <3>1, SameStarted
  <2> QED BY <2>1, <2>2
<1>11. CASE SchedulerPass
  <2>1. /\ qp.state \in {"RTS", "SQD"} /\ halted' = halted
        /\ qp' \in FirstSending(qp) \cup
             (IF qp.waiting # <<>> THEN FirstSending(Resend(qp)) ELSE {})
    BY <1>11 DEF SchedulerPass
  <2>2. Good
    BY <1>1, <2>1, SchedulerPassOK
  <2> QED BY <1>1, <2>1, <2>2
<1>12. CASE receive_response
  <2> DEFINE i == Head(qp.waiting \o qp.sending)
             p == DropFirst(insert_send_wc(qp, qp.swqe[i].wr))
  <2>1. /\ ~Idle(qp) /\ halted' = halted
        /\ \/ qp' = SqDrained(pib_util_free_send_wqe(p, i))
           \/ qp' = pib_util_free_send_wqe(ToError(p), i)
           \/ qp' = Resend(qp)
    BY <1>12, Zenon DEF receive_response
  <2>2. CASE qp' = SqDrained(pib_util_free_send_wqe(p, i))
    <3> DEFINE r == SqDrained(pib_util_free_send_wqe(p, i))
    <3>1. QueueOK(r) /\ StateOK(r) /\ StartsNothing(qp, r)
      BY <1>1, <2>1, AckOK
    <3> HIDE DEF r
    <3>2. qp' = r
      BY <2>2, ZenonT(30) DEF r
    <3> QED BY <2>1, <1>1, <3>1, <3>2
  <2>3. CASE qp' = pib_util_free_send_wqe(ToError(p), i)
    BY <1>1, <2>1, <2>3, NakOK
  <2>4. CASE qp' = Resend(qp)
    BY <1>1, <2>1, <2>4, ResendState, ResendStarts
  <2> QED BY <2>1, <2>2, <2>3, <2>4
<1>13. CASE receive_request
  <2> DEFINE p == [qp EXCEPT !.nr_recv = @ - 1, !.rfree = @ + 1]
  <2>1. /\ qp.state \in {"RTR", "RTS", "SQD", "SQE"} /\ qp.nr_recv > 0
        /\ halted' = halted
        /\ qp' = insert_wc(p) \/ qp' = ToError(insert_wc(p)) \/ qp' = p
    BY <1>13 DEF receive_request
  <2>2. Good
    BY <1>1, <2>1, ReceiveRequestOK
  <2> QED BY <1>1, <2>1, <2>2
<1>14. CASE InjectError
  <2>1. qp' = ToError(qp) /\ halted' = halted
    BY <1>14 DEF InjectError
  <2> QED BY <1>1, <2>1, ToErrorOK
<1> HIDE DEF Good
<1> QED
  BY <1>3, <1>4, <1>5, <1>6, <1>7, <1>8, <1>9, <1>10, <1>11, <1>12, <1>13,
     <1>14 DEF Next, Verbs, Thread

LEMMA AlwaysIInv == Spec => []IInv
<1>1. IInv /\ [Next]_vars => IInv'
  BY NextIInv
<1> QED
  BY InitIInv, <1>1, PTL DEF Spec

-----------------------------------------------------------------------------
(* The theorems.                                                           *)

(* The queue pair stays well formed, and a connected one never enters the  *)
(* SQE state.                                                              *)
THEOREM TypeCorrect == Spec => []TypeOK
<1>1. IInv => TypeOK
  BY DEF IInv, QueueOK, Sound, StateOK, TypeOK
<1> QED BY AlwaysIInv, <1>1, PTL

(* Each send WQE is on exactly one of the four lists and the receive WQEs  *)
(* add up, whatever flushes, resends, resets and error paths have run      *)
(* (pib_util_flush_qp, reset_qp, pib_util_free_send_wqe).                  *)
THEOREM WqesAreConserved == Spec => []WqesConserved
<1>1. ASSUME IInv PROVE WqesConserved
  <2> DEFINE all == qp.free \o Left(qp)
  <2>1. Sound(qp) /\ Once(all, Swqes)
    BY <1>1 DEF IInv, QueueOK
  <2>2. qp.free \in Seq(Swqes) /\ Left(qp) \in Seq(Swqes)
    BY <2>1, LeftType, Fields DEF Sound
  <2>3. all \in Seq(Swqes)
    BY <2>2, ConcatProperties
  <2> HIDE DEF all
  <2>4. \A i \in Swqes : Cardinality({k \in DOMAIN all : all[k] = i}) = 1
    BY <2>1, <2>3, OnceCardinality
  <2>5. qp.rfree + qp.nr_recv = MaxRecvWr
    BY <2>1 DEF Sound
  <2> QED BY <2>4, <2>5 DEF WqesConserved, all
<1> QED BY AlwaysIInv, <1>1, PTL

(* Every SEND posted since the last reset has completed or is on a list,   *)
(* in the order of posting, however often the waiting list went back in    *)
(* front of the sending list.                                              *)
THEOREM SendsInPostedOrder == Spec => []PostedOrder
<1>1. IInv => PostedOrder
  BY DEF IInv, QueueOK, PostedOrder
<1> QED BY AlwaysIInv, <1>1, PTL

(* No completion of an earlier life of the queue pair can be polled, and   *)
(* nothing is posted to one in RESET or one that is gone.                  *)
THEOREM ResetIsClean == Spec => []ResetForgets
<1>1. ASSUME IInv PROVE ResetForgets
  <2>1. Sound(qp) /\ StateOK(qp)
    BY <1>1 DEF IInv, QueueOK
  <2>2. DOMAIN qp.cq = 1 .. Len(qp.cq)
    BY <2>1, Fields DEF Sound
  <2> QED BY <2>1, <2>2 DEF Sound, StateOK, ResetForgets
<1> QED BY AlwaysIInv, <1>1, PTL

(* Nothing stays outstanding in an error state, however it was entered.    *)
THEOREM ErrorStateIsEmpty == Spec => []ErrorFlushes
<1>1. IInv => ErrorFlushes
  BY DEF IInv, StateOK, ErrorFlushes
<1> QED BY AlwaysIInv, <1>1, PTL

(* A send queue that has drained is known to be drained, for a queue pair  *)
(* that was never given a local-only request.                              *)
THEOREM DrainNoticed == Spec => []DrainIsNoticed
<1>1. IInv => DrainIsNoticed
  BY DEF IInv, StateOK, DrainIsNoticed
<1> QED BY AlwaysIInv, <1>1, PTL

(* No pass, answer or verb starts a submitted WQE while the queue pair     *)
(* stays in SQD.                                                           *)
THEOREM DrainingStartsNothing == Spec => SqdStartsNothing
<1>1. ASSUME IInv, [Next]_vars
      PROVE  [qp.state = "SQD" /\ qp'.state = "SQD" =>
              Range(qp'.sending \o qp'.waiting) \subseteq
              Range(qp.sending \o qp.waiting)]_vars
  BY <1>1, NextIInv DEF StartsNothing
<1> QED BY AlwaysIInv, <1>1, PTL DEF Spec, SqdStartsNothing
=============================================================================
