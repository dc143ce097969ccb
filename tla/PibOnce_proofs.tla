--------------------------- MODULE PibOnce_proofs ---------------------------
(***************************************************************************)
(* The responder executes every packet once and in order                   *)
(* (ExactlyOnceInOrder), whatever is lost, repeated, delayed or resent,    *)
(* and the requester believes no more than that (SuccessMeansExecuted).    *)
(*                                                                         *)
(* A packet says which PSN it has only modulo PsnMod, so this needs that   *)
(* the PSNs a connection uses do not come round: PsnsSuffice.  The rest is *)
(* the chain of PSNs of the requester and that packets on the wire are     *)
(* genuine (PibFlow_proofs).                                               *)
(***************************************************************************)
EXTENDS PibFlow_proofs

(* All the PSNs the posted work requests can take are fewer than half of   *)
(* those that get_psn_diff can tell apart.                                 *)
PsnsFit(P) == P \in Nat /\ (\A w \in WRs : w.pkts <= P) /\ 2 * (MaxWR * P) < PsnMod
PsnsSuffice == \E P \in Nat : PsnsFit(P)

-----------------------------------------------------------------------------
(* get_psn_diff of a PSN off the wire is the distance, when that is less   *)
(* than half of the PSNs.                                                  *)

(* What is left after taking out a multiple is the remainder.              *)
LEMMA ModUnique ==
  ASSUME NEW M \in Nat \ {0}, NEW a \in Int, NEW k \in Int, NEW b \in 0 .. M - 1,
         a = M * k + b
  PROVE  a % M = b
<1> DEFINE d == a \div M
           m == a % M
<1>1. d \in Int /\ m \in 0 .. M - 1 /\ a = M * d + m
  OBVIOUS
<1> HIDE DEF d, m
<1>2. M * (d - k) = b - m
  BY <1>1
<1>3. ASSUME d - k >= 1 PROVE FALSE
  <2>1. M * (d - k) >= M
    BY <1>1, <1>3
  <2> QED BY <1>1, <1>2, <2>1
<1>4. ASSUME d - k <= -1 PROVE FALSE
  <2>1. M * (d - k) <= -M
    BY <1>1, <1>4
  <2> QED BY <1>1, <1>2, <2>1
<1>5. d = k
  BY <1>1, <1>3, <1>4
<1>6. m = b
  BY <1>1, <1>5
<1> QED BY <1>6 DEF m

LEMMA DiffExact ==
  ASSUME NEW x \in Int, NEW y \in Int, 2 * (x - y) < PsnMod, -PsnMod < 2 * (x - y)
  PROVE  get_psn_diff(Masked(x), y) = x - y
<1> DEFINE M == PsnMod
           d == x \div M
           m == x % M
<1>1. M \in Nat \ {0}
  BY PsnModAssumption
<1>2. d \in Int /\ m \in 0 .. M - 1 /\ x = M * d + m
  BY <1>1
<1> HIDE DEF d, m
<1>3. CASE x >= y
  <2> DEFINE a == m - y
             k == -d
             b == x - y
  <2>1. a \in Int /\ k \in Int /\ b \in 0 .. M - 1 /\ a = M * k + b
    BY <1>1, <1>2, <1>3
  <2> HIDE DEF a, k, b
  <2>2. a % M = b
    BY <1>1, <2>1, ModUnique
  <2>3. (m - y) % M = x - y
    BY <2>2 DEF a, b
  <2>4. get_psn_diff(m, y) = x - y
    BY <1>1, <1>3, <2>3 DEF get_psn_diff
  <2> QED BY <2>4 DEF m, Masked
<1>4. CASE x < y
  <2> DEFINE a == m - y
             k == -d - 1
             b == x - y + M
  <2>1. a \in Int /\ k \in Int /\ b \in 0 .. M - 1 /\ a = M * k + b
    BY <1>1, <1>2, <1>4
  <2> HIDE DEF a, k, b
  <2>2. a % M = b
    BY <1>1, <2>1, ModUnique
  <2>3. (m - y) % M = x - y + M
    BY <2>2 DEF a, b
  <2>4. get_psn_diff(m, y) = x - y
    BY <1>1, <1>4, <2>3 DEF get_psn_diff
  <2> QED BY <2>4 DEF m, Masked
<1> QED BY <1>3, <1>4

-----------------------------------------------------------------------------
(* The chain of PSNs.                                                      *)

(* Numbers that rise by at most P at every place.                          *)
LEMMA Rising ==
  ASSUME NEW n \in Nat, NEW f \in [0 .. n -> Int], NEW P \in Nat,
         \A j \in 1 .. n : f[j - 1] < f[j] /\ f[j] <= f[j - 1] + P
  PROVE  \A j \in 0 .. n : /\ f[j] <= f[0] + j * P
                           /\ \A i \in 0 .. j - 1 : f[i] < f[j]
<1> DEFINE G(j) == /\ f[j] <= f[0] + j * P
                   /\ \A i \in 0 .. j - 1 : f[i] < f[j]
           T == {j \in Nat : j <= n => G(j)}
<1>1. T \subseteq Nat
  OBVIOUS
<1>2. 0 \in T
  <2>1. f[0] \in Int /\ 0 * P = 0
    OBVIOUS
  <2> QED BY <2>1
<1>3. ASSUME NEW j \in T PROVE j + 1 \in T
  <2> SUFFICES ASSUME j + 1 <= n PROVE G(j + 1)
    BY <1>3
  <2>1. j \in Nat /\ j + 1 \in 1 .. n /\ (j + 1) - 1 = j /\ j \in 0 .. n /\ G(j)
    BY <1>3
  <2>2. f[j] < f[j + 1] /\ f[j + 1] <= f[j] + P
    BY <2>1
  <2>3. f[j] \in Int /\ f[j + 1] \in Int /\ f[0] \in Int
    BY <2>1
  <2>4. (j + 1) * P = j * P + P /\ j * P \in Int
    BY <2>1
  <2>5. f[j + 1] <= f[0] + (j + 1) * P
    BY <2>1, <2>2, <2>3, <2>4
  <2>6. ASSUME NEW i \in 0 .. j PROVE f[i] < f[j + 1]
    <3>1. i \in 0 .. j - 1 \/ i = j
      BY <2>1, <2>6
    <3>2. f[i] \in Int
      BY <2>1, <2>6
    <3>3. CASE i = j
      BY <2>2, <3>3
    <3>4. CASE i \in 0 .. j - 1
      <4>1. f[i] < f[j]
        BY <2>1, <3>4
      <4> QED BY <2>2, <2>3, <3>2, <4>1
    <3> QED BY <3>1, <3>3, <3>4
  <2> QED BY <2>1, <2>5, <2>6
<1>4. Nat \subseteq T
  <2> HIDE DEF T
  <2> QED BY <1>1, <1>2, <1>3, SetInduction
<1> QED BY <1>4

(* The first n work requests of q have their PSNs, the others none.        *)
Line(q, n) ==
  /\ q \in ReqType /\ n \in 0 .. Len(q.wqe) /\ Chained(q, n)
  /\ \A i \in n + 1 .. Len(q.wqe) : ~Numbered(q.wqe[i])

LEMMA LineWqe ==
  ASSUME NEW q, NEW n, Line(q, n), NEW i \in 1 .. n
  PROVE  /\ q.wqe[i] \in SwqeType /\ q.wqe[i].wr \in WRs
         /\ q.wqe[i].wr.pkts \in Nat /\ q.wqe[i].wr.pkts >= 1
         /\ q.wqe[i].based_psn = PsnAfter(q, i - 1)
         /\ q.wqe[i].expected_psn = PsnAfter(q, i)
         /\ PsnAfter(q, i) = PsnAfter(q, i - 1) + q.wqe[i].wr.pkts
         /\ PsnAfter(q, i) \in Int /\ PsnAfter(q, i - 1) \in Int
<1>1. i \in 1 .. Len(q.wqe) /\ q.wqe \in Seq(SwqeType) /\ i \in Nat /\ i # 0
  BY ReqFields DEF Line
<1>2. q.wqe[i] \in SwqeType
  BY <1>1
<1>3. /\ q.wqe[i].wr \in WRs /\ q.wqe[i].wr \in WrType
      /\ q.wqe[i].based_psn \in Int /\ q.wqe[i].expected_psn \in Int
  BY <1>2, SwqeFields DEF SwqeType
<1>4. q.wqe[i].wr.pkts \in Nat /\ q.wqe[i].wr.pkts >= 1
  BY <1>3 DEF WrType
<1>5. /\ q.wqe[i].based_psn = PsnAfter(q, i - 1)
      /\ q.wqe[i].expected_psn = q.wqe[i].based_psn + q.wqe[i].wr.pkts
  BY DEF Line, Chained
<1>6. q.wqe[i].expected_psn = PsnAfter(q, i)
  BY <1>1 DEF PsnAfter
<1> QED BY <1>2, <1>3, <1>4, <1>5, <1>6

LEMMA LineRises ==
  ASSUME NEW q, NEW n, Line(q, n), NEW P \in Nat, \A w \in WRs : w.pkts <= P
  PROVE  \A j \in 0 .. n : /\ PsnAfter(q, j) \in Int
                           /\ PsnAfter(q, j) <= InitPsn + j * P
                           /\ InitPsn <= PsnAfter(q, j)
                           /\ \A i \in 0 .. j - 1 : PsnAfter(q, i) < PsnAfter(q, j)
<1> DEFINE f == [j \in 0 .. n |-> PsnAfter(q, j)]
<1>1. n \in Nat /\ InitPsn \in Int
  BY ReqFields, ConstantTypes DEF Line
<1>2. PsnAfter(q, 0) = InitPsn
  BY DEF PsnAfter
<1>3. \A j \in 0 .. n : PsnAfter(q, j) \in Int
  <2> SUFFICES ASSUME NEW j \in 0 .. n PROVE PsnAfter(q, j) \in Int
    OBVIOUS
  <2>1. j = 0 \/ j \in 1 .. n
    BY <1>1
  <2> QED BY <1>1, <1>2, <2>1, LineWqe
<1>4. \A j \in 1 .. n : f[j - 1] < f[j] /\ f[j] <= f[j - 1] + P
  <2> SUFFICES ASSUME NEW j \in 1 .. n
               PROVE  f[j - 1] < f[j] /\ f[j] <= f[j - 1] + P
    OBVIOUS
  <2>1. f[j] = PsnAfter(q, j) /\ f[j - 1] = PsnAfter(q, j - 1)
    BY <1>1
  <2>2. /\ PsnAfter(q, j) = PsnAfter(q, j - 1) + q.wqe[j].wr.pkts
        /\ q.wqe[j].wr.pkts \in Nat /\ q.wqe[j].wr.pkts >= 1
        /\ PsnAfter(q, j - 1) \in Int /\ q.wqe[j].wr.pkts <= P
    BY LineWqe
  <2> HIDE DEF f
  <2> QED BY <2>1, <2>2
<1>5. f \in [0 .. n -> Int]
  BY <1>3
<1>6. \A j \in 0 .. n : f[j] = PsnAfter(q, j)
  OBVIOUS
<1> HIDE DEF f
<1>7. \A j \in 0 .. n : /\ f[j] <= f[0] + j * P
                        /\ \A i \in 0 .. j - 1 : f[i] < f[j]
  BY <1>1, <1>4, <1>5, Rising
<1> SUFFICES ASSUME NEW j \in 0 .. n
             PROVE  /\ PsnAfter(q, j) \in Int
                    /\ PsnAfter(q, j) <= InitPsn + j * P
                    /\ InitPsn <= PsnAfter(q, j)
                    /\ \A i \in 0 .. j - 1 : PsnAfter(q, i) < PsnAfter(q, j)
  OBVIOUS
<1>8. f[0] = InitPsn /\ f[j] = PsnAfter(q, j) /\ 0 \in 0 .. n
  BY <1>1, <1>2, <1>6
<1>9. \A i \in 0 .. j - 1 : PsnAfter(q, i) < PsnAfter(q, j)
  <2>1. \A i \in 0 .. j - 1 : i \in 0 .. n
    BY <1>1
  <2> QED BY <1>6, <1>7, <2>1
<1>10. InitPsn <= PsnAfter(q, j)
  <2>1. j = 0 \/ 0 \in 0 .. j - 1
    BY <1>1
  <2> QED BY <1>1, <1>2, <1>3, <1>9, <2>1
<1> QED BY <1>3, <1>7, <1>8, <1>9, <1>10

-----------------------------------------------------------------------------
(* Two packets with the same PSN are the same packet of the same message.  *)
LEMMA SamePlace ==
  ASSUME NEW q, NEW n, Line(q, n), NEW P, PsnsFit(P),
         NEW i \in 1 .. n, NEW k \in 0 .. q.wqe[i].wr.pkts - 1,
         NEW m \in 1 .. n, NEW l \in 0 .. q.wqe[m].wr.pkts - 1,
         q.wqe[i].based_psn + k = q.wqe[m].based_psn + l
  PROVE  i = m /\ k = l
<1>1. n \in Nat /\ P \in Nat /\ \A w \in WRs : w.pkts <= P
  BY ReqFields DEF Line, PsnsFit
<1>2. \A j \in 0 .. n : /\ PsnAfter(q, j) \in Int
                        /\ \A h \in 0 .. j - 1 : PsnAfter(q, h) < PsnAfter(q, j)
  BY <1>1, LineRises
<1>3. ASSUME NEW a \in 1 .. n, NEW x \in 0 .. q.wqe[a].wr.pkts - 1
      PROVE  /\ q.wqe[a].based_psn + x \in Int
             /\ PsnAfter(q, a - 1) <= q.wqe[a].based_psn + x
             /\ q.wqe[a].based_psn + x < PsnAfter(q, a)
             /\ PsnAfter(q, a) \in Int /\ PsnAfter(q, a - 1) \in Int
  <2>1. /\ q.wqe[a].based_psn = PsnAfter(q, a - 1)
        /\ PsnAfter(q, a) = PsnAfter(q, a - 1) + q.wqe[a].wr.pkts
        /\ PsnAfter(q, a) \in Int /\ PsnAfter(q, a - 1) \in Int
        /\ q.wqe[a].wr.pkts \in Nat
    BY LineWqe
  <2> QED BY <2>1
<1>4. ASSUME NEW a \in 1 .. n, NEW b \in 1 .. n, a < b
      PROVE  PsnAfter(q, a) <= PsnAfter(q, b - 1)
  <2>1. a \in 0 .. n /\ b - 1 \in 0 .. n /\ (a = b - 1 \/ a \in 0 .. (b - 1) - 1)
    BY <1>1, <1>4
  <2> QED BY <1>2, <2>1
<1> DEFINE x == q.wqe[i].based_psn + k
<1>5. /\ x \in Int /\ PsnAfter(q, i - 1) <= x /\ x < PsnAfter(q, i)
      /\ PsnAfter(q, i) \in Int /\ PsnAfter(q, i - 1) \in Int
  BY <1>3
<1>6. /\ x = q.wqe[m].based_psn + l /\ PsnAfter(q, m - 1) <= x /\ x < PsnAfter(q, m)
      /\ PsnAfter(q, m) \in Int /\ PsnAfter(q, m - 1) \in Int
  BY <1>3
<1> HIDE DEF x
<1>7. i = m
  <2>1. ~(i < m)
    BY <1>4, <1>5, <1>6
  <2>2. ~(m < i)
    BY <1>4, <1>5, <1>6
  <2> QED BY <1>1, <2>1, <2>2
<1>8. k = l
  <2>1. q.wqe[i].based_psn \in Int /\ k \in Int /\ l \in Int
    BY <1>5, LineWqe
  <2> QED BY <1>7, <2>1
<1> QED BY <1>7, <1>8

(* All PSNs in use lie between InitPsn and the end of the line, less than  *)
(* half of PsnMod apart.                                                   *)
LEMMA LineFits ==
  ASSUME NEW q, NEW n, Line(q, n), Len(q.wqe) <= MaxWR, NEW P, PsnsFit(P)
  PROVE  /\ n \in Nat /\ InitPsn \in Int
         /\ \A j \in 0 .. n : /\ PsnAfter(q, j) \in Int /\ InitPsn <= PsnAfter(q, j)
                              /\ PsnAfter(q, j) <= PsnAfter(q, n)
         /\ 2 * (PsnAfter(q, n) - InitPsn) < PsnMod
<1>1. /\ n \in Nat /\ n <= Len(q.wqe) /\ Len(q.wqe) \in Nat /\ InitPsn \in Int
      /\ P \in Nat /\ MaxWR \in Nat /\ \A w \in WRs : w.pkts <= P
  BY ReqFields, ConstantTypes, RCAssumption DEF Line, PsnsFit
<1>2. \A j \in 0 .. n : /\ PsnAfter(q, j) \in Int
                        /\ PsnAfter(q, j) <= InitPsn + j * P
                        /\ InitPsn <= PsnAfter(q, j)
                        /\ \A h \in 0 .. j - 1 : PsnAfter(q, h) < PsnAfter(q, j)
  BY <1>1, LineRises
<1>3. ASSUME NEW j \in 0 .. n PROVE PsnAfter(q, j) <= PsnAfter(q, n)
  <2>1. j = n \/ j \in 0 .. n - 1
    BY <1>1
  <2> QED BY <1>1, <1>2, <2>1
<1>4. n * P <= MaxWR * P
  <2>1. n <= MaxWR
    BY <1>1
  <2>2. (MaxWR - n) * P >= 0 /\ (MaxWR - n) * P = MaxWR * P - n * P
    BY <1>1, <2>1
  <2>3. n * P \in Int /\ MaxWR * P \in Int
    BY <1>1
  <2> HIDE DEF PsnsFit
  <2> QED BY <2>2, <2>3
<1>5. 2 * (MaxWR * P) < PsnMod
  BY DEF PsnsFit
<1>6. 2 * (PsnAfter(q, n) - InitPsn) < PsnMod
  <2> DEFINE a == PsnAfter(q, n)
             b == n * P
             c == MaxWR * P
  <2>1. a \in Int /\ b \in Int /\ c \in Int /\ a <= InitPsn + b
    BY <1>1, <1>2
  <2>2. b <= c /\ 2 * c < PsnMod
    BY <1>4, <1>5
  <2>3. PsnMod \in Int
    BY PsnModAssumption
  <2> HIDE DEF a, b, c
  <2>4. 2 * (a - InitPsn) < PsnMod
    BY <1>1, <2>1, <2>2, <2>3
  <2> QED BY <2>4 DEF a
<1> QED BY <1>1, <1>2, <1>3, <1>6

-----------------------------------------------------------------------------
(* The log of the responder.                                               *)

(* How many entries of the log a work request has, the PSN after entry     *)
(* number k of it, and the entry that follows l.                           *)
Entries(e)    == IF e.wr.op = "READ" THEN 1 ELSE e.wr.pkts
PsnPast(e, k) == IF e.wr.op = "READ" THEN e.expected_psn ELSE e.based_psn + k + 1
Following(q, l) ==
  IF l[2] + 1 < Entries(q.wqe[l[1]]) THEN <<l[1], l[2] + 1>> ELSE <<l[1] + 1, 0>>

IsEntry(q, n, l) == l[1] \in 1 .. n /\ l[2] \in 0 .. Entries(q.wqe[l[1]]) - 1

(* The log is in order and complete up to its last entry, where the PSN    *)
(* expected next is the one after it.                                      *)
InSequence(log, q, n) ==
  \A j \in 1 .. Len(log) :
    /\ IsEntry(q, n, log[j])
    /\ log[j] = IF j = 1 THEN <<1, 0>> ELSE Following(q, log[j - 1])
Complete(log, q, i) ==
  \E j \in 1 .. Len(log) : log[j] = <<i, Entries(q.wqe[i]) - 1>>

Logged(r, q, n) ==
  /\ r.log \in Seq(Nat \X Int) /\ r.psn \in Int
  /\ InSequence(r.log, q, n)
  /\ Len(r.log) = 0 => r.psn = InitPsn
  /\ Len(r.log) # 0 =>
       LET l == r.log[Len(r.log)]
       IN  /\ r.psn = PsnPast(q.wqe[l[1]], l[2])
           /\ \A i \in 1 .. l[1] - 1 : Complete(r.log, q, i)

(* The entry the log expects next. *)
Awaited(r, q) ==
  IF Len(r.log) = 0 THEN <<1, 0>> ELSE Following(q, r.log[Len(r.log)])

(* It is a packet of the line with the PSN the responder expects, or the   *)
(* line ends there.                                                        *)
LEMMA AwaitedPsn ==
  ASSUME NEW q, NEW n, Line(q, n), NEW r, Logged(r, q, n)
  PROVE  LET a == Awaited(r, q)
         IN  \/ /\ a[1] = n + 1 /\ a[2] = 0 /\ r.psn = PsnAfter(q, n)
             \/ /\ a[1] \in 1 .. n /\ a[2] \in 0 .. Entries(q.wqe[a[1]]) - 1
                /\ a[2] \in 0 .. q.wqe[a[1]].wr.pkts - 1
                /\ r.psn = q.wqe[a[1]].based_psn + a[2]
<1> DEFINE a == Awaited(r, q)
<1>1. n \in Nat
  BY ReqFields DEF Line
<1>2. ASSUME NEW m \in 0 .. n, r.psn = PsnAfter(q, m), a = <<m + 1, 0>>
      PROVE  \/ /\ a[1] = n + 1 /\ a[2] = 0 /\ r.psn = PsnAfter(q, n)
             \/ /\ a[1] \in 1 .. n /\ a[2] \in 0 .. Entries(q.wqe[a[1]]) - 1
                /\ a[2] \in 0 .. q.wqe[a[1]].wr.pkts - 1
                /\ r.psn = q.wqe[a[1]].based_psn + a[2]
  <2>1. a[1] = m + 1 /\ a[2] = 0
    BY <1>2
  <2>2. CASE m = n
    BY <1>2, <2>1, <2>2
  <2>3. CASE m # n
    <3>1. m + 1 \in 1 .. n /\ (m + 1) - 1 = m
      BY <1>1, <2>3
    <3>2. /\ q.wqe[m + 1].based_psn = PsnAfter(q, m) /\ PsnAfter(q, m) \in Int
          /\ q.wqe[m + 1].wr.pkts \in Nat /\ q.wqe[m + 1].wr.pkts >= 1
      BY <3>1, LineWqe
    <3>3. 0 \in 0 .. Entries(q.wqe[m + 1]) - 1 /\ 0 \in 0 .. q.wqe[m + 1].wr.pkts - 1
      BY <3>2 DEF Entries
    <3> HIDE DEF a
    <3> QED BY <1>2, <2>1, <3>1, <3>2, <3>3
  <2> QED BY <2>2, <2>3
<1>3. CASE Len(r.log) = 0
  <2>1. a = <<1, 0>> /\ r.psn = InitPsn
    BY <1>3 DEF Awaited, Logged
  <2>2. InitPsn = PsnAfter(q, 0) /\ 0 \in 0 .. n /\ 0 + 1 = 1
    BY <1>1 DEF PsnAfter
  <2>3. a = <<0 + 1, 0>>
    BY <2>1, <2>2
  <2> HIDE DEF a
  <2>4. r.psn = PsnAfter(q, 0)
    BY <2>1, <2>2
  <2> QED BY <1>2, <2>2, <2>3, <2>4 DEF a
<1>4. CASE Len(r.log) # 0
  <2> DEFINE l == r.log[Len(r.log)]
             i == l[1]
             k == l[2]
             e == q.wqe[i]
  <2>1. /\ a = Following(q, l) /\ r.psn = PsnPast(e, k)
        /\ Len(r.log) \in 1 .. Len(r.log)
    BY <1>4 DEF Awaited, Logged
  <2>2. IsEntry(q, n, l)
    BY <2>1 DEF Logged, InSequence
  <2> HIDE DEF l
  <2>3. i \in 1 .. n /\ k \in 0 .. Entries(e) - 1
    BY <2>2 DEF IsEntry
  <2>4. /\ e.based_psn = PsnAfter(q, i - 1) /\ e.expected_psn = PsnAfter(q, i)
        /\ PsnAfter(q, i) = PsnAfter(q, i - 1) + e.wr.pkts
        /\ e.wr.pkts \in Nat /\ PsnAfter(q, i) \in Int /\ PsnAfter(q, i - 1) \in Int
    BY <2>3, LineWqe
  <2>5. a = IF k + 1 < Entries(e) THEN <<i, k + 1>> ELSE <<i + 1, 0>>
    BY <2>1 DEF Following
  <2> HIDE DEF a, i, k, e
  <2>6. CASE k + 1 < Entries(e)
    <3>1. e.wr.op # "READ"
      BY <2>3, <2>4, <2>6 DEF Entries
    <3>2. a = <<i, k + 1>> /\ Entries(e) = e.wr.pkts /\ r.psn = e.based_psn + k + 1
      BY <2>1, <2>5, <2>6, <3>1 DEF Entries, PsnPast
    <3>3. k + 1 \in 0 .. e.wr.pkts - 1 /\ r.psn = e.based_psn + (k + 1)
      BY <2>3, <2>4, <2>6, <3>2
    <3>4. a[1] = i /\ a[2] = k + 1
      BY <3>2
    <3>5. /\ a[1] \in 1 .. n /\ a[2] \in 0 .. Entries(q.wqe[a[1]]) - 1
          /\ a[2] \in 0 .. q.wqe[a[1]].wr.pkts - 1
          /\ r.psn = q.wqe[a[1]].based_psn + a[2]
      BY <2>3, <3>2, <3>3, <3>4 DEF e
    <3> QED BY <3>5 DEF a
  <2>7. CASE ~(k + 1 < Entries(e))
    <3>1. k + 1 = Entries(e)
      BY <2>3, <2>4, <2>7 DEF Entries
    <3>2. r.psn = PsnAfter(q, i)
      <4>1. CASE e.wr.op = "READ"
        BY <2>1, <2>4, <4>1 DEF PsnPast
      <4>2. CASE e.wr.op # "READ"
        <5>1. r.psn = e.based_psn + k + 1 /\ k + 1 = e.wr.pkts
          BY <2>1, <3>1, <4>2 DEF PsnPast, Entries
        <5>2. e.based_psn \in Int /\ k \in Int
          BY <2>3, <2>4
        <5>3. r.psn = e.based_psn + e.wr.pkts
          BY <2>4, <5>1, <5>2
        <5> QED BY <2>4, <5>3
      <4> QED BY <4>1, <4>2
    <3>3. a = <<i + 1, 0>> /\ i \in 0 .. n
      BY <1>1, <2>3, <2>5, <2>7
    <3>4. \/ /\ a[1] = n + 1 /\ a[2] = 0 /\ r.psn = PsnAfter(q, n)
          \/ /\ a[1] \in 1 .. n /\ a[2] \in 0 .. Entries(q.wqe[a[1]]) - 1
             /\ a[2] \in 0 .. q.wqe[a[1]].wr.pkts - 1
             /\ r.psn = q.wqe[a[1]].based_psn + a[2]
      BY <1>2, <3>2, <3>3
    <3> QED BY <3>4 DEF a
  <2> QED BY <2>6, <2>7
<1> QED BY <1>3, <1>4

(* A packet of the line has a PSN in these bounds.                         *)
LEMMA PlaceInLine ==
  ASSUME NEW q, NEW n, Line(q, n), Len(q.wqe) <= MaxWR, NEW P, PsnsFit(P),
         NEW i \in 1 .. n, NEW k \in 0 .. q.wqe[i].wr.pkts - 1
  PROVE  /\ q.wqe[i].based_psn + k \in Int /\ InitPsn <= q.wqe[i].based_psn + k
         /\ q.wqe[i].based_psn + k < PsnAfter(q, n) /\ PsnAfter(q, n) \in Int
<1> DEFINE a == PsnAfter(q, i - 1)
           b == PsnAfter(q, i)
           c == PsnAfter(q, n)
           m == q.wqe[i].wr.pkts
<1>1. q.wqe[i].based_psn = a /\ b = a + m /\ m \in Nat
  BY LineWqe
<1>2. /\ n \in Nat /\ InitPsn \in Int
      /\ \A j \in 0 .. n : /\ PsnAfter(q, j) \in Int /\ InitPsn <= PsnAfter(q, j)
                           /\ PsnAfter(q, j) <= PsnAfter(q, n)
  BY LineFits
<1>3. i \in 0 .. n /\ i - 1 \in 0 .. n /\ n \in 0 .. n
  BY <1>2
<1>4. a \in Int /\ b \in Int /\ c \in Int /\ InitPsn <= a /\ b <= c
  BY <1>2, <1>3
<1>5. k \in Int /\ 0 <= k /\ k <= m - 1
  BY <1>1
<1> HIDE DEF a, b, c, m
<1>6. a + k \in Int /\ InitPsn <= a + k /\ a + k < c
  BY <1>1, <1>2, <1>4, <1>5
<1> QED BY <1>1, <1>4, <1>6 DEF c

LEMMA RspInLine ==
  ASSUME NEW q, NEW n, Line(q, n), Len(q.wqe) <= MaxWR, NEW P, PsnsFit(P),
         NEW r, Logged(r, q, n)
  PROVE  r.psn \in Int /\ InitPsn <= r.psn /\ r.psn <= PsnAfter(q, n)
<1> DEFINE i == Awaited(r, q)[1]
           k == Awaited(r, q)[2]
<1>1. /\ n \in Nat /\ InitPsn \in Int
      /\ \A j \in 0 .. n : /\ PsnAfter(q, j) \in Int /\ InitPsn <= PsnAfter(q, j)
                           /\ PsnAfter(q, j) <= PsnAfter(q, n)
  BY LineFits
<1>2. \/ r.psn = PsnAfter(q, n)
      \/ /\ i \in 1 .. n /\ k \in 0 .. q.wqe[i].wr.pkts - 1
         /\ r.psn = q.wqe[i].based_psn + k
  BY AwaitedPsn
<1> HIDE DEF i, k
<1>3. CASE r.psn = PsnAfter(q, n)
  <2>1. n \in 0 .. n
    BY <1>1
  <2> QED BY <1>1, <1>3, <2>1
<1>4. CASE /\ i \in 1 .. n /\ k \in 0 .. q.wqe[i].wr.pkts - 1
           /\ r.psn = q.wqe[i].based_psn + k
  <2>1. /\ q.wqe[i].based_psn + k \in Int /\ InitPsn <= q.wqe[i].based_psn + k
        /\ q.wqe[i].based_psn + k < PsnAfter(q, n) /\ PsnAfter(q, n) \in Int
    BY <1>4, PlaceInLine
  <2> QED BY <1>4, <2>1
<1> QED BY <1>2, <1>3, <1>4

LEMMA ReadRequestOpcode ==
  ASSUME NEW op \in WrOpcodes, NEW all, NEW sent
  PROVE  RequestOpcode(op, all, sent) = "READ_REQUEST" <=> op = "READ"
<1> DEFINE pos == Position(all, sent)
<1>1. pos \in {"ONLY", "FIRST", "MIDDLE", "LAST"}
  <2>1. CASE all = 1
    BY <2>1 DEF Position
  <2>2. CASE all # 1 /\ sent = 0
    BY <2>2 DEF Position
  <2>3. CASE all # 1 /\ sent # 0 /\ all = sent + 1
    BY <2>3 DEF Position
  <2>4. CASE all # 1 /\ sent # 0 /\ all # sent + 1
    BY <2>4 DEF Position
  <2> QED BY <2>1, <2>2, <2>3, <2>4
<1> HIDE DEF pos
<1> USE DEF RequestOpcode, WrOpcodes
<1>2. CASE op = "READ"
  BY <1>2
<1>3. CASE op = "CAS"
  BY <1>3
<1>4. CASE op = "FADD"
  BY <1>4
<1>5. CASE op = "SEND"
  BY <1>1, <1>5 DEF pos
<1>6. CASE op = "SEND_INV"
  BY <1>1, <1>6 DEF pos
<1>7. CASE op = "WRITE"
  BY <1>1, <1>7 DEF pos
<1>8. CASE op = "WRITE_IMM"
  BY <1>1, <1>8 DEF pos
<1> QED BY <1>2, <1>3, <1>4, <1>5, <1>6, <1>7, <1>8

(* A request packet on the wire belongs to a work request of the line.     *)
LEMMA GenuineInLine ==
  ASSUME NEW q, NEW n, Line(q, n), NEW p \in Requests(q), p.op # "CNP"
  PROVE  LET e == q.wqe[p.wr]
         IN  /\ p.wr \in 1 .. n /\ p.k \in 0 .. e.wr.pkts - 1
             /\ p.psn = Masked(e.based_psn + p.k)
             /\ (p.op = "READ_REQUEST" <=> e.wr.op = "READ")
             /\ p.dmalen = IF e.wr.op = "READ" THEN e.wr.pkts - p.k ELSE e.wr.pkts
<1> DEFINE e == q.wqe[p.wr]
<1>1. Genuine(q, p) /\ p # CNP
  BY DEF Requests, CNP
<1>2. p.wr \in 1 .. Len(q.wqe) /\ IsPacketOf(e, p)
  BY <1>1 DEF Genuine
<1>3. p.wr \in 1 .. n
  <2>1. Numbered(e)
    BY <1>2 DEF IsPacketOf
  <2>2. n \in Nat /\ Len(q.wqe) \in Nat /\ n <= Len(q.wqe)
    BY ReqFields DEF Line
  <2>3. p.wr \notin n + 1 .. Len(q.wqe)
    BY <2>1 DEF Line
  <2> QED BY <1>2, <2>2, <2>3
<1>4. e.wr.op \in WrOpcodes
  BY <1>3, LineWqe, SwqeFields
<1>5. p.op = "READ_REQUEST" <=> e.wr.op = "READ"
  BY <1>2, <1>4, ReadRequestOpcode DEF IsPacketOf
<1> QED BY <1>2, <1>3, <1>5 DEF IsPacketOf

(* A packet that seems to have the expected PSN is the one awaited.        *)
LEMMA NewIsAwaited ==
  ASSUME NEW q, NEW n, Line(q, n), Len(q.wqe) <= MaxWR, NEW P, PsnsFit(P),
         NEW r, Logged(r, q, n), NEW p \in Requests(q), p.op # "CNP",
         get_psn_diff(p.psn, r.psn) = 0
  PROVE  /\ p.wr = Awaited(r, q)[1] /\ p.k = Awaited(r, q)[2]
         /\ p.wr \in 1 .. n /\ p.k \in 0 .. Entries(q.wqe[p.wr]) - 1
         /\ r.psn = q.wqe[p.wr].based_psn + p.k
<1> DEFINE e == q.wqe[p.wr]
           x == e.based_psn + p.k
           i == Awaited(r, q)[1]
           k == Awaited(r, q)[2]
<1>1. /\ p.wr \in 1 .. n /\ p.k \in 0 .. e.wr.pkts - 1 /\ p.psn = Masked(x)
  BY GenuineInLine
<1>2. /\ n \in Nat /\ InitPsn \in Int
      /\ \A j \in 0 .. n : /\ PsnAfter(q, j) \in Int /\ InitPsn <= PsnAfter(q, j)
                           /\ PsnAfter(q, j) <= PsnAfter(q, n)
      /\ 2 * (PsnAfter(q, n) - InitPsn) < PsnMod
  BY LineFits
<1>3. x \in Int /\ InitPsn <= x /\ x < PsnAfter(q, n) /\ PsnAfter(q, n) \in Int
  <2> DEFINE m == p.wr
             l == p.k
  <2>1. m \in 1 .. n /\ l \in 0 .. q.wqe[m].wr.pkts - 1
    BY <1>1
  <2>2. x = q.wqe[m].based_psn + l
    OBVIOUS
  <2> HIDE DEF m, l, x
  <2> QED BY <2>1, <2>2, PlaceInLine
<1>4. r.psn \in Int /\ InitPsn <= r.psn /\ r.psn <= PsnAfter(q, n)
  BY RspInLine
<1>5. x = r.psn
  <2> DEFINE y == r.psn
             z == PsnAfter(q, n)
  <2>1. z \in Int /\ y \in Int /\ InitPsn \in Int /\ PsnMod \in Int
    BY <1>2, <1>3, <1>4, PsnModAssumption
  <2>2. /\ InitPsn <= x /\ x < z /\ InitPsn <= y /\ y <= z
        /\ 2 * (z - InitPsn) < PsnMod
    BY <1>2, <1>3, <1>4
  <2> HIDE DEF x, y, z
  <2>3. 2 * (x - y) < PsnMod /\ -PsnMod < 2 * (x - y)
    BY <1>3, <2>1, <2>2
  <2>4. get_psn_diff(Masked(x), y) = x - y
    BY <1>3, <2>1, <2>3, DiffExact
  <2>5. x - y = 0
    BY <1>1, <2>4 DEF y
  <2> QED BY <1>3, <2>1, <2>5 DEF y
<1>6. \/ r.psn = PsnAfter(q, n)
      \/ /\ i \in 1 .. n /\ k \in 0 .. q.wqe[i].wr.pkts - 1
         /\ k \in 0 .. Entries(q.wqe[i]) - 1
         /\ r.psn = q.wqe[i].based_psn + k
  BY AwaitedPsn
<1> HIDE DEF i, k
<1>7. /\ i \in 1 .. n /\ k \in 0 .. q.wqe[i].wr.pkts - 1
      /\ k \in 0 .. Entries(q.wqe[i]) - 1
      /\ r.psn = q.wqe[i].based_psn + k
  BY <1>3, <1>5, <1>6
<1>8. p.wr = i /\ p.k = k
  <2>1. q.wqe[p.wr].based_psn + p.k = q.wqe[i].based_psn + k
    BY <1>5, <1>7
  <2> DEFINE m == p.wr
             l == p.k
  <2>2. m \in 1 .. n /\ l \in 0 .. q.wqe[m].wr.pkts - 1
    BY <1>1
  <2>3. q.wqe[m].based_psn + l = q.wqe[i].based_psn + k
    BY <2>1
  <2> HIDE DEF m, l
  <2>4. m = i /\ l = k
    BY <1>7, <2>2, <2>3, SamePlace
  <2> QED BY <2>4 DEF m, l
<1> QED BY <1>1, <1>5, <1>7, <1>8 DEF i, k

LEMMA PairParts ==
  ASSUME NEW a, NEW b
  PROVE  <<a, b>>[1] = a /\ <<a, b>>[2] = b
OBVIOUS

LEMMA LogNext ==
  ASSUME NEW q, NEW n, Line(q, n), NEW r, Logged(r, q, n),
         NEW i \in 1 .. n, NEW k \in 0 .. Entries(q.wqe[i]) - 1,
         i = Awaited(r, q)[1], k = Awaited(r, q)[2],
         NEW s, s.log = Append(r.log, <<i, k>>), s.psn \in Int,
         s.psn = PsnPast(q.wqe[i], k)
  PROVE  Logged(s, q, n)
<1> DEFINE L == Len(r.log)
           l == <<i, k>>
<1>1. L \in Nat /\ r.log \in Seq(Nat \X Int) /\ InSequence(r.log, q, n)
  BY DEF Logged
<1>2. n \in Nat /\ i \in Nat /\ k \in Int
  BY ReqFields DEF Line
<1>3. l \in Nat \X Int /\ l[1] = i /\ l[2] = k
  <2>1. l \in Nat \X Int
    BY Zenon, <1>2
  <2>2. l[1] = i /\ l[2] = k
    BY Zenon, PairParts
  <2> QED BY <2>1, <2>2
<1>4. Awaited(r, q) = l
  BY DEF Awaited, Following
<1> HIDE DEF l
<1>5. /\ s.log \in Seq(Nat \X Int) /\ Len(s.log) = L + 1 /\ s.log[L + 1] = l
      /\ \A j \in 1 .. L : s.log[j] = r.log[j]
  BY <1>1, <1>3 DEF l
<1> HIDE DEF L
<1>6. InSequence(s.log, q, n)
  <2> SUFFICES ASSUME NEW j \in 1 .. L + 1
               PROVE  /\ IsEntry(q, n, s.log[j])
                      /\ s.log[j] = IF j = 1 THEN <<1, 0>>
                                    ELSE Following(q, s.log[j - 1])
    BY <1>5 DEF InSequence
  <2>1. CASE j \in 1 .. L
    <3>1. /\ IsEntry(q, n, r.log[j])
          /\ r.log[j] = IF j = 1 THEN <<1, 0>> ELSE Following(q, r.log[j - 1])
      BY <1>1, <2>1 DEF InSequence, L
    <3>2. s.log[j] = r.log[j] /\ (j # 1 => s.log[j - 1] = r.log[j - 1])
      <4>1. j = 1 \/ j - 1 \in 1 .. L
        BY <1>1, <2>1
      <4> QED BY <1>5, <2>1, <4>1
    <3> QED BY <3>1, <3>2
  <2>2. CASE j = L + 1
    <3>1. s.log[j] = l /\ IsEntry(q, n, l)
      BY <1>3, <1>5, <2>2 DEF IsEntry
    <3>2. CASE L = 0
      BY <1>4, <2>2, <3>1, <3>2 DEF Awaited, L
    <3>3. CASE L # 0
      <4>1. j # 1 /\ j - 1 = L /\ L \in 1 .. L
        BY <1>1, <2>2, <3>3
      <4>2. l = Following(q, r.log[L]) /\ s.log[L] = r.log[L]
        BY <1>4, <1>5, <3>3, <4>1 DEF Awaited, L
      <4> QED BY <3>1, <4>1, <4>2
    <3> QED BY <3>2, <3>3
  <2>3. j \in 1 .. L \/ j = L + 1
    BY <1>1
  <2> QED BY <2>1, <2>2, <2>3
<1>7. ASSUME NEW h \in 1 .. i - 1 PROVE Complete(s.log, q, h)
  <2>1. CASE L = 0
    <3>1. l = <<1, 0>>
      BY <1>4, <2>1 DEF Awaited, L
    <3>2. i = 1
      BY <1>3, <3>1
    <3> QED BY <1>7, <3>2
  <2>2. CASE L # 0
    <3> DEFINE a == r.log[L]
    <3>1. /\ l = Following(q, a) /\ IsEntry(q, n, a) /\ L \in 1 .. L
      <4>1. L \in 1 .. L
        BY <1>1, <2>2
      <4>2. IsEntry(q, n, a)
        BY <1>1, <4>1 DEF L, InSequence
      <4> QED BY <1>4, <2>2, <4>1, <4>2 DEF Awaited, L
    <3>2. \A g \in 1 .. a[1] - 1 : Complete(r.log, q, g)
      BY <2>2 DEF Logged, L
    <3>3. a \in Nat \X Int
      BY <1>1, <3>1 DEF L
    <3> HIDE DEF a
    <3>4. a[1] \in Nat /\ a[2] \in Int /\ a = <<a[1], a[2]>>
      BY <3>3
    <3>5. CASE h \in 1 .. a[1] - 1
      <4>1. PICK j \in 1 .. L : r.log[j] = <<h, Entries(q.wqe[h]) - 1>>
        BY <3>2, <3>5 DEF Complete, L
      <4>2. j \in 1 .. L + 1 /\ s.log[j] = r.log[j]
        BY <1>1, <1>5
      <4> QED BY <1>5, <4>1, <4>2 DEF Complete
    <3>6. CASE h \notin 1 .. a[1] - 1
      <4>1. l[1] = a[1] + 1 /\ ~(a[2] + 1 < Entries(q.wqe[a[1]])) /\ h = a[1]
        <5>1. l[1] = a[1] \/ l[1] = a[1] + 1
          BY <3>1 DEF Following
        <5>2. a[1] \in 1 .. n
          BY <3>1 DEF IsEntry
        <5>3. l[1] = a[1] + 1 /\ h = a[1]
          BY <1>2, <1>3, <1>7, <3>4, <3>6, <5>1, <5>2
        <5>4. a[2] + 1 < Entries(q.wqe[a[1]]) => l[1] = a[1]
          BY <3>1 DEF Following
        <5> QED BY <3>4, <5>3, <5>4
      <4>2. Entries(q.wqe[a[1]]) \in Int
        <5>1. a[1] \in 1 .. n
          BY <3>1 DEF IsEntry
        <5>2. q.wqe[a[1]].wr.pkts \in Nat
          BY <5>1, LineWqe
        <5> QED BY <5>2 DEF Entries
      <4>3. a[2] = Entries(q.wqe[h]) - 1
        BY <3>1, <3>4, <4>1, <4>2 DEF IsEntry
      <4>4. L \in 1 .. L + 1 /\ s.log[L] = <<h, Entries(q.wqe[h]) - 1>>
        <5>1. L \in 1 .. L + 1 /\ s.log[L] = a
          BY <1>1, <1>5, <3>1 DEF a
        <5>2. a[1] = h /\ a = <<a[1], a[2]>>
          BY <3>4, <4>1
        <5> QED BY <4>3, <5>1, <5>2
      <4> QED BY <1>5, <4>4 DEF Complete
    <3> QED BY <3>5, <3>6
  <2> QED BY <2>1, <2>2
<1>8. Len(s.log) # 0 /\ Len(s.log) = L + 1 /\ s.log[Len(s.log)] = l
  BY <1>1, <1>5
<1>9. s.psn = PsnPast(q.wqe[l[1]], l[2]) /\ l[1] = i
  BY <1>3
<1> QED BY <1>5, <1>6, <1>7, <1>8, <1>9 DEF Logged

(* What the responder does with a request packet: nothing that shows in    *)
(* its PSN and its log, or it executes the packet.                         *)
Stands(r, s) == s.psn = r.psn /\ s.log = r.log
Executes(r, s, p) ==
  /\ get_psn_diff(p.psn, r.psn) = 0 /\ p.op # "CNP"
  /\ s.log = Append(r.log, <<p.wr, p.k>>)
  /\ s.psn = r.psn + IF p.op = "READ_REQUEST" THEN p.dmalen ELSE 1

LEMMA ExecutesLogged ==
  ASSUME NEW q, NEW n, Line(q, n), Len(q.wqe) <= MaxWR, NEW P, PsnsFit(P),
         NEW r, Logged(r, q, n), NEW p \in Requests(q), NEW s,
         Stands(r, s) \/ Executes(r, s, p)
  PROVE  Logged(s, q, n)
<1>1. CASE Stands(r, s)
  BY <1>1 DEF Stands, Logged
<1>2. CASE Executes(r, s, p)
  <2> DEFINE i == p.wr
             k == p.k
             e == q.wqe[i]
  <2>1. /\ i = Awaited(r, q)[1] /\ k = Awaited(r, q)[2] /\ i \in 1 .. n
        /\ k \in 0 .. Entries(e) - 1 /\ r.psn = e.based_psn + k
    BY <1>2, NewIsAwaited DEF Executes
  <2>2. /\ (p.op = "READ_REQUEST" <=> e.wr.op = "READ")
        /\ p.dmalen = IF e.wr.op = "READ" THEN e.wr.pkts - k ELSE e.wr.pkts
    BY <1>2, GenuineInLine DEF Executes
  <2>3. /\ s.log = Append(r.log, <<i, k>>)
        /\ s.psn = r.psn + IF e.wr.op = "READ" THEN e.wr.pkts - k ELSE 1
    BY <1>2, <2>2 DEF Executes
  <2>4. /\ e.wr.pkts \in Nat /\ e.based_psn \in Int
        /\ e.expected_psn = e.based_psn + e.wr.pkts
    <3>1. i \in 1 .. n
      BY <2>1
    <3> HIDE DEF i
    <3>2. /\ q.wqe[i].wr.pkts \in Nat
          /\ q.wqe[i].based_psn = PsnAfter(q, i - 1)
          /\ q.wqe[i].expected_psn = PsnAfter(q, i)
          /\ PsnAfter(q, i) = PsnAfter(q, i - 1) + q.wqe[i].wr.pkts
          /\ PsnAfter(q, i - 1) \in Int
      BY <3>1, LineWqe
    <3> QED BY <3>2
  <2> HIDE DEF i, k, e
  <2>5. s.psn = PsnPast(e, k) /\ s.psn \in Int
    <3>1. CASE e.wr.op = "READ"
      <4>1. k = 0
        BY <2>1, <3>1 DEF Entries
      <4> QED BY <2>1, <2>3, <2>4, <3>1, <4>1 DEF PsnPast
    <3>2. CASE e.wr.op # "READ"
      <4>1. k \in Int
        BY <2>1
      <4> QED BY <2>1, <2>3, <2>4, <3>2, <4>1 DEF PsnPast
    <3> QED BY <3>1, <3>2
  <2>6. k \in 0 .. Entries(q.wqe[i]) - 1 /\ s.psn = PsnPast(q.wqe[i], k)
    BY <2>1, <2>5 DEF e
  <2> QED BY <2>1, <2>3, <2>5, <2>6, LogNext
<1> QED BY <1>1, <1>2

-----------------------------------------------------------------------------
(* Operations of the responder that execute nothing and send nothing.      *)
Idles(r, s) == Stands(r, s) /\ s.tx = r.tx

LEMMA StandsTrans ==
  ASSUME NEW r, NEW s, NEW t, Stands(r, s), Stands(s, t)
  PROVE  Stands(r, t)
BY DEF Stands

LEMMA IdlesTrans ==
  ASSUME NEW r, NEW s, NEW t, Idles(r, s), Idles(s, t)
  PROVE  Idles(r, t)
BY DEF Idles, Stands

LEMMA reschedule_rspIdles ==
  ASSUME NEW r \in RspType
  PROVE  Idles(r, reschedule_rsp(r))
BY DEF Idles, Stands, reschedule_rsp, RspType

LEMMA insert_recv_wcIdles ==
  ASSUME NEW r \in RspType, NEW id, NEW status, NEW data
  PROVE  Idles(r, insert_recv_wc(r, id, status, data))
BY DEF Idles, Stands, insert_recv_wc, RspType

LEMMA TakeRwqeIdles ==
  ASSUME NEW r \in RspType, r.rq # <<>>, NEW status \in Statuses,
         NEW data \in Seq(Nat \X Int)
  PROVE  Idles(r, [insert_recv_wc(r, Head(r.rq).id, status, data)
                     EXCEPT !.rq = Tail(@)])
<1> DEFINE s == insert_recv_wc(r, Head(r.rq).id, status, data)
           t == Tail(s.rq)
<1>1. s \in RspType /\ Idles(r, s)
  BY HeadRq, insert_recv_wcType, insert_recv_wcIdles
<1> HIDE DEF s, t
<1>2. Idles(s, [s EXCEPT !.rq = t])
  BY <1>1 DEF Idles, Stands, RspType
<1>3. Idles(r, [s EXCEPT !.rq = t])
  BY <1>1, <1>2, IdlesTrans
<1> QED BY <1>3 DEF s, t

LEMMA FailRwqeIdles ==
  ASSUME NEW r \in RspType, r.rq # <<>>, NEW status \in Statuses
  PROVE  Idles(r, FailRwqe(r, status))
<1>1. <<>> \in Seq(Nat \X Int)
  OBVIOUS
<1> QED BY <1>1, TakeRwqeIdles DEF FailRwqe

LEMMA CompleteRwqeIdles ==
  ASSUME NEW r \in RspType, r.rq # <<>>
  PROVE  Idles(r, CompleteRwqe(r))
<1>1. r.data \in Seq(Nat \X Int) /\ "SUCCESS" \in Statuses
  BY RspFields DEF Statuses
<1> QED BY <1>1, TakeRwqeIdles DEF CompleteRwqe

LEMMA flush_rspIdles ==
  ASSUME NEW r \in RspType
  PROVE  Idles(r, flush_rsp(r))
<1> DEFINE wcs == [i \in DOMAIN r.rq |->
                     [wr |-> r.rq[i].id, status |-> "WR_FLUSH_ERR", data |-> <<>>]]
           b == /\ "ERR" = "RTS" /\ <<>> # <<>>
                /\ r.nr_contig_read_acks < MaxContigReads
           s == [r EXCEPT !.state = "ERR", !.rq = <<>>, !.acks = <<>>,
                          !.nr_rd_atomic = 0, !.cq = @ \o wcs]
           t == reschedule_rsp(s)
<1>1. flush_rsp(r) = [t EXCEPT !.nr_contig_read_acks = 0]
  BY DEF flush_rsp
<1> HIDE DEF wcs
<1>2. /\ s.psn = r.psn /\ s.log = r.log /\ s.tx = r.tx
      /\ DOMAIN s = DOMAIN r
  BY DEF RspType
<1> HIDE DEF s
<1>3. t.psn = s.psn /\ t.log = s.log /\ t.tx = s.tx /\ DOMAIN t = DOMAIN s
  BY <1>2 DEF reschedule_rsp, RspType
<1> HIDE DEF t
<1>4. /\ flush_rsp(r).psn = t.psn /\ flush_rsp(r).log = t.log
      /\ flush_rsp(r).tx = t.tx
  BY <1>1, <1>2, <1>3 DEF RspType
<1> QED BY <1>2, <1>3, <1>4 DEF Idles, Stands

LEMMA insert_async_qp_errorIdles ==
  ASSUME NEW r \in RspType
  PROVE  /\ Idles(r, flush_rsp(abort_active_rwqe(r)))
         /\ Idles(r, insert_async_qp_error(r))
<1> DEFINE s == abort_active_rwqe(r)
<1>1. s \in RspType /\ Idles(r, s)
  <2>1. CASE r.rq = <<>> \/ r.data = <<>>
    BY <2>1 DEF abort_active_rwqe, Idles, Stands
  <2>2. CASE ~(r.rq = <<>> \/ r.data = <<>>)
    <3>1. "GENERAL_ERR" \in Statuses /\ s = FailRwqe(r, "GENERAL_ERR")
      BY <2>2 DEF Statuses, abort_active_rwqe
    <3> HIDE DEF s
    <3> QED BY <2>2, <3>1, FailRwqeIdles, FailRwqeType
  <2> QED BY <2>1, <2>2
<1> HIDE DEF s
<1>2. Idles(r, flush_rsp(s))
  BY <1>1, flush_rspIdles, IdlesTrans
<1> QED BY <1>2 DEF s, insert_async_qp_error

LEMMA CompletionErrorRspIdles ==
  ASSUME NEW r \in RspType, r.rq # <<>>, NEW status \in Statuses
  PROVE  Idles(r, CompletionErrorRsp(r, status))
<1> DEFINE s == FailRwqe(r, status)
<1>1. s \in RspType /\ Idles(r, s)
  BY FailRwqeType, FailRwqeIdles
<1> HIDE DEF s
<1>2. Idles(r, flush_rsp(s))
  BY <1>1, flush_rspIdles, IdlesTrans
<1> QED BY <1>2 DEF s, CompletionErrorRsp

LEMMA push_acknowledgeIdles ==
  ASSUME NEW r \in RspType, NEW psn \in Int, NEW synd \in Syndromes
  PROVE  Idles(r, push_acknowledge(r, psn, synd))
<1> DEFINE n  == Len(r.acks)
           a  == NewAck("NORMAL", psn, psn + 1)
           k1 == [r.acks EXCEPT ![n] = a]
           k2 == Append(r.acks, [a EXCEPT !.synd = synd])
           c  == IF synd = "ACK" THEN r.nr_contig_read_acks ELSE 0
           r1 == [r EXCEPT !.acks = k1]
           r2 == [r EXCEPT !.acks = k2, !.nr_contig_read_acks = c]
           p  == push_acknowledge(r, psn, synd)
<1>1. p = r \/ p = r1 \/ p = r2
  BY DEF push_acknowledge
<1> HIDE DEF k1, k2, c, p
<1>2. Idles(r, r) /\ Idles(r, r1) /\ Idles(r, r2)
  BY DEF Idles, Stands, RspType
<1> HIDE DEF r1, r2
<1>3. Idles(r, p)
  BY <1>1, <1>2
<1> QED BY <1>3 DEF p

LEMMA RefuseIdles ==
  ASSUME NEW r \in RspType, NEW psn \in Int, NEW synd \in Syndromes
  PROVE  Idles(r, Refuse(r, psn, synd))
<1> DEFINE p == push_acknowledge(r, psn, synd)
<1>1. Idles(r, p) /\ p \in RspType
  BY push_acknowledgeIdles, push_acknowledgeType
<1> HIDE DEF p
<1>2. Idles(p, insert_async_qp_error(p))
  BY <1>1, insert_async_qp_errorIdles
<1>3. Idles(r, insert_async_qp_error(p))
  BY <1>1, <1>2, IdlesTrans
<1> QED BY <1>3 DEF Refuse, p

LEMMA RemoveOverlappedIdles ==
  ASSUME NEW r \in RspType, NEW psn, NEW expected_psn
  PROVE  Idles(r, remove_overlapped_rdma_read_acknowledge(r, psn, expected_psn))
<1> DEFINE gone == Overlapped(r, psn, expected_psn)
           k == Without(r.acks, gone)
           n == r.nr_rd_atomic - Cardinality({i \in gone : IsRdAtomicAck(r.acks[i])})
           p == [r EXCEPT !.acks = k, !.nr_rd_atomic = n]
<1>1. remove_overlapped_rdma_read_acknowledge(r, psn, expected_psn) = p
  BY DEF remove_overlapped_rdma_read_acknowledge
<1> HIDE DEF k, n
<1>2. Idles(r, p)
  BY DEF Idles, Stands, RspType
<1> QED BY <1>1, <1>2

LEMMA push_atomic_acknowledgeIdles ==
  ASSUME NEW r \in RspType, NEW psn, NEW res
  PROVE  Idles(r, push_atomic_acknowledge(r, psn, res))
<1> DEFINE k == Append(r.acks, [NewAck("ATOMIC", psn, psn + 1) EXCEPT !.res = res])
           n == r.nr_rd_atomic + 1
           p == [r EXCEPT !.acks = k, !.nr_rd_atomic = n]
<1>1. push_atomic_acknowledge(r, psn, res) = p
  BY DEF push_atomic_acknowledge
<1> HIDE DEF k, n
<1>2. Idles(r, p)
  BY DEF Idles, Stands, RspType
<1> QED BY <1>1, <1>2

LEMMA push_rdma_read_acknowledgeIdles ==
  ASSUME NEW r \in RspType, NEW p, NEW expected_psn
  PROVE  Idles(r, push_rdma_read_acknowledge(r, p, expected_psn))
<1> DEFINE k == Append(r.acks, [NewAck("READ", p.psn, expected_psn) EXCEPT
                                  !.wr = p.wr, !.k = p.k, !.size = p.dmalen])
           n == r.nr_rd_atomic + 1
           s == [r EXCEPT !.acks = k, !.nr_rd_atomic = n]
<1>1. push_rdma_read_acknowledge(r, p, expected_psn) = s
  BY DEF push_rdma_read_acknowledge
<1> HIDE DEF k, n
<1>2. Idles(r, s)
  BY DEF Idles, Stands, RspType
<1> QED BY <1>1, <1>2

LEMMA ArriveIdles ==
  ASSUME NEW r \in RspType, NEW p
  PROVE  Idles(r, [r EXCEPT !.data = Append(@, <<p.wr, p.k>>)])
<1> DEFINE d == Append(r.data, <<p.wr, p.k>>)
           s == [r EXCEPT !.data = d]
<1>1. [r EXCEPT !.data = Append(@, <<p.wr, p.k>>)] = s
  OBVIOUS
<1> HIDE DEF d
<1>2. Idles(r, s)
  BY DEF Idles, Stands, RspType
<1> QED BY <1>1, <1>2

LEMMA RememberSlotIdles ==
  ASSUME NEW r \in RspType, NEW p, NEW n, NEW res
  PROVE  Idles(r, RememberSlot(r, p, n, res))
<1> DEFINE slot == [op |-> p.op, psn |-> r.psn, expected_psn |-> r.psn + n,
                    wr |-> p.wr, k |-> p.k, dmalen |-> p.dmalen, res |-> res]
           all  == <<slot>> \o r.slots
           l    == IF Len(all) <= MaxDestRdAtomic THEN all
                   ELSE SubSeq(all, 1, MaxDestRdAtomic)
           s    == [r EXCEPT !.slots = l]
<1>1. RememberSlot(r, p, n, res) = s
  BY DEF RememberSlot
<1> HIDE DEF l
<1>2. Idles(r, s)
  BY DEF Idles, Stands, RspType
<1> QED BY <1>1, <1>2

LEMMA AnswerReadIdles ==
  ASSUME NEW r \in RspType, NEW p \in RequestType, NEW expected_psn \in Int
  PROVE  Idles(r, AnswerRead(r, p, expected_psn))
<1> DEFINE b == remove_overlapped_rdma_read_acknowledge(r, p.psn, expected_psn)
           a == push_rdma_read_acknowledge(b, p, expected_psn)
           z == 0
           s == [a EXCEPT !.nr_contig_read_acks = z]
<1>1. AnswerRead(r, p, expected_psn) = s
  BY DEF AnswerRead
<1>2. Idles(r, b) /\ b \in RspType
  BY RemoveOverlappedType, RemoveOverlappedIdles
<1> HIDE DEF b
<1>3. Idles(b, a) /\ a \in RspType
  BY <1>2, push_rdma_read_acknowledgeType, push_rdma_read_acknowledgeIdles
<1> HIDE DEF a, z
<1>4. Idles(a, s)
  BY <1>3 DEF Idles, Stands, RspType
<1> HIDE DEF s
<1>5. Idles(r, s)
  BY <1>2, <1>3, <1>4, IdlesTrans
<1> QED BY <1>1, <1>5

LEMMA receive_retried_RDMA_READ_requestIdles ==
  ASSUME NEW r \in RspType, NEW p \in RequestType, NEW slot \in SlotType
  PROVE  Idles(r, receive_retried_RDMA_READ_request(r, p, slot))
<1> DEFINE offset == get_psn_diff(p.psn, slot.psn)
           r1 == remove_overlapped_rdma_read_acknowledge(r, p.psn,
                                                         slot.expected_psn)
           res == receive_retried_RDMA_READ_request(r, p, slot)
<1>1. /\ p.psn \in Int /\ slot.expected_psn \in Int
      /\ {"INV_REQ", "REM_ACCESS"} \subseteq Syndromes
  BY RequestFields, SyndromeNames DEF SlotType
<1>2. \/ res = Refuse(r, p.psn, "REM_ACCESS")
      \/ res = Refuse(r, p.psn, "INV_REQ")
      \/ res = Refuse(r1, p.psn, "INV_REQ")
      \/ res = AnswerRead(r, p, slot.expected_psn)
  <2>1. res =
      IF ~(p.rkey /\ r.mr) THEN Refuse(r, p.psn, "REM_ACCESS")
      ELSE IF \/ slot.wr # p.wr \/ slot.k + offset # p.k
              \/ slot.dmalen - offset # p.dmalen
           THEN Refuse(r, p.psn, "INV_REQ")
      ELSE IF MaxDestRdAtomic <= r1.nr_rd_atomic THEN Refuse(r1, p.psn, "INV_REQ")
      ELSE AnswerRead(r, p, slot.expected_psn)
    BY Zenon DEF receive_retried_RDMA_READ_request
  <2> HIDE DEF offset, r1, res
  <2> QED BY <2>1
<1>3. r1 \in RspType /\ Idles(r, r1)
  BY RemoveOverlappedType, RemoveOverlappedIdles
<1> HIDE DEF r1, res
<1>4. /\ Idles(r, Refuse(r, p.psn, "REM_ACCESS"))
      /\ Idles(r, Refuse(r, p.psn, "INV_REQ"))
      /\ Idles(r1, Refuse(r1, p.psn, "INV_REQ"))
  BY <1>1, <1>3, RefuseIdles
<1>5. Idles(r, Refuse(r1, p.psn, "INV_REQ"))
  BY <1>3, <1>4, IdlesTrans
<1>6. Idles(r, AnswerRead(r, p, slot.expected_psn))
  BY <1>1, AnswerReadIdles
<1>7. Idles(r, res)
  BY <1>2, <1>4, <1>5, <1>6
<1> QED BY <1>7 DEF res

LEMMA receive_duplicateIdles ==
  ASSUME NEW r \in RspType, NEW p \in RequestType
  PROVE  Idles(r, receive_duplicate(r, p))
<1> DEFINE hits == {i \in DOMAIN r.slots :
                      /\ r.slots[i].op = p.op
                      /\ InPsnRange(p.psn, r.slots[i].psn,
                                    r.slots[i].expected_psn)}
           slot == r.slots[Min(hits)]
<1>1. p.psn \in Int /\ {"ACK", "INV_REQ"} \subseteq Syndromes
  BY RequestFields, SyndromeNames
<1>2. \/ receive_duplicate(r, p) = push_acknowledge(r, p.psn, "ACK")
      \/ receive_duplicate(r, p) = Refuse(r, p.psn, "INV_REQ")
      \/ hits # {} /\
           \/ receive_duplicate(r, p) = receive_retried_RDMA_READ_request(r, p, slot)
           \/ receive_duplicate(r, p) = receive_retried_Atomic_request(r, p, slot)
  <2>1. receive_duplicate(r, p) =
      IF p.op \notin AtomicOpcodes \cup {"READ_REQUEST"}
      THEN push_acknowledge(r, p.psn, "ACK")
      ELSE IF hits = {} THEN Refuse(r, p.psn, "INV_REQ")
      ELSE IF p.op = "READ_REQUEST"
           THEN receive_retried_RDMA_READ_request(r, p, slot)
      ELSE receive_retried_Atomic_request(r, p, slot)
    BY Zenon DEF receive_duplicate
  <2> HIDE DEF hits, slot
  <2> QED BY <2>1
<1>3. ASSUME hits # {} PROVE slot \in SlotType
  <2> DEFINE l == r.slots
  <2>1. l \in Seq(SlotType)
    BY DEF RspType, SlotType
  <2>2. DOMAIN l = 1 .. Len(l) /\ Len(l) \in Nat
    <3> HIDE DEF l
    <3> QED BY <2>1
  <2>3. hits \subseteq 1 .. Len(l)
    BY <2>2
  <2> HIDE DEF l, hits
  <2>4. hits \subseteq Nat
    BY <2>2, <2>3
  <2>5. Min(hits) \in 1 .. Len(l)
    BY <1>3, <2>3, <2>4, MinIsElement
  <2>6. l[Min(hits)] \in SlotType
    BY <2>1, <2>5
  <2> QED BY <2>6 DEF l
<1> HIDE DEF hits, slot
<1>4. ASSUME hits # {}
      PROVE  /\ Idles(r, receive_retried_RDMA_READ_request(r, p, slot))
             /\ Idles(r, receive_retried_Atomic_request(r, p, slot))
  BY <1>3, <1>4, receive_retried_RDMA_READ_requestIdles,
     push_atomic_acknowledgeIdles DEF receive_retried_Atomic_request
<1>5. /\ Idles(r, push_acknowledge(r, p.psn, "ACK"))
      /\ Idles(r, Refuse(r, p.psn, "INV_REQ"))
  BY <1>1, push_acknowledgeIdles, RefuseIdles
<1> QED BY <1>2, <1>4, <1>5

-----------------------------------------------------------------------------
(* New requests: executed, or refused without a trace.                     *)
Length(p) == IF p.op = "READ_REQUEST" THEN p.dmalen ELSE 1

Runs(r, s, p) ==
  \/ Idles(r, s)
  \/ /\ s.log = Append(r.log, <<p.wr, p.k>>) /\ s.psn = r.psn + Length(p)
     /\ s.tx = r.tx

LEMMA AcceptRuns ==
  ASSUME NEW r, NEW s \in RspType, Idles(r, s), NEW p, NEW n, n = Length(p)
  PROVE  Runs(r, Accept(s, p, n), p)
<1> DEFINE l == Append(s.log, <<p.wr, p.k>>)
           m == s.psn + n
           t == [s EXCEPT !.psn = m, !.last_OpCode = p.op, !.log = l]
<1>1. Accept(s, p, n) = t
  BY DEF Accept
<1>2. l = Append(r.log, <<p.wr, p.k>>) /\ m = r.psn + Length(p) /\ s.tx = r.tx
  BY DEF Idles, Stands
<1> HIDE DEF l, m
<1>3. t.log = l /\ t.psn = m /\ t.tx = s.tx
  BY DEF RspType
<1> QED BY <1>1, <1>2, <1>3 DEF Runs

LEMMA RunsTrans ==
  ASSUME NEW r, NEW s, Idles(r, s), NEW t, NEW p, Runs(s, t, p)
  PROVE  Runs(r, t, p)
BY DEF Idles, Stands, Runs

LEMMA ExecuteRuns ==
  ASSUME NEW r \in RspType, NEW s \in RspType, Idles(r, s), NEW p \in RequestType,
         Length(p) = 1
  PROVE  Runs(r, Accept(push_acknowledge(s, p.psn, "ACK"), p, 1), p)
<1> DEFINE a == push_acknowledge(s, p.psn, "ACK")
<1>1. p.psn \in Int /\ "ACK" \in Syndromes
  BY RequestFields, SyndromeNames
<1>2. Idles(s, a) /\ a \in RspType
  BY <1>1, push_acknowledgeIdles, push_acknowledgeType
<1> HIDE DEF a
<1>3. Idles(r, a)
  BY <1>2, IdlesTrans
<1>4. Runs(r, Accept(a, p, 1), p)
  BY <1>2, <1>3, AcceptRuns
<1> QED BY <1>4 DEF a

LEMMA receive_SEND_packetRuns ==
  ASSUME NEW r \in RspType, NEW p \in RequestType, p.op \in RequestOpcodes,
         Length(p) = 1
  PROVE  Runs(r, receive_SEND_packet(r, p), p)
<1> DEFINE r1 == [r EXCEPT !.data = Append(@, <<p.wr, p.k>>)]
           r2 == IF IsFinit(p.op) THEN CompleteRwqe(r1) ELSE r1
           nak == push_acknowledge(r, p.psn, "REM_OP")
<1>1. p.psn \in Int /\ {"ACK", "RNR", "REM_OP"} \subseteq Syndromes
  BY RequestFields, SyndromeNames
<1>2. r1 \in RspType /\ r1.rq = r.rq /\ Idles(r, r1)
  BY ArriveType, ArriveIdles
<1>3. /\ nak \in RspType /\ nak.rq = r.rq /\ Idles(r, nak)
      /\ Idles(r, push_acknowledge(r, p.psn, "RNR"))
  BY <1>1, push_acknowledgeType, push_acknowledgeIdles
<1>4. \/ receive_SEND_packet(r, p) = push_acknowledge(r, p.psn, "RNR")
      \/ r.rq # <<>> /\
           \/ receive_SEND_packet(r, p) = CompletionErrorRsp(nak, "LOC_PROT_ERR")
           \/ receive_SEND_packet(r, p) = CompletionErrorRsp(r, "MW_BIND_ERR")
           \/ receive_SEND_packet(r, p)
                = Accept(push_acknowledge(r2, p.psn, "ACK"), p, 1)
  <2>1. receive_SEND_packet(r, p) =
          IF r.rq = <<>> THEN push_acknowledge(r, p.psn, "RNR")
          ELSE IF Head(r.rq).size < Len(r.data) + 1
               THEN CompletionErrorRsp(nak, "LOC_PROT_ERR")
          ELSE IF WithInv(p.op) THEN CompletionErrorRsp(r, "MW_BIND_ERR")
          ELSE Accept(push_acknowledge(r2, p.psn, "ACK"), p, 1)
    BY Zenon DEF receive_SEND_packet
  <2> HIDE DEF r2, nak
  <2> QED BY <2>1
<1>5. ASSUME r.rq # <<>>
      PROVE  /\ Idles(r, CompletionErrorRsp(nak, "LOC_PROT_ERR"))
             /\ Idles(r, CompletionErrorRsp(r, "MW_BIND_ERR"))
             /\ Runs(r, Accept(push_acknowledge(r2, p.psn, "ACK"), p, 1), p)
  <2> HIDE DEF r1, nak
  <2>1. "LOC_PROT_ERR" \in Statuses /\ "MW_BIND_ERR" \in Statuses
    BY DEF Statuses
  <2>2. /\ Idles(nak, CompletionErrorRsp(nak, "LOC_PROT_ERR"))
        /\ Idles(r, CompletionErrorRsp(r, "MW_BIND_ERR"))
    BY <1>3, <1>5, <2>1, CompletionErrorRspIdles
  <2>3. Idles(r, CompletionErrorRsp(nak, "LOC_PROT_ERR"))
    BY <1>3, <2>2, IdlesTrans
  <2>4. Idles(r, r2) /\ r2 \in RspType
    <3>1. Idles(r1, CompleteRwqe(r1)) /\ CompleteRwqe(r1) \in RspType
      BY <1>2, <1>5, CompleteRwqeIdles, CompleteRwqeType
    <3>2. Idles(r, CompleteRwqe(r1))
      BY <1>2, <3>1, IdlesTrans
    <3> QED BY <1>2, <3>1, <3>2
  <2> HIDE DEF r2
  <2> QED BY <2>2, <2>3, <2>4, ExecuteRuns
<1> HIDE DEF r2, nak
<1> QED BY <1>3, <1>4, <1>5 DEF Runs

LEMMA receive_SEND_requestRuns ==
  ASSUME NEW r \in RspType, NEW p \in RequestType, p.op \in RequestOpcodes,
         Length(p) = 1
  PROVE  Runs(r, receive_SEND_request(r, p), p)
<1> DEFINE e  == <<>>
           r1 == [r EXCEPT !.data = e]
<1>1. e \in Seq(PacketId)
  OBVIOUS
<1>2. \/ receive_SEND_request(r, p) = receive_SEND_packet(r1, p)
      \/ receive_SEND_request(r, p) = receive_SEND_packet(r, p)
  BY DEF receive_SEND_request
<1> HIDE DEF e
<1>3. r1 \in RspType /\ Idles(r, r1)
  <2>1. r1 \in RspType
    BY <1>1 DEF RspType, PacketId
  <2>2. Idles(r, r1)
    BY DEF RspType, Idles, Stands
  <2> QED BY <2>1, <2>2
<1> HIDE DEF r1
<1>4. Runs(r1, receive_SEND_packet(r1, p), p)
  BY <1>3, receive_SEND_packetRuns
<1>5. Runs(r, receive_SEND_packet(r1, p), p)
  BY <1>3, <1>4, RunsTrans
<1> QED BY <1>2, <1>5, receive_SEND_packetRuns

LEMMA receive_RDMA_WRITE_requestRuns ==
  ASSUME NEW r0 \in RspType, NEW p \in RequestType, p.op \in RequestOpcodes,
         Length(p) = 1
  PROVE  Runs(r0, receive_RDMA_WRITE_request(r0, p), p)
<1> DEFINE e  == <<>>
           ri == [r0 EXCEPT !.data = e, !.write_rkey = p.rkey,
                            !.write_dmalen = p.dmalen]
           r  == IF IsInit(p.op) THEN ri ELSE r0
           r1 == [r EXCEPT !.data = Append(@, <<p.wr, p.k>>)]
           r2 == IF WithImm(p.op) THEN CompleteRwqe(r1) ELSE r1
           nak == push_acknowledge(r, p.psn, "REM_ACCESS")
           res == receive_RDMA_WRITE_request(r0, p)
<1>1. /\ p.psn \in Int /\ p.rkey \in BOOLEAN /\ p.dmalen \in Int
      /\ {"ACK", "RNR", "INV_REQ", "REM_ACCESS"} \subseteq Syndromes
      /\ "LOC_PROT_ERR" \in Statuses
  BY RequestFields, SyndromeNames DEF Statuses
<1>2. \/ res = push_acknowledge(r, p.psn, "RNR")
      \/ res = Refuse(r, p.psn, "INV_REQ")
      \/ WithImm(p.op) /\ r.rq # <<>> /\ res = CompletionErrorRsp(nak, "LOC_PROT_ERR")
      \/ res = flush_rsp(abort_active_rwqe(nak))
      \/ /\ WithImm(p.op) => r.rq # <<>>
         /\ res = Accept(push_acknowledge(r2, p.psn, "ACK"), p, 1)
  <2>1. res =
      IF WithImm(p.op) /\ r.rq = <<>> THEN push_acknowledge(r, p.psn, "RNR")
      ELSE IF \/ r.write_dmalen < Len(r.data) + 1
              \/ IsFinit(p.op) /\ r.write_dmalen # Len(r.data) + 1
           THEN Refuse(r, p.psn, "INV_REQ")
      ELSE IF ~(r.write_rkey /\ r.mr)
           THEN IF WithImm(p.op) THEN CompletionErrorRsp(nak, "LOC_PROT_ERR")
                ELSE flush_rsp(abort_active_rwqe(nak))
      ELSE Accept(push_acknowledge(r2, p.psn, "ACK"), p, 1)
    BY Zenon DEF receive_RDMA_WRITE_request
  <2> HIDE DEF r, r1, r2, nak, res
  <2>2. CASE WithImm(p.op) /\ r.rq = <<>>
    BY <2>1, <2>2
  <2>3. CASE ~(WithImm(p.op) /\ r.rq = <<>>)
    BY <2>1, <2>3
  <2> QED BY <2>2, <2>3
<1>3. e \in Seq(PacketId)
  OBVIOUS
<1> HIDE DEF e
<1>4. ri \in RspType
  BY <1>1, <1>3 DEF RspType, PacketId
<1>5. Idles(r0, ri)
  BY DEF RspType, Idles, Stands
<1> HIDE DEF ri
<1>6. Idles(r0, r) /\ r \in RspType
  BY <1>4, <1>5 DEF Idles, Stands
<1> HIDE DEF r
<1>7. r1 \in RspType /\ r1.rq = r.rq /\ Idles(r, r1)
  BY <1>6, ArriveType, ArriveIdles
<1>8. /\ nak \in RspType /\ nak.rq = r.rq /\ Idles(r, nak)
      /\ Idles(r, push_acknowledge(r, p.psn, "RNR"))
  BY <1>1, <1>6, push_acknowledgeType, push_acknowledgeIdles
<1>9. Idles(r, Refuse(r, p.psn, "INV_REQ"))
  BY <1>1, <1>6, RefuseIdles
<1> HIDE DEF r1, nak
<1>10. Idles(r, flush_rsp(abort_active_rwqe(nak)))
  BY <1>8, insert_async_qp_errorIdles, IdlesTrans
<1>11. r.rq # <<>> => Idles(r, CompletionErrorRsp(nak, "LOC_PROT_ERR"))
  BY <1>1, <1>8, CompletionErrorRspIdles, IdlesTrans
<1>12. ASSUME WithImm(p.op) => r.rq # <<>>
       PROVE  Runs(r, Accept(push_acknowledge(r2, p.psn, "ACK"), p, 1), p)
  <2>1. Idles(r, r2) /\ r2 \in RspType
    <3>1. WithImm(p.op) => Idles(r1, CompleteRwqe(r1)) /\ CompleteRwqe(r1) \in RspType
      BY <1>7, <1>12, CompleteRwqeIdles, CompleteRwqeType
    <3>2. WithImm(p.op) => Idles(r, CompleteRwqe(r1))
      BY <1>7, <3>1, IdlesTrans
    <3> QED BY <1>7, <3>1, <3>2
  <2> HIDE DEF r2
  <2> QED BY <1>6, <2>1, ExecuteRuns
<1> HIDE DEF r2, res
<1>13. Runs(r, res, p)
  BY <1>2, <1>8, <1>9, <1>10, <1>11, <1>12 DEF Runs
<1>14. Runs(r0, res, p)
  BY <1>6, <1>13, RunsTrans
<1> QED BY <1>14 DEF res

LEMMA receive_Atomic_requestRuns ==
  ASSUME NEW r \in RspType, NEW p \in RequestType, p.op \in RequestOpcodes,
         Length(p) = 1
  PROVE  Runs(r, receive_Atomic_request(r, p), p)
<1> DEFINE direction == IF IB_OPCODE_RC[p.op] = IB_WR_ATOMIC_CMP_AND_SWP
                        THEN "CAS" ELSE "FETCHADD"
           s  == RememberSlot(r, p, 1, r.word)
           w  == mr_copy_data_sub(s.word, direction, CompareAdd(p.op))
           r1 == [s EXCEPT !.word = w]
<1>1. r.word \in Int /\ p.psn \in Int /\ {"INV_REQ", "REM_ACCESS"} \subseteq Syndromes
  BY RspFields, RequestFields, SyndromeNames
<1>2. \/ receive_Atomic_request(r, p) = Refuse(r, p.psn, "INV_REQ")
      \/ receive_Atomic_request(r, p) = Refuse(r, p.psn, "REM_ACCESS")
      \/ receive_Atomic_request(r, p)
           = Accept(push_atomic_acknowledge(r1, p.psn, r.word), p, 1)
  <2>1. receive_Atomic_request(r, p) =
          IF MaxDestRdAtomic <= r.nr_rd_atomic THEN Refuse(r, p.psn, "INV_REQ")
          ELSE IF ~(p.rkey /\ r.mr) THEN Refuse(r, p.psn, "REM_ACCESS")
          ELSE Accept(push_atomic_acknowledge(r1, p.psn, r.word), p, 1)
    BY Zenon DEF receive_Atomic_request
  <2> HIDE DEF r1
  <2> QED BY <2>1
<1> HIDE DEF direction
<1>3. s \in RspType /\ s.word = r.word /\ Idles(r, s)
  BY <1>1, RememberSlotType, RememberSlotIdles
<1>4. w \in Int
  <2> DEFINE x == s.word
             y == CompareAdd(p.op)
  <2>1. x \in Int /\ y \in Int
    BY <1>1, <1>3 DEF CompareAdd
  <2> HIDE DEF x, y
  <2>2. mr_copy_data_sub(x, direction, y) \in Int
    BY <2>1 DEF mr_copy_data_sub, Swap
  <2> QED BY <2>2 DEF x, y
<1> HIDE DEF s, w
<1>5. r1 \in RspType /\ Idles(s, r1)
  <2>1. r1 \in RspType
    BY <1>3, <1>4, ZenonT(30) DEF RspType
  <2>2. Idles(s, r1)
    BY <1>3 DEF RspType, Idles, Stands
  <2> QED BY <2>1, <2>2
<1> HIDE DEF r1
<1> DEFINE a == push_atomic_acknowledge(r1, p.psn, r.word)
<1>6. Idles(r1, a) /\ a \in RspType
  BY <1>1, <1>5, push_atomic_acknowledgeType, push_atomic_acknowledgeIdles
<1> HIDE DEF a
<1>7. Idles(r, a)
  BY <1>3, <1>5, <1>6, IdlesTrans
<1>8. Runs(r, Accept(a, p, 1), p)
  BY <1>6, <1>7, AcceptRuns
<1>9. /\ Idles(r, Refuse(r, p.psn, "INV_REQ"))
      /\ Idles(r, Refuse(r, p.psn, "REM_ACCESS"))
  BY <1>1, RefuseIdles
<1> QED BY <1>2, <1>8, <1>9 DEF a, Runs

LEMMA receive_new_RDMA_READ_requestRuns ==
  ASSUME NEW r \in RspType, NEW p \in RequestType, p.op \in RequestOpcodes,
         Length(p) = p.dmalen
  PROVE  Runs(r, receive_new_RDMA_READ_request(r, p), p)
<1> DEFINE x == r.psn + p.dmalen
           s == RememberSlot(r, p, p.dmalen, 0)
<1>1. /\ r.psn \in Int /\ p.psn \in Int /\ p.dmalen \in Int
      /\ {"INV_REQ", "REM_ACCESS"} \subseteq Syndromes
  BY RspFields, RequestFields, SyndromeNames
<1>2. x \in Int
  BY <1>1
<1>3. s \in RspType /\ Idles(r, s)
  BY <1>1, RememberSlotType, RememberSlotIdles
<1>4. \/ receive_new_RDMA_READ_request(r, p) = Refuse(r, p.psn, "REM_ACCESS")
      \/ receive_new_RDMA_READ_request(r, p) = Refuse(r, p.psn, "INV_REQ")
      \/ receive_new_RDMA_READ_request(r, p) = Accept(AnswerRead(s, p, x), p, p.dmalen)
  BY DEF receive_new_RDMA_READ_request
<1> HIDE DEF x, s
<1> DEFINE a == AnswerRead(s, p, x)
<1>5. Idles(s, a) /\ a \in RspType
  BY <1>2, <1>3, AnswerReadType, AnswerReadIdles
<1> HIDE DEF a
<1>6. Idles(r, a)
  BY <1>3, <1>5, IdlesTrans
<1>7. Runs(r, Accept(a, p, p.dmalen), p)
  BY <1>5, <1>6, AcceptRuns
<1>8. /\ Idles(r, Refuse(r, p.psn, "INV_REQ"))
      /\ Idles(r, Refuse(r, p.psn, "REM_ACCESS"))
  BY <1>1, RefuseIdles
<1> QED BY <1>4, <1>7, <1>8 DEF a, Runs

LEMMA receive_new_requestRuns ==
  ASSUME NEW r \in RspType, NEW p \in RequestType, p.op \in RequestOpcodes
  PROVE  Runs(r, receive_new_request(r, p), p)
<1>1. p.psn \in Int /\ "INV_REQ" \in Syndromes
  BY RequestFields, SyndromeNames
<1>2. Idles(r, Refuse(r, p.psn, "INV_REQ"))
  BY <1>1, RefuseIdles
<1> DEFINE ok == pib_opcode_is_in_order_sequence(p.op, r.last_OpCode)
           new == CASE p.op \in SendOpcodes  -> receive_SEND_request(r, p)
                    [] p.op \in WriteOpcodes -> receive_RDMA_WRITE_request(r, p)
                    [] p.op = "READ_REQUEST" -> receive_new_RDMA_READ_request(r, p)
                    [] OTHER -> receive_Atomic_request(r, p)
           S == p.op \in SendOpcodes
           W == p.op \in WriteOpcodes
           R == p.op = "READ_REQUEST"
<1>3. receive_new_request(r, p) = IF ~ok THEN Refuse(r, p.psn, "INV_REQ") ELSE new
  BY Zenon DEF receive_new_request
<1>4. ~(S /\ W) /\ ~(S /\ R) /\ ~(W /\ R)
  BY DEF SendOpcodes, WriteOpcodes
<1>5. /\ R => Length(p) = p.dmalen
      /\ ~R => Length(p) = 1
  BY DEF Length
<1>6. Runs(r, new, p)
  <2>1. CASE S /\ ~W /\ ~R
    <3>1. new = receive_SEND_request(r, p)
      BY <2>1
    <3> QED BY <1>5, <2>1, <3>1, receive_SEND_requestRuns
  <2>2. CASE W /\ ~S /\ ~R
    <3>1. new = receive_RDMA_WRITE_request(r, p)
      BY <2>2
    <3> QED BY <1>5, <2>2, <3>1, receive_RDMA_WRITE_requestRuns
  <2>3. CASE R /\ ~S /\ ~W
    <3>1. new = receive_new_RDMA_READ_request(r, p)
      BY <2>3
    <3> QED BY <1>5, <2>3, <3>1, receive_new_RDMA_READ_requestRuns
  <2>4. CASE ~S /\ ~W /\ ~R
    <3>1. new = receive_Atomic_request(r, p)
      BY <2>4
    <3> QED BY <1>5, <2>4, <3>1, receive_Atomic_requestRuns
  <2> HIDE DEF new
  <2> QED BY <1>4, <2>1, <2>2, <2>3, <2>4
<1> HIDE DEF ok, new
<1> QED BY <1>2, <1>3, <1>6 DEF Runs

(* Only a packet with the PSN expected next is executed.                   *)
LEMMA receive_packetExecutes ==
  ASSUME NEW r \in RspType, NEW p \in RequestType
  PROVE  /\ \/ Stands(r, receive_packet(r, p))
            \/ Executes(r, receive_packet(r, p), p)
         /\ receive_packet(r, p).tx = r.tx
<1>1. p.psn \in Int /\ "PSN_SEQ" \in Syndromes /\ r.psn \in Int
  BY RequestFields, SyndromeNames, RspFields
<1>2. p.op = "CNP" \/ p.op \in RequestOpcodes
  BY RequestFields
<1>3. Idles(r, r) /\ Idles(r, receive_cnp_notify(r))
  <2> DEFINE z == 0
             s == [r EXCEPT !.nr_contig_read_acks = z]
  <2>1. receive_cnp_notify(r) = s
    BY DEF receive_cnp_notify
  <2> HIDE DEF z
  <2>2. Idles(r, s)
    BY DEF Idles, Stands, RspType
  <2> QED BY <2>1, <2>2 DEF Idles, Stands
<1>4. ASSUME p.op \in RequestOpcodes, p.op # "CNP"
      PROVE  /\ \/ Stands(r, receive_request(r, p))
                \/ Executes(r, receive_request(r, p), p)
             /\ receive_request(r, p).tx = r.tx
  <2> DEFINE d == get_psn_diff(p.psn, r.psn)
  <2>1. d \in Int
    BY <1>1, PsnDiffType
  <2>2. receive_request(r, p) =
          CASE d > 0 -> push_acknowledge(r, p.psn, "PSN_SEQ")
            [] d < 0 -> receive_duplicate(r, p)
            [] OTHER -> receive_new_request(r, p)
    BY Zenon DEF receive_request
  <2>3. /\ Idles(r, push_acknowledge(r, p.psn, "PSN_SEQ"))
        /\ Idles(r, receive_duplicate(r, p))
    BY <1>1, push_acknowledgeIdles, receive_duplicateIdles
  <2> DEFINE f == receive_request(r, p)
             a == push_acknowledge(r, p.psn, "PSN_SEQ")
             b == receive_duplicate(r, p)
             c == receive_new_request(r, p)
  <2>4. Runs(r, c, p)
    BY <1>4, receive_new_requestRuns
  <2>5. f = CASE d > 0 -> a [] d < 0 -> b [] OTHER -> c
    BY <2>2
  <2>6. Runs(r, c, p) /\ d = 0 =>
          (Stands(r, c) \/ Executes(r, c, p)) /\ c.tx = r.tx
    BY <1>4 DEF Runs, Executes, Length, Idles
  <2>7. Stands(r, a) /\ Stands(r, b) /\ a.tx = r.tx /\ b.tx = r.tx
    BY <2>3 DEF Idles
  <2> HIDE DEF d, f, a, b, c
  <2>8. CASE d > 0
    <3>1. f = a
      BY <2>1, <2>5, <2>8
    <3> QED BY <2>7, <3>1 DEF f
  <2>9. CASE d < 0
    <3>1. f = b
      BY <2>1, <2>5, <2>9
    <3> QED BY <2>7, <3>1 DEF f
  <2>10. CASE d = 0
    <3>1. f = c
      BY <2>1, <2>5, <2>10
    <3> QED BY <2>4, <2>6, <2>10, <3>1 DEF f
  <2> QED BY <2>1, <2>8, <2>9, <2>10
<1>5. CASE p.op = "CNP"
  BY <1>3, <1>5 DEF receive_packet, Idles
<1>6. CASE p.op # "CNP"
  <2>1. receive_packet(r, p) = r \/ receive_packet(r, p) = receive_request(r, p)
    BY <1>6 DEF receive_packet
  <2> QED BY <1>2, <1>3, <1>4, <1>6, <2>1 DEF Idles
<1> QED BY <1>5, <1>6

LEMMA AcknowledgeStands ==
  ASSUME NEW r \in RspType, r.acks # <<>>
  PROVE  Stands(r, pib_generate_rc_qp_acknowledge(r))
<1> DEFINE a   == Head(r.acks)
           tx0 == <<Response(ReadOpcode(a), a.psn + a.offset, "ACK", a)>>
           tx1 == <<Response("ATOMIC_ACK", a.psn, "ACK", a)>>
           tx2 == <<Response("ACK", a.psn, a.synd, a)>>
           n   == r.nr_contig_read_acks + 1
           k   == [r.acks EXCEPT ![1] = [r.acks[1] EXCEPT !.offset = @ + 1]]
           t   == Tail(r.acks)
           m   == r.nr_rd_atomic - 1
           r1  == [r EXCEPT !.tx = tx1, !.acks = t, !.nr_rd_atomic = m]
           r2  == [r EXCEPT !.tx = tx2, !.acks = t]
           r3  == [r EXCEPT !.tx = tx0, !.nr_contig_read_acks = n, !.acks = k]
           x   == Tail(r3.acks)
           y   == r3.nr_rd_atomic - 1
           r4  == [r3 EXCEPT !.acks = x, !.nr_rd_atomic = y]
           f   == pib_generate_rc_qp_acknowledge(r)
<1>1. f = generate_RDMA_READ_response(r) \/ f = r1 \/ f = r2
  <2>1. f = CASE a.type = "READ" -> generate_RDMA_READ_response(r)
              [] a.type = "ATOMIC" -> r1
              [] OTHER -> r2
    BY DEF pib_generate_rc_qp_acknowledge
  <2> HIDE DEF a, r1, r2, f
  <2>2. CASE a.type = "READ"
    BY <2>1, <2>2
  <2>3. CASE a.type = "ATOMIC"
    BY <2>1, <2>3
  <2>4. CASE a.type # "READ" /\ a.type # "ATOMIC"
    BY <2>1, <2>4
  <2> QED BY <2>2, <2>3, <2>4
<1>2. generate_RDMA_READ_response(r) \in {r, r3, r4}
  <2> DEFINE s1 == [r EXCEPT !.tx = tx0, !.nr_contig_read_acks = @ + 1,
                             !.acks[1].offset = @ + 1]
  <2>1. generate_RDMA_READ_response(r) =
          IF MaxContigReads < r.nr_contig_read_acks \/ ~r.mr THEN r
          ELSE IF a.offset + 1 < a.size THEN s1
          ELSE [s1 EXCEPT !.acks = Tail(@), !.nr_rd_atomic = @ - 1]
    BY Zenon DEF generate_RDMA_READ_response
  <2>2. s1 = r3
    <3> HIDE DEF a, tx0
    <3> QED OBVIOUS
  <2> HIDE DEF s1, r3, a
  <2>3. [s1 EXCEPT !.acks = Tail(@), !.nr_rd_atomic = @ - 1] = r4
    BY <2>2
  <2> HIDE DEF r4
  <2> QED BY <2>1, <2>2, <2>3
<1> HIDE DEF tx0, tx1, tx2, n, k, t, m
<1>3. Stands(r, r) /\ Stands(r, r1) /\ Stands(r, r2)
  BY DEF Stands, RspType
<1>4. Stands(r, r3) /\ DOMAIN r3 = DOMAIN r
  BY DEF Stands, RspType
<1> HIDE DEF r3, x, y
<1>5. Stands(r3, r4)
  BY <1>4 DEF Stands, RspType
<1>6. Stands(r, r4)
  BY <1>4, <1>5, StandsTrans
<1> HIDE DEF r1, r2, r4, f
<1>7. Stands(r, f)
  BY <1>1, <1>2, <1>3, <1>4, <1>6
<1> QED BY <1>7 DEF f

LEMMA post_recvIdles ==
  ASSUME NEW r \in RspType, NEW size \in RecvSizes
  PROVE  Idles(r, post_recv(r, size))
<1> DEFINE id == r.posted + 1
           r1 == [r EXCEPT !.posted = id]
           e  == <<>>
           l  == Append(r1.rq, [id |-> id, size |-> size])
           r2 == [r1 EXCEPT !.rq = l]
           r3 == insert_recv_wc(r1, id, "WR_FLUSH_ERR", e)
<1>1. id \in Nat
  BY RspFields
<1>2. post_recv(r, size) = r2 \/ post_recv(r, size) = r3
  <2> HIDE DEF r1
  <2> QED BY DEF post_recv, r1
<1> HIDE DEF id
<1>3. r1 \in RspType /\ Idles(r, r1)
  <2>1. r1 \in RspType
    BY <1>1 DEF RspType
  <2>2. Idles(r, r1)
    BY DEF RspType, Idles, Stands
  <2> QED BY <2>1, <2>2
<1> HIDE DEF r1, l, e
<1>4. Idles(r1, r2) /\ Idles(r1, r3)
  <2>1. Idles(r1, r2)
    BY <1>3 DEF RspType, Idles, Stands
  <2> QED BY <1>3, <2>1, insert_recv_wcIdles
<1> HIDE DEF r2, r3
<1> QED BY <1>2, <1>3, <1>4, IdlesTrans

(* A step of the responder's thread.                                       *)
LEMMA ResponderStepStands ==
  ASSUME NEW r \in RspType, ResponderStep(r)
  PROVE  Stands(r, rsp')
<1> DEFINE s == reschedule_rsp(r)
           e == <<>>
           p == [s EXCEPT !.tx = e]
<1>1. rsp' = p
  BY DEF ResponderStep
<1>2. s \in RspType /\ Stands(r, s)
  BY reschedule_rspType, reschedule_rspIdles DEF Idles
<1> HIDE DEF s, e
<1>3. Stands(s, p)
  BY <1>2 DEF RspType, Stands
<1> HIDE DEF p
<1>4. Stands(r, p)
  BY <1>2, <1>3, StandsTrans
<1> QED BY <1>1, <1>4

-----------------------------------------------------------------------------
(* Operations of the requester that assign no PSN *)
NoPsns(q, p) == SameWqes(q.wqe, p.wqe)

LEMMA NoPsnsSame ==
  ASSUME NEW q, NEW p, SameFlow(q, p)
  PROVE  NoPsns(q, p)
BY DEF SameFlow, NoPsns

LEMMA NoPsnsWqe ==
  ASSUME NEW q, NEW p, p.wqe = q.wqe
  PROVE  NoPsns(q, p)
BY DEF SameWqes, NoPsns

LEMMA NoPsnsTrans ==
  ASSUME NEW q, NEW p, NEW r, NoPsns(q, p), NoPsns(p, r)
  PROVE  NoPsns(q, r)
BY DEF SameWqes, NoPsns

LEMMA SendFirstNoPsns ==
  ASSUME NEW q, ReqInv(q)
  PROVE  NoPsns(q, SendFirst(q))
<1> DEFINE id == Head(q.sending)
           s  == Tail(q.sending)
           p  == [q EXCEPT !.sending = s]
<1>1. /\ Len(q.cq) \in Nat /\ Requester(q, Len(q.cq)) /\ q \in ReqType
      /\ q.sending \in Seq(Nat)
  BY ReqFields DEF ReqInv, Requester
<1>2. CASE q.sending = <<>> \/ HeldBack(q)
  BY <1>2, NoPsnsWqe DEF SendFirst
<1>3. CASE ~(q.sending = <<>> \/ HeldBack(q))
  <2>1. q.sending # <<>> /\ SendFirst(q) = process_send_wr(q)
    BY <1>3 DEF SendFirst
  <2>2. id \in DOMAIN q.wqe
    BY <1>1, <2>1, ListsExist
  <2>3. \/ process_send_wr(q) = pib_process_rc_qp_request(q, id)
        \/ process_send_wr(q) = CompletionError(p, id)
    BY DEF process_send_wr
  <2>4. s \in Seq(Nat)
    BY <1>1, <2>1
  <2> HIDE DEF s
  <2>5. p \in ReqType /\ p.wqe = q.wqe
    BY <1>1, <2>4 DEF ReqType
  <2> HIDE DEF p, id
  <2>6. NoPsns(q, CompletionError(p, id))
    <3>1. CompletionError(p, id).wqe = p.wqe
      BY <2>5, CompletionErrorKeeps
    <3> QED BY <2>5, <3>1, NoPsnsWqe
  <2>7. NoPsns(q, pib_process_rc_qp_request(q, id))
    BY <1>1, <2>2, pib_process_rc_qp_requestSame, NoPsnsSame
  <2> QED BY <2>1, <2>3, <2>6, <2>7
<1> QED BY <1>2, <1>3

LEMMA CompleteRdAtomicNoPsns ==
  ASSUME NEW q, ReqInv(q), Len(Started(q)) >= 1
  PROVE  NoPsns(q, CompleteRdAtomic(q))
<1> DEFINE n == 1
           r == CompleteStarted(q, n)
           k == r.nr_rd_atomic - 1
           p == [r EXCEPT !.nr_rd_atomic = k]
<1>1. Len(Started(q)) \in Nat
  BY ListsExist, ReqFields DEF ReqInv, Requester
<1>2. CompleteRdAtomic(q) = postpone_local_ack_timeout(p)
  BY DEF CompleteRdAtomic
<1>3. n \in 0 .. Len(Started(q))
  BY <1>1
<1> HIDE DEF n
<1>4. ReqInv(r) /\ r.wqe = q.wqe
  BY <1>3, CompleteStartedType
<1>5. r \in ReqType
  BY <1>4 DEF ReqInv, Requester
<1> HIDE DEF r
<1>6. k \in Int
  <2>1. r.nr_rd_atomic \in Int
    BY <1>5 DEF ReqType
  <2> QED BY <2>1
<1> HIDE DEF k
<1>7. p \in ReqType /\ p.wqe = r.wqe
  BY <1>5, <1>6 DEF ReqType
<1> HIDE DEF p
<1>8. NoPsns(q, p) /\ NoPsns(p, postpone_local_ack_timeout(p))
  BY <1>4, <1>7, NoPsnsWqe, PostponeSame, NoPsnsSame
<1> QED BY <1>2, <1>8, NoPsnsTrans

LEMMA FailFirstNoPsns ==
  ASSUME NEW q, ReqInv(q), Len(Started(q)) >= 1, NEW id
  PROVE  NoPsns(q, CompletionError(DropStarted(q, 1), id))
<1> DEFINE n == 1
           p == DropStarted(q, n)
<1>1. Len(Started(q)) \in Nat /\ Len(q.cq) \in Nat /\ Requester(q, Len(q.cq))
  BY ListsExist, ReqFields DEF ReqInv, Requester
<1>2. n \in 0 .. Len(Started(q))
  BY <1>1
<1> HIDE DEF n
<1>3. Requester(p, Len(q.cq) + n) /\ p.wqe = q.wqe
  BY <1>1, <1>2, DropStartedType
<1> HIDE DEF p
<1>4. CompletionError(p, id).wqe = q.wqe
  BY <1>3, CompletionErrorKeeps DEF Requester
<1>5. NoPsns(q, CompletionError(p, id))
  BY <1>4, NoPsnsWqe
<1> QED BY <1>5 DEF p, n

LEMMA receive_ACK_responseNoPsns ==
  ASSUME NEW q, ReqInv(q), NEW psn \in Int
  PROVE  NoPsns(q, receive_ACK_response(q, psn))
<1> DEFINE all == Started(q)
           out == [i \in DOMAIN all |-> process_acknowledge(q.wqe[all[i]], psn)]
           cut == {i \in DOMAIN all : out[i] # "COMPLETE"}
           n   == IF cut = {} THEN Len(all) ELSE Min(cut) - 1
           q1  == CompleteStarted(q, n)
           id  == all[n + 1]
           c   == Len(q.cq)
           v   == get_psn_diff(psn, q.wqe[id].based_psn) + 1
           q2  == [q1 EXCEPT !.wqe[id].ack_packets = v]
           q3  == SetStatus(q1, id, "BAD_RESP_ERR")
           o   == out[n + 1]
           f   == receive_ACK_response(q, psn)
<1>1. /\ q \in ReqType /\ c \in Nat /\ Requester(q, c) /\ all \in Seq(Nat)
      /\ Len(all) \in Nat /\ DOMAIN all = 1 .. Len(all) /\ Len(q.wqe) \in Nat
      /\ \A i \in 1 .. Len(all) : all[i] = c + i /\ all[i] \in DOMAIN q.wqe
  <2>1. q \in ReqType /\ c \in Nat /\ Requester(q, c) /\ Len(q.wqe) \in Nat
    BY ReqFields DEF ReqInv, Requester
  <2>2. /\ all \in Seq(Nat) /\ Len(all) \in Nat
        /\ \A i \in 1 .. Len(all) : all[i] = c + i /\ all[i] \in DOMAIN q.wqe
    BY <2>1, ListsExist
  <2> HIDE DEF all, c
  <2>3. DOMAIN all = 1 .. Len(all)
    BY <2>2
  <2> QED BY <2>1, <2>2, <2>3
<1>2. \/ f = postpone_local_ack_timeout(q1)
      \/ cut # {} /\ \/ f = postpone_local_ack_timeout(q2)
                     \/ f = CompletionError(DropStarted(q1, 1), id)
                     \/ f = CompletionError(DropStarted(q3, 1), id)
  <2> HIDE DEF q1, q2, q3, id
  <2>1. f = IF cut = {} THEN postpone_local_ack_timeout(q1)
            ELSE CASE o = "ERROR" -> CompletionError(DropStarted(q1, 1), id)
                   [] o = "BAD_RESP" -> CompletionError(DropStarted(q3, 1), id)
                   [] o = "CONTINUE" -> postpone_local_ack_timeout(q2)
                   [] OTHER -> postpone_local_ack_timeout(q1)
    BY DEF receive_ACK_response, q1, q2, q3, id
  <2> DEFINE empty == cut = {}
  <2> HIDE DEF o, empty, all, out, cut, n, f
  <2>2. f = IF empty THEN postpone_local_ack_timeout(q1)
            ELSE CASE o = "ERROR" -> CompletionError(DropStarted(q1, 1), id)
                   [] o = "BAD_RESP" -> CompletionError(DropStarted(q3, 1), id)
                   [] o = "CONTINUE" -> postpone_local_ack_timeout(q2)
                   [] OTHER -> postpone_local_ack_timeout(q1)
    BY <2>1 DEF empty
  <2>3. CASE o \notin {"ERROR", "BAD_RESP", "CONTINUE"}
    BY <2>2, <2>3 DEF empty
  <2>4. CASE o = "ERROR"
    BY <2>2, <2>4 DEF empty
  <2>5. CASE o = "BAD_RESP"
    BY <2>2, <2>5 DEF empty
  <2>6. CASE o = "CONTINUE"
    BY <2>2, <2>6 DEF empty
  <2> QED BY <2>3, <2>4, <2>5, <2>6
<1>3. n \in 0 .. Len(all) /\ n \in Nat /\ (cut # {} => n + 1 \in 1 .. Len(all))
  <2>1. cut \subseteq 1 .. Len(all)
    BY <1>1
  <2>2. cut # {} => Min(cut) \in cut /\ \A i \in cut : Min(cut) <= i
    <3>1. cut \subseteq Nat
      BY <1>1, <2>1
    <3> HIDE DEF cut
    <3> QED BY <3>1, MinIsElement
  <2> DEFINE m == Min(cut)
             A == Len(all)
  <2>3. /\ A \in Nat /\ (cut # {} => m \in 1 .. A)
        /\ n = IF cut = {} THEN A ELSE m - 1
    BY <1>1, <2>1, <2>2
  <2> HIDE DEF cut, all, n, m, A
  <2>a. ASSUME cut = {} PROVE n = A /\ A \in Nat
    BY Zenon, <2>3, <2>a
  <2>b. ASSUME cut # {} PROVE A \in Nat /\ m \in 1 .. A /\ n = m - 1
    BY Zenon, <2>3, <2>b
  <2>c. ASSUME cut # {} PROVE n \in 0 .. A /\ n \in Nat /\ n + 1 \in 1 .. A
    BY <2>b, <2>c
  <2>4. n \in 0 .. A /\ n \in Nat /\ (cut # {} => n + 1 \in 1 .. A)
    <3>1. CASE cut = {}
      BY <2>a, <3>1
    <3>2. CASE cut # {}
      BY <2>c, <3>2, SMTT(30)
    <3> QED BY <3>1, <3>2
  <2> QED BY <2>4 DEF A
<1> HIDE DEF cut, out, n, o, f
<1>4. /\ ReqInv(q1) /\ q1.wqe = q.wqe /\ Len(Started(q1)) = Len(all) - n
  BY <1>1, <1>3, CompleteStartedType
<1> HIDE DEF q1
<1>5. q1 \in ReqType /\ NoPsns(q, q1) /\ Requester(q1, Len(q1.cq)) /\ Len(q1.cq) \in Nat
  BY <1>4, NoPsnsWqe, ReqFields DEF ReqInv, Requester
<1>6. NoPsns(q1, postpone_local_ack_timeout(q1))
  BY <1>5, PostponeSame, NoPsnsSame
<1>7. ASSUME cut # {}
      PROVE  /\ NoPsns(q1, postpone_local_ack_timeout(q2))
             /\ NoPsns(q1, CompletionError(DropStarted(q1, 1), id))
             /\ NoPsns(q1, CompletionError(DropStarted(q3, 1), id))
  <2>1. id \in DOMAIN q1.wqe
    BY <1>1, <1>3, <1>4, <1>7
  <2>2. Len(Started(q1)) >= 1
    <3> DEFINE S == Len(Started(q1))
               A == Len(all)
    <3>1. S = A - n /\ n + 1 \in 1 .. A /\ A \in Nat
      BY <1>1, <1>3, <1>4, <1>7
    <3> HIDE DEF S, A
    <3>2. S >= 1
      BY <1>3, <3>1
    <3> QED BY <3>2 DEF S
  <2> HIDE DEF id
  <2>3. NoPsns(q1, CompletionError(DropStarted(q1, 1), id))
    BY <1>4, <2>2, FailFirstNoPsns
  <2>4. NoPsns(q1, CompletionError(DropStarted(q3, 1), id))
    <3>1. "BAD_RESP_ERR" \in Statuses
      BY DEF Statuses
    <3>2. SameFlow(q1, q3)
      BY <1>5, <2>1, SetStatusSame
    <3>3. q3.waiting = q1.waiting /\ q3.sending = q1.sending
      BY <1>5, <2>1, <3>1, SetStatusType
    <3>4. ReqInv(q3)
      BY <1>4, <2>1, <3>1, SetStatusInv
    <3> HIDE DEF q3
    <3>5. Len(Started(q3)) >= 1
      BY <2>2, <3>3 DEF Started
    <3> QED BY <3>2, <3>4, <3>5, FailFirstNoPsns, NoPsnsSame, NoPsnsTrans
  <2>5. NoPsns(q1, postpone_local_ack_timeout(q2))
    <3> DEFINE e == q1.wqe[id]
               g == [e EXCEPT !.ack_packets = v]
    <3>1. q2 = [q1 EXCEPT !.wqe[id] = g]
      OBVIOUS
    <3>2. e \in SwqeType /\ v \in Int
      <4>1. q.wqe[id] \in SwqeType
        BY <1>1, <1>4, <2>1, FirstWqe
      <4>2. q.wqe[id].based_psn \in Int
        BY <4>1, SwqeFields
      <4>3. get_psn_diff(psn, q.wqe[id].based_psn) \in Int
        BY <4>2, PsnDiffType
      <4> QED BY <1>4, <4>1, <4>3
    <3> HIDE DEF v, e
    <3>3. /\ g \in SwqeType /\ g.wr = e.wr /\ g.based_psn = e.based_psn
          /\ g.expected_psn = e.expected_psn
      BY <3>2 DEF SwqeType
    <3> HIDE DEF g
    <3>4. SameFlow(q1, [q1 EXCEPT !.wqe[id] = g])
      BY <1>5, <2>1, <3>3, SameSet DEF e
    <3>5. ReqInv([q1 EXCEPT !.wqe[id] = g])
      BY <1>4, <3>3, WqeSetInv
    <3> HIDE DEF q2
    <3>6. q2 \in ReqType /\ NoPsns(q1, q2)
      BY <3>1, <3>4, <3>5, NoPsnsSame DEF ReqInv, Requester
    <3> QED BY <3>6, PostponeSame, NoPsnsSame, NoPsnsTrans
  <2> HIDE DEF q2, q3
  <2> QED BY <2>3, <2>4, <2>5
<1> HIDE DEF q2, q3, id
<1>8. NoPsns(q1, f)
  BY <1>2, <1>6, <1>7
<1>9. NoPsns(q, f)
  BY <1>5, <1>8, NoPsnsTrans
<1> QED BY <1>9 DEF f

LEMMA receive_RDMA_READ_responseNoPsns ==
  ASSUME NEW q, ReqInv(q), NEW p \in ResponseType
  PROVE  NoPsns(q, receive_RDMA_READ_response(q, p))
<1> DEFINE hits == match_send_wqe(q, p.psn)
           id   == Started(q)[Min(hits)]
           e    == q.wqe[id]
           skew == p.op = "READ_MIDDLE"
           dt   == [wr |-> p.wr, k |-> p.k, skew |-> skew]
           data == Append(e.data, dt)
           s    == e.sent_packets + 1
           a    == e.ack_packets + 1
           f    == [e EXCEPT !.sent_packets = s, !.ack_packets = a, !.data = data]
           r    == [q EXCEPT !.wqe[id] = f]
           q1   == process_cnp_notify_request(r)
           c    == Len(q.cq)
           t    == receive_RDMA_READ_response(q, p)
<1>1. q \in ReqType /\ c \in Nat /\ Requester(q, c)
  BY ReqFields DEF ReqInv, Requester
<1>2. \/ t = q
      \/ hits # {} /\ \/ t = SetStatus(q, id, "BAD_RESP_ERR")
                      \/ t = SetStatus(q, id, "LOC_PROT_ERR")
                      \/ t = q1
                      \/ t = CompleteRdAtomic(q1)
  <2>1. t =
      IF hits = {} THEN q
      ELSE IF e.wr.op # "READ" THEN SetStatus(q, id, "BAD_RESP_ERR")
      ELSE IF \/ Min(hits) # 1
              \/ get_psn_diff(e.based_psn + e.sent_packets, p.psn) # 0
              \/ get_psn_diff(e.based_psn + e.ack_packets, p.psn) # 0
           THEN q
      ELSE IF e.wr.fault = "local" THEN SetStatus(q, id, "LOC_PROT_ERR")
      ELSE IF e.sent_packets + 1 < e.wr.pkts THEN q1
      ELSE CompleteRdAtomic(q1)
    BY Zenon DEF receive_RDMA_READ_response
  <2> HIDE DEF hits, id, e, q1, t
  <2> QED BY <2>1
<1>3. ASSUME hits # {}
      PROVE  /\ NoPsns(q, SetStatus(q, id, "BAD_RESP_ERR"))
             /\ NoPsns(q, SetStatus(q, id, "LOC_PROT_ERR"))
             /\ NoPsns(q, q1)
             /\ NoPsns(q, CompleteRdAtomic(q1))
  <2>1. id \in DOMAIN q.wqe /\ Min(hits) \in 1 .. Len(Started(q))
    BY <1>1, <1>3, MatchExists
  <2>2. Len(Started(q)) >= 1
    <3> DEFINE L == Len(Started(q))
               m == Min(hits)
    <3>1. m \in 1 .. L /\ L \in Nat
      BY <1>1, <2>1, ListsExist
    <3> HIDE DEF L, m
    <3>2. L >= 1
      BY <3>1
    <3> QED BY <3>2 DEF L
  <2> HIDE DEF id
  <2>3. /\ NoPsns(q, SetStatus(q, id, "BAD_RESP_ERR"))
        /\ NoPsns(q, SetStatus(q, id, "LOC_PROT_ERR"))
    BY <1>1, <2>1, SetStatusSame, NoPsnsSame
  <2>4. e \in SwqeType
    BY <1>1, <2>1, FirstWqe
  <2>5. /\ s \in Int /\ a \in Int
        /\ data \in Seq([wr : Nat, k : Int, skew : BOOLEAN])
    <3>1. /\ e.sent_packets \in Int /\ e.ack_packets \in Int
          /\ e.data \in Seq([wr : Nat, k : Int, skew : BOOLEAN])
      BY <2>4 DEF SwqeType
    <3>2. dt \in [wr : Nat, k : Int, skew : BOOLEAN]
      BY DEF ResponseType
    <3> HIDE DEF dt, e
    <3> QED BY <3>1, <3>2
  <2> HIDE DEF e, s, a, data
  <2>6. /\ f \in SwqeType /\ f.wr = e.wr /\ f.based_psn = e.based_psn
        /\ f.expected_psn = e.expected_psn
    BY <2>4, <2>5 DEF SwqeType
  <2> HIDE DEF f
  <2>7. ReqInv(r) /\ Started(r) = Started(q)
    BY <2>6, WqeSetInv
  <2>8. SameFlow(q, r)
    BY <1>1, <2>1, <2>6, SameSet DEF e
  <2> HIDE DEF r
  <2>9. ReqInv(q1) /\ Started(q1) = Started(r) /\ SameFlow(r, q1)
    BY <2>7, CnpNotifyType, CnpNotifySame DEF ReqInv, Requester
  <2> HIDE DEF q1
  <2>10. NoPsns(q, q1)
    BY <2>8, <2>9, NoPsnsSame, NoPsnsTrans
  <2>11. NoPsns(q1, CompleteRdAtomic(q1))
    BY <2>2, <2>7, <2>9, CompleteRdAtomicNoPsns
  <2> QED BY <2>3, <2>10, <2>11, NoPsnsTrans
<1>4. NoPsns(q, q)
  BY NoPsnsWqe
<1> HIDE DEF hits, id, q1, t
<1>5. NoPsns(q, t)
  BY <1>2, <1>3, <1>4
<1> QED BY <1>5 DEF t

LEMMA receive_Atomic_responseNoPsns ==
  ASSUME NEW q, ReqInv(q), NEW p \in ResponseType
  PROVE  NoPsns(q, receive_Atomic_response(q, p))
<1> DEFINE hits == match_send_wqe(q, p.psn)
           id   == Started(q)[Min(hits)]
           e    == q.wqe[id]
           res  == p.res
           f    == [e EXCEPT !.res = res]
           q1   == [q EXCEPT !.wqe[id] = f]
           c    == Len(q.cq)
           t    == receive_Atomic_response(q, p)
<1>1. q \in ReqType /\ c \in Nat /\ Requester(q, c)
  BY ReqFields DEF ReqInv, Requester
<1>2. \/ t = q
      \/ hits # {} /\ \/ t = SetStatus(q, id, "BAD_RESP_ERR")
                      \/ t = SetStatus(q, id, "LOC_PROT_ERR")
                      \/ t = CompleteRdAtomic(q1)
  <2>1. [q EXCEPT !.wqe[id].res = p.res] = q1
    OBVIOUS
  <2>2. t =
      IF hits = {} THEN q
      ELSE IF e.wr.op \notin {"CAS", "FADD"} THEN SetStatus(q, id, "BAD_RESP_ERR")
      ELSE IF Min(hits) # 1 \/ get_psn_diff(e.based_psn, p.psn) # 0 THEN q
      ELSE IF e.wr.fault = "local" THEN SetStatus(q, id, "LOC_PROT_ERR")
      ELSE CompleteRdAtomic(q1)
    <3> HIDE DEF q1, hits
    <3> QED BY <2>1 DEF receive_Atomic_response, hits
  <2> HIDE DEF hits, id, e, q1, t
  <2> QED BY <2>2
<1>3. ASSUME hits # {}
      PROVE  /\ NoPsns(q, SetStatus(q, id, "BAD_RESP_ERR"))
             /\ NoPsns(q, SetStatus(q, id, "LOC_PROT_ERR"))
             /\ NoPsns(q, CompleteRdAtomic(q1))
  <2>1. id \in DOMAIN q.wqe /\ Min(hits) \in 1 .. Len(Started(q))
    BY <1>1, <1>3, MatchExists
  <2>2. Len(Started(q)) >= 1
    <3> DEFINE L == Len(Started(q))
               m == Min(hits)
    <3>1. m \in 1 .. L /\ L \in Nat
      BY <1>1, <2>1, ListsExist
    <3> HIDE DEF L, m
    <3>2. L >= 1
      BY <3>1
    <3> QED BY <3>2 DEF L
  <2> HIDE DEF id
  <2>3. /\ NoPsns(q, SetStatus(q, id, "BAD_RESP_ERR"))
        /\ NoPsns(q, SetStatus(q, id, "LOC_PROT_ERR"))
    BY <1>1, <2>1, SetStatusSame, NoPsnsSame
  <2>4. e \in SwqeType /\ res \in Int
    BY <1>1, <2>1, FirstWqe DEF ResponseType
  <2> HIDE DEF e, res
  <2>5. /\ f \in SwqeType /\ f.wr = e.wr /\ f.based_psn = e.based_psn
        /\ f.expected_psn = e.expected_psn
    BY <2>4 DEF SwqeType
  <2> HIDE DEF f
  <2>6. ReqInv(q1) /\ Started(q1) = Started(q)
    BY <2>5, WqeSetInv
  <2>7. SameFlow(q, q1)
    BY <1>1, <2>1, <2>5, SameSet DEF e
  <2> HIDE DEF q1
  <2>8. NoPsns(q1, CompleteRdAtomic(q1))
    BY <2>2, <2>6, CompleteRdAtomicNoPsns
  <2> QED BY <2>3, <2>7, <2>8, NoPsnsSame, NoPsnsTrans
<1>4. NoPsns(q, q)
  BY NoPsnsWqe
<1> HIDE DEF hits, id, q1, t
<1>5. NoPsns(q, t)
  BY <1>2, <1>3, <1>4
<1> QED BY <1>5 DEF t

LEMMA receive_responseNoPsns ==
  ASSUME NEW q0, ReqInv(q0), NEW p \in ResponseType
  PROVE  NoPsns(q0, receive_response(q0, p))
<1> DEFINE z == 0
           q == [q0 EXCEPT !.nr_contig_requests = z]
           s == NakStatus[p.synd]
           n == IF p.synd \in DOMAIN NakStatus
                THEN set_send_wqe_to_error(q, p.psn, s) ELSE q
           c == Len(q0.cq)
           t == receive_response(q0, p)
<1>1. q0 \in ReqType /\ c \in Nat /\ Requester(q0, c) /\ z \in Nat
  BY ReqFields DEF ReqInv, Requester
<1>2. \/ t = CountRnr(Resend(q))
      \/ t = Resend(q)
      \/ t = receive_ACK_response(n, p.psn)
      \/ t = receive_Atomic_response(n, p)
      \/ t = receive_RDMA_READ_response(n, p)
  <2>1. t = CASE p.synd = "RNR"     -> CountRnr(Resend(q))
              [] p.synd = "PSN_SEQ" -> Resend(q)
              [] p.synd \notin {"RNR", "PSN_SEQ"} /\ p.op = "ACK" ->
                   receive_ACK_response(n, p.psn)
              [] p.synd \notin {"RNR", "PSN_SEQ"} /\ p.op = "ATOMIC_ACK" ->
                   receive_Atomic_response(n, p)
              [] OTHER -> receive_RDMA_READ_response(n, p)
    BY Zenon DEF receive_response
  <2> HIDE DEF q, n, t
  <2>2. CASE p.synd = "RNR"
    BY <2>1, <2>2
  <2>3. CASE p.synd = "PSN_SEQ"
    BY <2>1, <2>3
  <2>4. CASE p.synd \notin {"RNR", "PSN_SEQ"} /\ p.op = "ACK"
    BY <2>1, <2>4
  <2>5. CASE p.synd \notin {"RNR", "PSN_SEQ"} /\ p.op = "ATOMIC_ACK"
    BY <2>1, <2>5
  <2>6. CASE p.synd \notin {"RNR", "PSN_SEQ"} /\ p.op \notin {"ACK", "ATOMIC_ACK"}
    BY <2>1, <2>6
  <2> QED BY <2>2, <2>3, <2>4, <2>5, <2>6
<1> HIDE DEF z, t
<1>3. /\ q \in ReqType /\ q.cq = q0.cq /\ q.waiting = q0.waiting
      /\ q.sending = q0.sending /\ q.submitted = q0.submitted
      /\ q.wqe = q0.wqe /\ q.state = q0.state
  BY <1>1 DEF ReqType
<1> HIDE DEF q
<1>4. Requester(q, c) /\ ReqInv(q) /\ NoPsns(q0, q)
  BY <1>1, <1>3, NoPsnsWqe DEF Requester, OrderedFrom, Drained, ReqInv
<1>5. NoPsns(q, Resend(q)) /\ NoPsns(q, CountRnr(Resend(q)))
  <2> DEFINE r == Resend(q)
  <2>1. Requester(r, c) /\ NoPsns(q, r)
    BY <1>1, <1>4, ResendType, ResendSame, NoPsnsSame
  <2> HIDE DEF r
  <2>2. NoPsns(r, CountRnr(r))
    BY <1>1, <2>1, CountRnrSame, NoPsnsSame
  <2>3. NoPsns(q, CountRnr(r))
    BY <2>1, <2>2, NoPsnsTrans
  <2> QED BY <2>1, <2>3 DEF r
<1>6. ReqInv(n) /\ NoPsns(q, n)
  <2>1. CASE p.synd \in DOMAIN NakStatus
    <3>1. s \in Statuses
      BY <2>1 DEF NakStatus, Statuses
    <3> HIDE DEF s
    <3>2. n = set_send_wqe_to_error(q, p.psn, s)
      BY <2>1
    <3>3. Requester(n, c) /\ n.cq = q.cq /\ NoPsns(q, n)
      BY <1>1, <1>4, <3>1, <3>2, set_send_wqe_to_errorType,
         set_send_wqe_to_errorSame, NoPsnsSame
    <3> HIDE DEF n
    <3> QED BY <1>3, <3>3 DEF ReqInv
  <2>2. CASE p.synd \notin DOMAIN NakStatus
    <3>1. n = q
      BY <2>2
    <3> QED BY <1>4, <3>1, NoPsnsWqe
  <2> QED BY <2>1, <2>2
<1>7. p.psn \in Int
  BY DEF ResponseType
<1> HIDE DEF n
<1>8. /\ NoPsns(n, receive_ACK_response(n, p.psn))
      /\ NoPsns(n, receive_Atomic_response(n, p))
      /\ NoPsns(n, receive_RDMA_READ_response(n, p))
  BY <1>6, <1>7, receive_ACK_responseNoPsns, receive_Atomic_responseNoPsns,
     receive_RDMA_READ_responseNoPsns
<1>9. NoPsns(q, t)
  BY <1>2, <1>5, <1>6, <1>8, NoPsnsTrans
<1>10. NoPsns(q0, t)
  BY <1>4, <1>9, NoPsnsTrans
<1> QED BY <1>10 DEF t

-----------------------------------------------------------------------------
(* The line of work requests with PSNs goes on.                            *)

LEMMA LineKept ==
  ASSUME NEW q, NEW n, Line(q, n), NEW p \in ReqType, NoPsns(q, p)
  PROVE  Line(p, n) /\ Len(p.wqe) = Len(q.wqe)
<1> DEFINE L == Len(q.wqe)
<1>1. /\ n \in 0 .. L /\ L \in Nat /\ Len(p.wqe) = L
      /\ \A i \in 1 .. L : /\ p.wqe[i].wr = q.wqe[i].wr
                           /\ p.wqe[i].based_psn = q.wqe[i].based_psn
                           /\ p.wqe[i].expected_psn = q.wqe[i].expected_psn
  BY ReqFields DEF Line, NoPsns, SameWqes
<1>2. /\ \A i \in 1 .. n : /\ q.wqe[i].based_psn = PsnAfter(q, i - 1)
                           /\ q.wqe[i].expected_psn = q.wqe[i].based_psn + q.wqe[i].wr.pkts
      /\ \A i \in n + 1 .. L : ~Numbered(q.wqe[i])
  BY DEF Line, Chained
<1> HIDE DEF L
<1>3. ASSUME NEW i \in 1 .. n
      PROVE  /\ p.wqe[i].based_psn = PsnAfter(p, i - 1)
             /\ p.wqe[i].expected_psn = p.wqe[i].based_psn + p.wqe[i].wr.pkts
  <2>1. i \in 1 .. L /\ (i - 1 = 0 \/ i - 1 \in 1 .. L)
    BY <1>1
  <2>2. PsnAfter(p, i - 1) = PsnAfter(q, i - 1)
    BY <1>1, <2>1 DEF PsnAfter
  <2> QED BY <1>1, <1>2, <2>1, <2>2
<1>4. ASSUME NEW i \in n + 1 .. L PROVE ~Numbered(p.wqe[i])
  <2>1. i \in 1 .. L
    BY <1>1
  <2> QED BY <1>1, <1>2, <2>1 DEF Numbered
<1> QED BY <1>1, <1>3, <1>4 DEF Line, Chained, L

(* A work request that has not been started has no PSNs.                   *)
LEMMA FreshNotNumbered ==
  ASSUME NEW e \in SwqeType, Fresh(e)
  PROVE  ~Numbered(e)
<1>1. e.wr.pkts \in Nat /\ e.wr.pkts >= 1
  BY SwqeFields DEF WrType
<1> QED BY <1>1 DEF Fresh, Numbered

LEMMA LineOfRTS ==
  ASSUME NEW q, FlowInv(q), Windows(q, Len(q.cq)), q.state = "RTS"
  PROVE  Line(q, Begun(q))
<1> DEFINE b == Begun(q)
           c == Len(q.cq)
           L == Len(q.wqe)
<1>1. /\ c \in Nat /\ b \in Nat /\ c <= b /\ b <= L /\ L \in Nat /\ q \in ReqType
      /\ Chained(q, b)
  <2>1. /\ c \in Nat /\ Len(Started(q)) \in Nat /\ b = c + Len(Started(q))
        /\ b <= L /\ L \in Nat
    BY StartedAre
  <2>2. Flow(q, c) /\ q \in ReqType
    BY FlowFacts
  <2>3. Chained(q, b)
    BY <2>2 DEF Flow, Psns
  <2> HIDE DEF b, c, L
  <2> QED BY <2>1, <2>2, <2>3
<1>2. \A i \in c + 1 .. L : i > b => Fresh(q.wqe[i])
  BY DEF Windows, Rest
<1> HIDE DEF b, c, L
<1>3. ASSUME NEW i \in b + 1 .. L PROVE ~Numbered(q.wqe[i])
  <2>1. i \in c + 1 .. L /\ i > b /\ i \in 1 .. L
    BY <1>1
  <2>2. q.wqe[i] \in SwqeType
    BY <1>1, <2>1, ReqFields DEF L
  <2> QED BY <1>2, <2>1, <2>2, FreshNotNumbered
<1>4. b \in 0 .. L
  BY <1>1
<1> QED BY <1>1, <1>3, <1>4 DEF Line, b, L

(* The requester keeps a line of at most MaxWR work requests.              *)
HasLine(q) == Len(q.wqe) <= MaxWR /\ \E n \in Nat : Line(q, n)

LEMMA HasLineKept ==
  ASSUME NEW q, HasLine(q), NEW p \in ReqType, NoPsns(q, p)
  PROVE  HasLine(p)
<1>1. PICK n \in Nat : Line(q, n)
  BY DEF HasLine
<1>2. Line(p, n) /\ Len(p.wqe) = Len(q.wqe)
  BY <1>1, LineKept
<1> QED BY <1>1, <1>2 DEF HasLine

LEMMA HasLineRTS ==
  ASSUME NEW q, FlowInv(q), Windows(q, Len(q.cq)), q.state = "RTS",
         Len(q.wqe) <= MaxWR
  PROVE  HasLine(q)
<1>1. Line(q, Begun(q)) /\ Begun(q) \in Nat
  <2>1. Line(q, Begun(q))
    BY LineOfRTS
  <2> QED BY <2>1, ReqFields DEF Line
<1> QED BY <1>1 DEF HasLine

LEMMA HasLineStartNext ==
  ASSUME NEW q, FlowInv(q), Windows(q, Len(q.cq)), HasLine(q)
  PROVE  HasLine(StartNext(q))
<1> DEFINE s == StartNext(q)
<1>1. CASE ~(q.sending = <<>> /\ MayStart(q))
  BY <1>1 DEF StartNext
<1>2. CASE q.sending = <<>> /\ MayStart(q)
  <2> DEFINE id == Head(q.submitted)
  <2>1. /\ Len(q.cq) \in Nat /\ Requester(q, Len(q.cq)) /\ ReqInv(q) /\ q \in ReqType
    BY FlowFacts
  <2>2. q.submitted # <<>> /\ s = process_new_send_wr(q)
    BY <1>2 DEF MayStart, StartNext
  <2>3. id \in 1 .. Len(q.wqe) /\ q.state = "RTS"
    BY <2>1, <2>2, FirstSubmitted
  <2>4. FlowInv(s) /\ Windows(s, Len(s.cq))
    BY <2>1, StartNextFlow, StartNextAdvances DEF Advances
  <2>5. s.state = "RTS" /\ Len(s.wqe) = Len(q.wqe)
    <3> DEFINE t == Tail(q.submitted)
               a == Append(q.sending, id)
               m == IF pib_is_wr_opcode_rd_atomic(q.wqe[id].wr.op)
                    THEN q.nr_rd_atomic + 1 ELSE q.nr_rd_atomic
               x == q.expected_psn + NumOfPsns(q.wqe[id].wr)
               e == [q.wqe[id] EXCEPT
                       !.based_psn = q.expected_psn, !.expected_psn = x,
                       !.ack_packets = 0, !.sent_packets = 0,
                       !.retry_cnt = RetryCnt, !.rnr_retry = RnrRetry]
               v == [q.wqe EXCEPT ![id] = e]
    <3>1. process_new_send_wr(q) =
            [q EXCEPT !.submitted = t, !.sending = a, !.nr_rd_atomic = m,
                      !.expected_psn = x, !.wqe = v]
      BY <2>1 DEF process_new_send_wr, ReqType
    <3> HIDE DEF t, a, m, x, e
    <3>2. Len(v) = Len(q.wqe)
      BY <2>1, ReqFields
    <3> HIDE DEF v, s
    <3>3. s.state = q.state /\ s.wqe = v
      BY <2>1, <2>2, <3>1 DEF ReqType
    <3> QED BY <2>3, <3>2, <3>3
  <2>6. Len(s.wqe) <= MaxWR
    BY <2>5 DEF HasLine
  <2> HIDE DEF s
  <2> QED BY <2>4, <2>5, <2>6, HasLineRTS DEF s
<1> QED BY <1>1, <1>2

(* A work request posted to a queue pair in the error state gets no PSNs.  *)
LEMMA HasLinePostSend ==
  ASSUME NEW q, FlowInv(q), Windows(q, Len(q.cq)), HasLine(q),
         Len(q.wqe) < MaxWR, NEW w \in WRs
  PROVE  HasLine(post_send(q, w))
<1> DEFINE p == post_send(q, w)
           L == Len(q.wqe)
           v == Append(q.wqe, NewSwqe(w))
           u == Append(q.submitted, L + 1)
           q1 == [q EXCEPT !.wqe = v]
           q2 == [q1 EXCEPT !.submitted = u]
           q3 == reschedule_req(q2)
           z  == 0
<1>1. ReqInv(q) /\ q \in ReqType /\ L \in Nat /\ q.wqe \in Seq(SwqeType) /\ MaxWR \in Nat
  BY FlowFacts, ReqFields, RCAssumption
<1>2. FlowInv(p) /\ Windows(p, Len(p.cq)) /\ p \in ReqType
  BY <1>1, post_sendFlow, post_sendAdvances, FlowFacts DEF Advances
<1>3. NewSwqe(w) \in SwqeType /\ Fresh(NewSwqe(w))
  BY NewSwqeType DEF NewSwqe, Fresh
<1>4. /\ Len(v) = L + 1 /\ v[L + 1] = NewSwqe(w) /\ v \in Seq(SwqeType)
      /\ \A i \in 1 .. L : v[i] = q.wqe[i]
  BY <1>1, <1>3
<1>5. p.wqe = v /\ (q.state # "ERR" => p.state = q.state)
  <2>1. CASE q.state = "ERR"
    <3> DEFINE c == Append(q1.cq, [wr |-> L + 1, status |-> "WR_FLUSH_ERR"])
    <3>1. p = insert_send_wc(q1, L + 1, "WR_FLUSH_ERR")
      BY <2>1 DEF post_send
    <3>2. p = [q1 EXCEPT !.cq = c]
      BY <3>1 DEF insert_send_wc
    <3> HIDE DEF p, v, c
    <3>3. p.wqe = v
      BY <1>1, <3>2 DEF ReqType
    <3> QED BY <2>1, <3>3
  <2>2. CASE q.state # "ERR"
    <3>1. p = [q3 EXCEPT !.nr_contig_requests = z, !.nr_contig_read_acks = z]
      BY <2>2 DEF post_send
    <3> DEFINE b == /\ q2.state = "RTS"
                    /\ q2.waiting # <<>> \/ SendDue(q2) \/ StartDue(q2)
    <3>2. q3 = [q2 EXCEPT !.on = b]
      BY DEF reschedule_req
    <3> HIDE DEF b, v, u, q3, p, z
    <3>3. q3.wqe = v /\ q3.state = q.state /\ DOMAIN q3 = DOMAIN q
      BY <1>1, <3>2 DEF ReqType
    <3>4. p.wqe = q3.wqe /\ p.state = q3.state
      BY <1>1, <3>1, <3>3 DEF ReqType
    <3> QED BY <3>3, <3>4
  <2> QED BY <2>1, <2>2
<1> HIDE DEF p, v
<1>6. Len(p.wqe) <= MaxWR
  BY <1>1, <1>4, <1>5
<1>7. CASE q.state = "ERR"
  <2>1. PICK n \in Nat : Line(q, n)
    BY DEF HasLine
  <2>2. n \in 0 .. L /\ Chained(q, n) /\ \A i \in n + 1 .. L : ~Numbered(q.wqe[i])
    BY <2>1 DEF Line
  <2>3. Chained(p, n)
    <3> SUFFICES ASSUME NEW i \in 1 .. n
                 PROVE  /\ p.wqe[i].based_psn = PsnAfter(p, i - 1)
                        /\ p.wqe[i].expected_psn = p.wqe[i].based_psn + p.wqe[i].wr.pkts
      BY DEF Chained
    <3>1. i \in 1 .. L /\ (i - 1 = 0 \/ i - 1 \in 1 .. L)
      BY <1>1, <2>2
    <3>2. PsnAfter(p, i - 1) = PsnAfter(q, i - 1) /\ p.wqe[i] = q.wqe[i]
      BY <1>4, <1>5, <3>1 DEF PsnAfter
    <3> QED BY <2>2, <3>2 DEF Chained
  <2>4. ASSUME NEW i \in n + 1 .. L + 1 PROVE ~Numbered(p.wqe[i])
    <3>1. i \in n + 1 .. L \/ i = L + 1
      BY <1>1, <2>2
    <3>2. CASE i = L + 1
      BY <1>3, <1>4, <1>5, <3>2, FreshNotNumbered
    <3>3. CASE i \in n + 1 .. L
      <4>1. i \in 1 .. L
        BY <1>1, <2>2, <3>3
      <4> QED BY <1>4, <1>5, <2>2, <3>3, <4>1
    <3> QED BY <3>1, <3>2, <3>3
  <2>5. Len(p.wqe) = L + 1 /\ n \in 0 .. L + 1
    BY <1>1, <1>4, <1>5, <2>2
  <2>6. Line(p, n)
    BY <1>2, <2>3, <2>4, <2>5 DEF Line
  <2>7. HasLine(p)
    BY <1>6, <2>1, <2>6 DEF HasLine
  <2> QED BY <2>7 DEF p
<1>8. CASE q.state # "ERR"
  <2>1. q.state = "RTS"
    BY <1>1, <1>8 DEF ReqType
  <2>2. HasLine(p)
    BY <1>2, <1>5, <1>6, <1>8, <2>1, HasLineRTS
  <2> QED BY <2>2 DEF p
<1> QED BY <1>7, <1>8

LEMMA HasLineStep ==
  ASSUME NEW q, ReqInv(q), HasLine(q), RequesterStep(q)
  PROVE  HasLine(req')
<1> DEFINE s == reschedule_req(q)
           e == <<>>
           p == [s EXCEPT !.tx = e]
<1>1. req' = p
  BY DEF RequesterStep
<1>2. q \in ReqType
  BY DEF ReqInv, Requester
<1>3. s \in ReqType /\ NoPsns(q, s)
  BY <1>2, reschedule_reqStill, reschedule_reqSame, NoPsnsSame
<1>4. e \in Seq(RequestType)
  OBVIOUS
<1> HIDE DEF s, e
<1>5. p \in ReqType /\ p.wqe = s.wqe
  BY <1>3, <1>4 DEF ReqType
<1> HIDE DEF p
<1>6. NoPsns(q, p)
  BY <1>3, <1>5, NoPsnsWqe, NoPsnsTrans
<1>7. HasLine(p)
  BY <1>5, <1>6, HasLineKept
<1> QED BY <1>1, <1>7

(* The log stays in order when the line goes on.                           *)
LEMMA LoggedStays ==
  ASSUME NEW q, NEW n, Line(q, n), NEW p, NEW m, Line(p, m), Continues(q, p),
         NEW r, Logged(r, q, n)
  PROVE  Logged(r, p, m)
<1> DEFINE g == r.log
           L == Len(g)
<1>1. g \in Seq(Nat \X Int) /\ L \in Nat /\ r.psn \in Int
  BY DEF Logged
<1>2. /\ n \in 0 .. Len(q.wqe) /\ Len(q.wqe) \in Nat /\ m \in 0 .. Len(p.wqe)
      /\ Len(p.wqe) \in Nat /\ Len(q.wqe) <= Len(p.wqe)
  BY ReqFields DEF Line, Continues
<1>3. ASSUME NEW i \in 1 .. n
      PROVE  /\ i \in 1 .. m /\ p.wqe[i].wr = q.wqe[i].wr
             /\ p.wqe[i].based_psn = q.wqe[i].based_psn
             /\ p.wqe[i].expected_psn = q.wqe[i].expected_psn
  <2>1. i \in 1 .. Len(q.wqe) /\ i \in 1 .. Len(p.wqe)
    BY <1>2
  <2>2. Follows(q.wqe[i], p.wqe[i])
    BY <2>1 DEF Continues
  <2>3. Numbered(q.wqe[i])
    BY DEF Line, Chained, Numbered
  <2>4. /\ p.wqe[i].wr = q.wqe[i].wr /\ p.wqe[i].based_psn = q.wqe[i].based_psn
        /\ p.wqe[i].expected_psn = q.wqe[i].expected_psn
    BY <2>2, <2>3 DEF Follows
  <2>5. Numbered(p.wqe[i])
    BY <2>3, <2>4 DEF Numbered
  <2>6. i \notin m + 1 .. Len(p.wqe)
    BY <2>5 DEF Line
  <2>7. i \in 1 .. m
    BY <1>2, <2>1, <2>6
  <2> QED BY <2>4, <2>7
<1>4. ASSUME NEW i \in 1 .. n
      PROVE  Entries(p.wqe[i]) = Entries(q.wqe[i])
  BY <1>3 DEF Entries
<1>5. ASSUME NEW j \in 1 .. L
      PROVE  /\ g[j][1] \in 1 .. n /\ IsEntry(q, n, g[j])
             /\ g[j] = IF j = 1 THEN <<1, 0>> ELSE Following(q, g[j - 1])
  BY DEF Logged, InSequence, IsEntry
<1>6. InSequence(g, p, m)
  <2> SUFFICES ASSUME NEW j \in 1 .. L
               PROVE  /\ IsEntry(p, m, g[j])
                      /\ g[j] = IF j = 1 THEN <<1, 0>> ELSE Following(p, g[j - 1])
    BY DEF InSequence
  <2>1. IsEntry(p, m, g[j])
    BY <1>3, <1>4, <1>5 DEF IsEntry
  <2>2. ASSUME j # 1 PROVE Following(p, g[j - 1]) = Following(q, g[j - 1])
    <3>1. j - 1 \in 1 .. L
      BY <1>1, <2>2
    <3>2. g[j - 1][1] \in 1 .. n
      BY <1>5, <3>1
    <3> HIDE DEF g
    <3> QED BY <1>4, <3>2 DEF Following
  <2> QED BY <1>5, <2>1, <2>2
<1>7. CASE L = 0
  BY <1>1, <1>6, <1>7 DEF Logged
<1>8. CASE L # 0
  <2> DEFINE l == g[L]
  <2>1. L \in 1 .. L
    BY <1>1, <1>8
  <2>2. l[1] \in 1 .. n
    BY <1>5, <2>1
  <2>3. r.psn = PsnPast(q.wqe[l[1]], l[2]) /\ \A i \in 1 .. l[1] - 1 : Complete(g, q, i)
    BY <1>8 DEF Logged
  <2>4. PsnPast(p.wqe[l[1]], l[2]) = PsnPast(q.wqe[l[1]], l[2])
    <3> DEFINE a == l[1]
    <3> HIDE DEF l
    <3>1. a \in 1 .. n
      BY <2>2
    <3> HIDE DEF a
    <3>2. /\ p.wqe[a].wr = q.wqe[a].wr
          /\ p.wqe[a].based_psn = q.wqe[a].based_psn
          /\ p.wqe[a].expected_psn = q.wqe[a].expected_psn
      BY <1>3, <3>1
    <3>3. PsnPast(p.wqe[a], l[2]) = PsnPast(q.wqe[a], l[2])
      BY <3>2 DEF PsnPast
    <3> QED BY <3>3 DEF a
  <2>5. ASSUME NEW i \in 1 .. l[1] - 1 PROVE Complete(g, p, i)
    <3>1. i \in 1 .. n
      BY <1>2, <2>2
    <3>2. Complete(g, q, i)
      BY <2>3
    <3> QED BY <1>4, <3>1, <3>2 DEF Complete
  <2> QED BY <1>1, <1>6, <1>8, <2>3, <2>4, <2>5 DEF Logged
<1> QED BY <1>7, <1>8

-----------------------------------------------------------------------------
(* The system *)

OnceSafe ==
  /\ ProgSafe /\ HasLine(req)
  /\ \E n \in Nat : Line(req, n) /\ Logged(rsp, req, n)

LEMMA InitOnce == Init => OnceSafe
<1> SUFFICES ASSUME Init PROVE OnceSafe
  OBVIOUS
<1>1. ProgSafe /\ req \in ReqType
  <2>1. ProgSafe
    BY InitProg
  <2> QED BY <2>1, FlowFacts DEF ProgSafe, FlowSafe
<1>2. /\ req.wqe = <<>> /\ rsp.log = <<>> /\ rsp.psn = InitPsn /\ MaxWR \in Nat
      /\ InitPsn \in Int
  BY RCAssumption, ConstantTypes DEF Init
<1>3. Len(req.wqe) = 0 /\ Len(rsp.log) = 0 /\ rsp.log \in Seq(Nat \X Int)
  BY <1>2
<1>4. Line(req, 0)
  BY <1>1, <1>3 DEF Line, Chained
<1>5. Logged(rsp, req, 0)
  BY <1>2, <1>3 DEF Logged, InSequence
<1>6. HasLine(req)
  BY <1>2, <1>3, <1>4 DEF HasLine
<1> QED BY <1>1, <1>4, <1>5, <1>6 DEF OnceSafe

(* The line of the requester after a pass of the scheduler.                *)
LEMMA PassHasLine ==
  ASSUME NEW q, FlowInv(q), Windows(q, Len(q.cq)), HasLine(q),
         first_sending_wsqe(q)
  PROVE  HasLine(req')
<1> DEFINE s == StartNext(q)
           t == SendFirst(s)
<1>1. RequesterStep(t)
  BY DEF first_sending_wsqe
<1>2. HasLine(s) /\ ReqInv(s)
  BY HasLineStartNext, StartNextType DEF FlowInv
<1> HIDE DEF s
<1>3. ReqInv(t) /\ NoPsns(s, t)
  BY <1>2, SendFirstType, SendFirstNoPsns
<1> HIDE DEF t
<1>4. HasLine(t)
  <2>1. t \in ReqType
    BY <1>3 DEF ReqInv, Requester
  <2> QED BY <1>2, <1>3, <2>1, HasLineKept
<1> QED BY <1>1, <1>3, <1>4, HasLineStep

LEMMA NextHasLine ==
  ASSUME ProgSafe, HasLine(req), [Next]_vars
  PROVE  HasLine(req')
<1>1. /\ FlowSafe /\ IInv /\ FlowInv(req) /\ ReqInv(req) /\ req \in ReqType
      /\ Windows(req, Len(req.cq)) /\ toReq \in Seq(ResponseType)
      /\ Len(req.cq) \in Nat /\ Requester(req, Len(req.cq))
  BY FlowFacts DEF ProgSafe, FlowSafe, IInv
<1>2. CASE PostSend
  <2>1. PICK w \in WRs : req' = post_send(req, w) /\ Len(req.wqe) < MaxWR
    BY <1>2 DEF PostSend
  <2> QED BY <1>1, <2>1, HasLinePostSend
<1>3. CASE RequesterPass
  <2>1. first_sending_wsqe(req)
    BY <1>3 DEF RequesterPass
  <2> QED BY <1>1, <2>1, PassHasLine
<1>4. CASE TimeoutPass
  <2> DEFINE q == LocalAckTimeout(req)
  <2>1. first_sending_wsqe(q) /\ req.waiting # <<>>
    BY <1>4 DEF TimeoutPass
  <2>2. FlowInv(q) /\ Windows(q, Len(q.cq)) /\ NoPsns(req, q)
    BY <1>1, <2>1, LocalAckTimeoutFlow, LocalAckTimeoutAdvances, LocalAckTimeoutSame,
       NoPsnsSame DEF Advances
  <2> HIDE DEF q
  <2>3. HasLine(q)
    BY <2>2, HasLineKept, FlowFacts
  <2> QED BY <2>1, <2>2, <2>3, PassHasLine
<1>5. CASE ReceiveResponse
  <2> DEFINE q == IF req.state = "ERR" THEN req
                  ELSE receive_response(req, Head(toReq))
  <2>1. toReq # <<>> /\ RequesterStep(q)
    BY <1>5 DEF ReceiveResponse
  <2>2. Head(toReq) \in ResponseType
    BY <1>1, <2>1, WireType
  <2>3. ReqInv(q) /\ NoPsns(req, q)
    BY <1>1, <2>2, receive_responseType, receive_responseNoPsns, NoPsnsWqe
  <2> HIDE DEF q
  <2>4. HasLine(q)
    <3>1. q \in ReqType
      BY <2>3 DEF ReqInv, Requester
    <3> QED BY <2>3, <3>1, HasLineKept
  <2> QED BY <2>1, <2>3, <2>4, HasLineStep
<1>6. ASSUME UNCHANGED req PROVE HasLine(req')
  BY <1>6
<1>7. CASE PostRecv \/ DeregMr \/ ReceiveRequest \/ ResponderPass \/ NetworkFault
  BY <1>6, <1>7 DEF PostRecv, DeregMr, ReceiveRequest, ResponderPass, NetworkFault
<1>8. CASE UNCHANGED vars
  BY <1>6, <1>8 DEF vars
<1> QED BY <1>2, <1>3, <1>4, <1>5, <1>7, <1>8 DEF Next

(* What a step executes at the responder: nothing, or the packet that      *)
(* arrives.                                                                *)
LEMMA NextExecutes ==
  ASSUME ProgSafe, [Next]_vars
  PROVE  \/ rsp' = rsp
         \/ req' = req /\ Stands(rsp, rsp')
         \/ req' = req /\ \E p \in Requests(req) : Executes(rsp, rsp', p)
<1>1. /\ rsp \in RspType /\ (rsp.on => rsp.acks # <<>>) /\ req \in ReqType
      /\ toRsp \in Seq(Requests(req))
  BY FlowFacts DEF ProgSafe, FlowSafe, IInv
<1>2. CASE PostSend \/ RequesterPass \/ TimeoutPass \/ ReceiveResponse \/ NetworkFault
  BY <1>2 DEF PostSend, RequesterPass, TimeoutPass, ReceiveResponse, NetworkFault
<1>3. CASE UNCHANGED vars
  BY <1>3 DEF vars
<1>4. CASE PostRecv
  <2>1. PICK size \in RecvSizes : rsp' = post_recv(rsp, size)
    BY <1>4 DEF PostRecv
  <2>2. req' = req
    BY <1>4 DEF PostRecv
  <2> QED BY <1>1, <2>1, <2>2, post_recvIdles DEF Idles
<1>5. CASE DeregMr
  <2>1. rsp' = [rsp EXCEPT !.mr = FALSE] /\ req' = req
    BY <1>5 DEF DeregMr
  <2>2. rsp'.psn = rsp.psn /\ rsp'.log = rsp.log
    BY <1>1, <2>1 DEF RspType
  <2> QED BY <2>1, <2>2 DEF Stands
<1>6. CASE ReceiveRequest
  <2> DEFINE p == Head(toRsp)
             s == receive_packet(rsp, p)
  <2>1. toRsp # <<>> /\ req' = req /\ ResponderStep(s)
    BY <1>6 DEF ReceiveRequest
  <2>2. p \in Requests(req)
    BY <1>1, <2>1, WireType
  <2>3. p \in RequestType
    BY <1>1, <2>2, GenuineLength
  <2> HIDE DEF p
  <2>4. s \in RspType /\ (Stands(rsp, s) \/ Executes(rsp, s, p))
    BY <1>1, <2>3, receive_packetType, receive_packetExecutes
  <2> HIDE DEF s
  <2>5. Stands(s, rsp')
    BY <2>1, <2>4, ResponderStepStands
  <2>6. Stands(rsp, rsp') \/ Executes(rsp, rsp', p)
    BY <2>4, <2>5 DEF Stands, Executes
  <2> QED BY <2>1, <2>2, <2>6
<1>7. CASE ResponderPass
  <2> DEFINE s == pib_generate_rc_qp_acknowledge(rsp)
  <2>1. rsp.acks # <<>> /\ req' = req
    BY <1>1, <1>7 DEF ResponderPass
  <2>a. ResponderStep(s)
    BY <1>7 DEF ResponderPass
  <2>2. s \in RspType /\ Stands(rsp, s)
    BY <1>1, <2>1, AcknowledgeType, AcknowledgeStands
  <2> HIDE DEF s
  <2>3. Stands(rsp, rsp')
    <3>1. Stands(s, rsp')
      BY <2>2, <2>a, ResponderStepStands, SMTT(30)
    <3> QED BY <2>2, <3>1 DEF Stands
  <2> QED BY <2>1, <2>3
<1> QED BY <1>2, <1>3, <1>4, <1>5, <1>6, <1>7 DEF Next

LEMMA NextOnce ==
  ASSUME PsnsSuffice, OnceSafe, [Next]_vars
  PROVE  OnceSafe'
<1>1. ProgSafe /\ HasLine(req)
  BY DEF OnceSafe
<1>2. PICK n \in Nat : Line(req, n) /\ Logged(rsp, req, n)
  BY DEF OnceSafe
<1>3. PICK P \in Nat : PsnsFit(P)
  BY DEF PsnsSuffice
<1>4. ProgSafe' /\ Continues(req, req') /\ HasLine(req')
  BY <1>1, NextProg, NextHasLine DEF Onward
<1>5. \E m \in Nat : Line(req', m) /\ Logged(rsp', req', m)
  <2>1. CASE rsp' = rsp
    <3>1. PICK m \in Nat : Line(req', m)
      BY <1>4 DEF HasLine
    <3>2. Logged(rsp, req', m)
      BY <1>2, <1>4, <3>1, LoggedStays
    <3> QED BY <2>1, <3>1, <3>2
  <2>2. ASSUME NEW p \in Requests(req), req' = req,
               Stands(rsp, rsp') \/ Executes(rsp, rsp', p)
        PROVE  Logged(rsp', req, n)
    <3>1. Len(req.wqe) <= MaxWR
      BY <1>1 DEF HasLine
    <3> QED BY <1>2, <1>3, <2>2, <3>1, ExecutesLogged
  <2>3. CASE req' = req /\ Stands(rsp, rsp')
    <3>1. Logged(rsp', req, n)
      BY <1>2, <2>3 DEF Stands, Logged
    <3> QED BY <1>2, <2>3, <3>1
  <2>4. CASE req' = req /\ \E p \in Requests(req) : Executes(rsp, rsp', p)
    <3>1. PICK p \in Requests(req) : Executes(rsp, rsp', p)
      BY <2>4
    <3>2. Logged(rsp', req, n)
      BY <2>2, <2>4, <3>1
    <3> QED BY <1>2, <2>4, <3>2
  <2> QED BY <1>1, <2>1, <2>3, <2>4, NextExecutes
<1> QED BY <1>4, <1>5
        DEF OnceSafe, HasLine, Line, Logged, Chained, PsnAfter, Numbered, InSequence,
            IsEntry, Entries, Following, Complete, PsnPast

LEMMA OnceIsExact == OnceSafe => ExactlyOnceInOrder
<1> SUFFICES ASSUME OnceSafe PROVE ExactlyOnceInOrder
  OBVIOUS
<1>1. PICK n \in Nat : Line(req, n) /\ Logged(rsp, req, n)
  BY DEF OnceSafe
<1> DEFINE g == rsp.log
           L == Len(g)
<1>2. g \in Seq(Nat \X Int) /\ L \in Nat /\ DOMAIN g = 1 .. L
  BY <1>1 DEF Logged
<1>3. ASSUME NEW j \in 1 .. L
      PROVE  g[j] = IF j = 1 THEN <<1, 0>>
                    ELSE LET i == g[j - 1][1]
                             k == g[j - 1][2]
                         IN  IF k + 1 < ExecPackets(i) THEN <<i, k + 1>> ELSE <<i + 1, 0>>
  <2>1. g[j] = IF j = 1 THEN <<1, 0>> ELSE Following(req, g[j - 1])
    BY <1>1 DEF Logged, InSequence
  <2> HIDE DEF g
  <2> QED BY <2>1 DEF Following, ExecPackets, Entries, Op, Pkts
<1>4. g # <<>> =>
        LET last == g[L]
            e    == req.wqe[last[1]]
        IN  rsp.psn = IF e.wr.op = "READ" THEN e.expected_psn
                      ELSE e.based_psn + last[2] + 1
  <2>1. ASSUME g # <<>> PROVE L # 0
    BY <1>2, <2>1
  <2>2. L # 0 => rsp.psn = PsnPast(req.wqe[g[L][1]], g[L][2])
    BY <1>1 DEF Logged
  <2> HIDE DEF g, L
  <2> QED BY <2>1, <2>2 DEF PsnPast
<1> QED BY <1>2, <1>3, <1>4 DEF ExactlyOnceInOrder

(* Whatever the network loses, repeats, delays or reorders and however     *)
(* often the requester resends: the responder executes every packet once   *)
(* and in the order of the posts (receive_request's comparison of PSNs),   *)
(* for all windows, retry counts and message lengths for which the PSNs of *)
(* the connection stay within half of PsnMod.                              *)
THEOREM ExecutedOnceInOrder == PsnsSuffice => (Spec => []ExactlyOnceInOrder)
<1> SUFFICES ASSUME PsnsSuffice PROVE Spec => []ExactlyOnceInOrder
  OBVIOUS
<1>1. OnceSafe /\ [Next]_vars => OnceSafe'
  BY NextOnce
<1> QED BY InitOnce, <1>1, OnceIsExact, PTL DEF Spec

-----------------------------------------------------------------------------
(* The requester believes no more than the responder did                   *)
(* (SuccessMeansExecuted): every acknowledge on the responder's list and   *)
(* every answer on the wire speaks of packets the responder has executed.  *)

(* psn is that of a packet before x, the PSN the responder expects next.   *)
Vouched(psn, x) ==
  \E y \in Int : InitPsn <= y /\ y < x /\ Masked(psn) = Masked(y)

(* Acknowledges that say nothing about executed packets: a NAK that asks   *)
(* to send again.                                                          *)
Busy == {a \in AckType : a.type = "NORMAL" /\ a.synd \in {"RNR", "PSN_SEQ"}}

(* The positive answers to the request p.                                  *)
Replies(p) ==
  {a \in AckType :
     /\ a.synd = "ACK" /\ a.psn = p.psn
     /\ a.type = "READ" => a.offset = 0 /\ a.size = Length(p)}

(* The responder executed p.                                               *)
Ran(r, s, p) ==
  s.log = Append(r.log, <<p.wr, p.k>>) /\ s.psn = r.psn + Length(p)

(* The acknowledges of s belong to S if the answers to p do, should it be  *)
(* executed.                                                               *)
Replied(r, s, p, S) == (Ran(r, s, p) => Replies(p) \subseteq S) => s.acks \in Seq(S)

-----------------------------------------------------------------------------
(* Operations of the responder on its list of acknowledges                 *)

LEMMA FlushedAcks ==
  ASSUME NEW r \in RspType
  PROVE  flush_rsp(r).acks = <<>>
<1> DEFINE e   == <<>>
           z   == 0
           wcs == [i \in DOMAIN r.rq |->
                     [wr |-> r.rq[i].id, status |-> "WR_FLUSH_ERR", data |-> e]]
           cq  == r.cq \o wcs
           r1  == [r EXCEPT !.state = "ERR", !.rq = e, !.acks = e,
                            !.nr_rd_atomic = z, !.cq = cq]
           b   == /\ r1.state = "RTS" /\ r1.acks # <<>>
                  /\ r1.nr_contig_read_acks < MaxContigReads
           r2  == [r1 EXCEPT !.on = b]
           r3  == [r2 EXCEPT !.nr_contig_read_acks = z]
<1>1. flush_rsp(r) = r3
  BY DEF flush_rsp, reschedule_rsp
<1> HIDE DEF b, cq, z
<1>2. r3.acks = e
  <2> HIDE DEF e
  <2> QED BY DEF RspType
<1> QED BY <1>1, <1>2

LEMMA EmptiedAcks ==
  ASSUME NEW r \in RspType, NEW S
  PROVE  /\ flush_rsp(r).acks \in Seq(S)
         /\ flush_rsp(abort_active_rwqe(r)).acks \in Seq(S)
         /\ \A psn \in Int, synd \in Syndromes : Refuse(r, psn, synd).acks \in Seq(S)
         /\ r.rq # <<>> => \A status \in Statuses :
              CompletionErrorRsp(r, status).acks \in Seq(S)
<1> DEFINE e == <<>>
<1>1. e \in Seq(S)
  OBVIOUS
<1>2. ASSUME NEW s \in RspType PROVE flush_rsp(abort_active_rwqe(s)).acks \in Seq(S)
  <2>1. abort_active_rwqe(s) \in RspType
    <3>1. "GENERAL_ERR" \in Statuses
      BY DEF Statuses
    <3> QED BY <3>1, FailRwqeType DEF abort_active_rwqe
  <2> QED BY <1>1, <2>1, FlushedAcks
<1>3. ASSUME NEW psn \in Int, NEW synd \in Syndromes
      PROVE  Refuse(r, psn, synd).acks \in Seq(S)
  <2> DEFINE s == push_acknowledge(r, psn, synd)
  <2>1. s \in RspType
    BY push_acknowledgeType
  <2> HIDE DEF s
  <2>2. flush_rsp(abort_active_rwqe(s)).acks \in Seq(S)
    BY <1>2, <2>1
  <2> QED BY <2>2 DEF Refuse, insert_async_qp_error, s
<1>4. ASSUME r.rq # <<>>, NEW status \in Statuses
      PROVE  CompletionErrorRsp(r, status).acks \in Seq(S)
  <2> DEFINE s == FailRwqe(r, status)
  <2>1. s \in RspType
    BY <1>4, FailRwqeType
  <2> HIDE DEF s
  <2>2. flush_rsp(s).acks \in Seq(S)
    BY <1>1, <2>1, FlushedAcks
  <2> QED BY <2>2 DEF CompletionErrorRsp, s
<1>5. flush_rsp(r).acks \in Seq(S)
  BY <1>1, FlushedAcks
<1> QED BY <1>2, <1>3, <1>4, <1>5

LEMMA push_acknowledgeAcks ==
  ASSUME NEW r \in RspType, NEW psn \in Int, NEW synd \in Syndromes, NEW S,
         r.acks \in Seq(S),
         \A a \in AckType : a.type = "NORMAL" /\ a.synd = synd /\ a.psn = psn => a \in S
  PROVE  push_acknowledge(r, psn, synd).acks \in Seq(S)
<1> DEFINE n  == Len(r.acks)
           a  == NewAck("NORMAL", psn, psn + 1)
           b  == [a EXCEPT !.synd = synd]
           k1 == [r.acks EXCEPT ![n] = a]
           k2 == Append(r.acks, b)
           c  == IF synd = "ACK" THEN r.nr_contig_read_acks ELSE 0
           r1 == [r EXCEPT !.acks = k1]
           r2 == [r EXCEPT !.acks = k2, !.nr_contig_read_acks = c]
           p  == push_acknowledge(r, psn, synd)
<1>1. p = r \/ (p = r1 /\ synd = "ACK") \/ p = r2
  BY DEF push_acknowledge
<1>2. a \in AckType /\ a.type = "NORMAL" /\ a.synd = "ACK" /\ a.psn = psn
  <2>1. psn + 1 \in Int
    OBVIOUS
  <2>2. a \in AckType
    BY <2>1, NewAckType
  <2> QED BY <2>2 DEF NewAck
<1> HIDE DEF a
<1>3. b \in AckType /\ b.type = "NORMAL" /\ b.synd = synd /\ b.psn = psn
  BY <1>2 DEF AckType
<1> HIDE DEF b
<1>4. b \in S /\ (synd = "ACK" => a \in S)
  BY <1>2, <1>3
<1>5. synd = "ACK" => k1 \in Seq(S)
  BY <1>4, SetElement
<1>6. k2 \in Seq(S)
  BY <1>4
<1> HIDE DEF k1, k2, c
<1>7. r1.acks = k1 /\ r2.acks = k2
  BY DEF RspType
<1> HIDE DEF r1, r2, p
<1>8. p.acks \in Seq(S)
  BY <1>1, <1>5, <1>6, <1>7
<1> QED BY <1>8 DEF p

LEMMA RemoveOverlappedAcks ==
  ASSUME NEW r \in RspType, NEW psn, NEW expected_psn, NEW S, r.acks \in Seq(S)
  PROVE  remove_overlapped_rdma_read_acknowledge(r, psn, expected_psn).acks \in Seq(S)
<1> DEFINE gone == Overlapped(r, psn, expected_psn)
           k == Without(r.acks, gone)
           n == r.nr_rd_atomic - Cardinality({i \in gone : IsRdAtomicAck(r.acks[i])})
           p == [r EXCEPT !.acks = k, !.nr_rd_atomic = n]
<1>1. remove_overlapped_rdma_read_acknowledge(r, psn, expected_psn) = p
  BY DEF remove_overlapped_rdma_read_acknowledge
<1>2. k \in Seq(S)
  <2> HIDE DEF gone
  <2> QED BY WithoutType
<1> HIDE DEF k, n
<1>3. p.acks = k
  BY DEF RspType
<1> QED BY <1>1, <1>2, <1>3

LEMMA push_atomic_acknowledgeAcks ==
  ASSUME NEW r \in RspType, NEW p \in RequestType, NEW res \in Int, NEW S,
         r.acks \in Seq(S), Replies(p) \subseteq S
  PROVE  push_atomic_acknowledge(r, p.psn, res).acks \in Seq(S)
<1> DEFINE a == NewAck("ATOMIC", p.psn, p.psn + 1)
           b == [a EXCEPT !.res = res]
           k == Append(r.acks, b)
           n == r.nr_rd_atomic + 1
           s == [r EXCEPT !.acks = k, !.nr_rd_atomic = n]
<1>1. push_atomic_acknowledge(r, p.psn, res) = s
  BY DEF push_atomic_acknowledge
<1>2. a \in AckType /\ a.type = "ATOMIC" /\ a.synd = "ACK" /\ a.psn = p.psn
  <2>1. p.psn \in Int
    BY RequestFields
  <2>2. p.psn + 1 \in Int
    BY <2>1
  <2>3. a \in AckType
    BY <2>1, <2>2, NewAckType
  <2> QED BY <2>3 DEF NewAck
<1> HIDE DEF a
<1>3. b \in AckType /\ b.type = "ATOMIC" /\ b.synd = "ACK" /\ b.psn = p.psn
  BY <1>2 DEF AckType
<1> HIDE DEF b
<1>4. b \in S
  BY <1>3 DEF Replies
<1>5. k \in Seq(S)
  BY <1>4
<1> HIDE DEF k, n
<1>6. s.acks = k
  BY DEF RspType
<1> QED BY <1>1, <1>5, <1>6

LEMMA push_rdma_read_acknowledgeAcks ==
  ASSUME NEW r \in RspType, NEW p \in RequestType, NEW expected_psn \in Int, NEW S,
         r.acks \in Seq(S), Replies(p) \subseteq S, Length(p) = p.dmalen
  PROVE  push_rdma_read_acknowledge(r, p, expected_psn).acks \in Seq(S)
<1> DEFINE a == NewAck("READ", p.psn, expected_psn)
           b == [a EXCEPT !.wr = p.wr, !.k = p.k, !.size = p.dmalen]
           k == Append(r.acks, b)
           n == r.nr_rd_atomic + 1
           s == [r EXCEPT !.acks = k, !.nr_rd_atomic = n]
<1>1. push_rdma_read_acknowledge(r, p, expected_psn) = s
  BY DEF push_rdma_read_acknowledge
<1>2. p.psn \in Int /\ p.wr \in Nat /\ p.k \in Int /\ p.dmalen \in Int
  BY DEF RequestType
<1>3. /\ a \in AckType /\ a.type = "READ" /\ a.synd = "ACK" /\ a.psn = p.psn
      /\ a.offset = 0
  <2>1. a \in AckType
    BY <1>2, NewAckType
  <2> QED BY <2>1 DEF NewAck
<1> HIDE DEF a
<1>4. /\ b \in AckType /\ b.type = "READ" /\ b.synd = "ACK" /\ b.psn = p.psn
      /\ b.offset = 0 /\ b.size = p.dmalen
  BY <1>2, <1>3 DEF AckType
<1> HIDE DEF b
<1>5. b \in S
  BY <1>4 DEF Replies
<1>6. k \in Seq(S)
  BY <1>5
<1> HIDE DEF k, n
<1>7. s.acks = k
  BY DEF RspType
<1> QED BY <1>1, <1>6, <1>7

LEMMA AnswerReadAcks ==
  ASSUME NEW r \in RspType, NEW p \in RequestType, NEW expected_psn \in Int, NEW S,
         r.acks \in Seq(S), Replies(p) \subseteq S, Length(p) = p.dmalen
  PROVE  AnswerRead(r, p, expected_psn).acks \in Seq(S)
<1> DEFINE b == remove_overlapped_rdma_read_acknowledge(r, p.psn, expected_psn)
           a == push_rdma_read_acknowledge(b, p, expected_psn)
           z == 0
           s == [a EXCEPT !.nr_contig_read_acks = z]
<1>1. AnswerRead(r, p, expected_psn) = s
  BY DEF AnswerRead
<1>2. b.acks \in Seq(S) /\ b \in RspType
  BY RemoveOverlappedType, RemoveOverlappedAcks
<1> HIDE DEF b
<1>3. a.acks \in Seq(S) /\ a \in RspType
  BY <1>2, push_rdma_read_acknowledgeType, push_rdma_read_acknowledgeAcks
<1> HIDE DEF a, z
<1>4. s.acks = a.acks
  BY <1>3 DEF RspType
<1> QED BY <1>1, <1>3, <1>4

-----------------------------------------------------------------------------
(* New requests                                                            *)

(* Nothing is executed and no acknowledge comes or goes.                   *)
Holds(r, s) == Idles(r, s) /\ s.acks = r.acks

LEMMA HoldsTrans ==
  ASSUME NEW r, NEW s, NEW t, Holds(r, s), Holds(s, t)
  PROVE  Holds(r, t)
BY IdlesTrans DEF Holds

LEMMA CompleteRwqeHolds ==
  ASSUME NEW r \in RspType, r.rq # <<>>
  PROVE  Holds(r, CompleteRwqe(r))
<1> DEFINE s == insert_recv_wc(r, Head(r.rq).id, "SUCCESS", r.data)
           t == Tail(s.rq)
           p == [s EXCEPT !.rq = t]
<1>1. CompleteRwqe(r) = p
  BY DEF CompleteRwqe
<1>2. s.acks = r.acks /\ DOMAIN s = DOMAIN r
  BY DEF insert_recv_wc, RspType
<1> HIDE DEF s, t
<1>3. p.acks = s.acks
  BY <1>2 DEF RspType
<1> QED BY <1>1, <1>2, <1>3, CompleteRwqeIdles DEF Holds

LEMMA ArriveHolds ==
  ASSUME NEW r \in RspType, NEW p
  PROVE  Holds(r, [r EXCEPT !.data = Append(@, <<p.wr, p.k>>)])
<1> DEFINE d == Append(r.data, <<p.wr, p.k>>)
           s == [r EXCEPT !.data = d]
<1>1. [r EXCEPT !.data = Append(@, <<p.wr, p.k>>)] = s
  OBVIOUS
<1> HIDE DEF d
<1>2. s.acks = r.acks
  BY DEF RspType
<1> QED BY <1>1, <1>2, ArriveIdles DEF Holds

LEMMA RememberSlotHolds ==
  ASSUME NEW r \in RspType, NEW p, NEW n, NEW res
  PROVE  Holds(r, RememberSlot(r, p, n, res))
<1> DEFINE slot == [op |-> p.op, psn |-> r.psn, expected_psn |-> r.psn + n,
                    wr |-> p.wr, k |-> p.k, dmalen |-> p.dmalen, res |-> res]
           all  == <<slot>> \o r.slots
           l    == IF Len(all) <= MaxDestRdAtomic THEN all
                   ELSE SubSeq(all, 1, MaxDestRdAtomic)
           s    == [r EXCEPT !.slots = l]
<1>1. RememberSlot(r, p, n, res) = s
  BY DEF RememberSlot
<1> HIDE DEF l
<1>2. s.acks = r.acks
  BY DEF RspType
<1> QED BY <1>1, <1>2, RememberSlotIdles DEF Holds

LEMMA AcceptReplied ==
  ASSUME NEW r, NEW s \in RspType, Idles(r, s), NEW p, NEW n, n = Length(p), NEW S,
         Replies(p) \subseteq S => s.acks \in Seq(S)
  PROVE  Replied(r, Accept(s, p, n), p, S)
<1> DEFINE l == Append(s.log, <<p.wr, p.k>>)
           m == s.psn + n
           t == [s EXCEPT !.psn = m, !.last_OpCode = p.op, !.log = l]
<1>1. Accept(s, p, n) = t
  BY DEF Accept
<1>2. l = Append(r.log, <<p.wr, p.k>>) /\ m = r.psn + Length(p)
  BY DEF Idles, Stands
<1> HIDE DEF l, m
<1>3. t.log = l /\ t.psn = m /\ t.acks = s.acks
  BY DEF RspType
<1> QED BY <1>1, <1>2, <1>3 DEF Replied, Ran

LEMMA RepliedTrans ==
  ASSUME NEW r, NEW s, Idles(r, s), NEW t, NEW p, NEW S, Replied(s, t, p, S)
  PROVE  Replied(r, t, p, S)
BY DEF Idles, Stands, Replied, Ran

LEMMA ExecuteReplied ==
  ASSUME NEW r \in RspType, NEW s \in RspType, Holds(r, s), NEW p \in RequestType,
         Length(p) = 1, NEW S, r.acks \in Seq(S)
  PROVE  Replied(r, Accept(push_acknowledge(s, p.psn, "ACK"), p, 1), p, S)
<1> DEFINE a == push_acknowledge(s, p.psn, "ACK")
<1>1. p.psn \in Int /\ "ACK" \in Syndromes
  BY RequestFields, SyndromeNames
<1>2. Idles(s, a) /\ a \in RspType
  BY <1>1, push_acknowledgeIdles, push_acknowledgeType
<1>3. ASSUME Replies(p) \subseteq S PROVE a.acks \in Seq(S)
  <2>1. \A x \in AckType :
          x.type = "NORMAL" /\ x.synd = "ACK" /\ x.psn = p.psn => x \in S
    BY <1>3 DEF Replies
  <2>2. s.acks \in Seq(S)
    BY DEF Holds
  <2> QED BY <1>1, <2>1, <2>2, push_acknowledgeAcks
<1> HIDE DEF a
<1>4. Idles(r, a)
  BY <1>2, IdlesTrans DEF Holds
<1>5. Replied(r, Accept(a, p, 1), p, S)
  BY <1>2, <1>3, <1>4, AcceptReplied
<1> QED BY <1>5 DEF a

LEMMA BusyAcks ==
  ASSUME NEW r \in RspType, NEW p \in RequestType, NEW S, Busy \subseteq S,
         r.acks \in Seq(S)
  PROVE  /\ push_acknowledge(r, p.psn, "RNR").acks \in Seq(S)
         /\ push_acknowledge(r, p.psn, "PSN_SEQ").acks \in Seq(S)
<1>1. p.psn \in Int /\ "RNR" \in Syndromes /\ "PSN_SEQ" \in Syndromes
  BY RequestFields, SyndromeNames
<1>2. ASSUME NEW x \in AckType, x.type = "NORMAL", x.synd = "RNR" \/ x.synd = "PSN_SEQ"
      PROVE  x \in S
  BY <1>2 DEF Busy
<1>3. \A a \in AckType : a.type = "NORMAL" /\ a.synd = "RNR" /\ a.psn = p.psn => a \in S
  BY <1>2
<1>4. \A a \in AckType :
        a.type = "NORMAL" /\ a.synd = "PSN_SEQ" /\ a.psn = p.psn => a \in S
  BY <1>2
<1> QED BY <1>1, <1>3, <1>4, push_acknowledgeAcks

LEMMA receive_SEND_packetReplied ==
  ASSUME NEW r \in RspType, NEW p \in RequestType, p.op \in RequestOpcodes,
         Length(p) = 1, NEW S, Busy \subseteq S, r.acks \in Seq(S)
  PROVE  Replied(r, receive_SEND_packet(r, p), p, S)
<1> DEFINE r1 == [r EXCEPT !.data = Append(@, <<p.wr, p.k>>)]
           r2 == IF IsFinit(p.op) THEN CompleteRwqe(r1) ELSE r1
           nak == push_acknowledge(r, p.psn, "REM_OP")
           res == receive_SEND_packet(r, p)
<1>1. p.psn \in Int /\ {"ACK", "RNR", "REM_OP"} \subseteq Syndromes
  BY RequestFields, SyndromeNames
<1>2. r1 \in RspType /\ r1.rq = r.rq /\ Holds(r, r1)
  BY ArriveType, ArriveHolds
<1>3. nak \in RspType /\ nak.rq = r.rq
  BY <1>1, push_acknowledgeType
<1>4. \/ res = push_acknowledge(r, p.psn, "RNR")
      \/ r.rq # <<>> /\ res = CompletionErrorRsp(nak, "LOC_PROT_ERR")
      \/ r.rq # <<>> /\ res = CompletionErrorRsp(r, "MW_BIND_ERR")
      \/ r.rq # <<>> /\ res = Accept(push_acknowledge(r2, p.psn, "ACK"), p, 1)
  <2>1. res =
          IF r.rq = <<>> THEN push_acknowledge(r, p.psn, "RNR")
          ELSE IF Head(r.rq).size < Len(r.data) + 1
               THEN CompletionErrorRsp(nak, "LOC_PROT_ERR")
          ELSE IF WithInv(p.op) THEN CompletionErrorRsp(r, "MW_BIND_ERR")
          ELSE Accept(push_acknowledge(r2, p.psn, "ACK"), p, 1)
    BY Zenon DEF receive_SEND_packet
  <2> HIDE DEF r2, nak, res
  <2> QED BY <2>1
<1>5. ASSUME r.rq # <<>>
      PROVE  /\ CompletionErrorRsp(nak, "LOC_PROT_ERR").acks \in Seq(S)
             /\ CompletionErrorRsp(r, "MW_BIND_ERR").acks \in Seq(S)
             /\ Replied(r, Accept(push_acknowledge(r2, p.psn, "ACK"), p, 1), p, S)
  <2> HIDE DEF r1, nak
  <2>1. "LOC_PROT_ERR" \in Statuses /\ "MW_BIND_ERR" \in Statuses
    BY DEF Statuses
  <2>2. /\ CompletionErrorRsp(nak, "LOC_PROT_ERR").acks \in Seq(S)
        /\ CompletionErrorRsp(r, "MW_BIND_ERR").acks \in Seq(S)
    BY <1>3, <1>5, <2>1, EmptiedAcks
  <2>3. Holds(r, r2) /\ r2 \in RspType
    <3>1. Holds(r1, CompleteRwqe(r1)) /\ CompleteRwqe(r1) \in RspType
      BY <1>2, <1>5, CompleteRwqeHolds, CompleteRwqeType
    <3>2. Holds(r, CompleteRwqe(r1))
      BY <1>2, <3>1, HoldsTrans
    <3> QED BY <1>2, <3>1, <3>2
  <2> HIDE DEF r2
  <2> QED BY <2>2, <2>3, ExecuteReplied
<1>6. push_acknowledge(r, p.psn, "RNR").acks \in Seq(S)
  BY BusyAcks
<1> HIDE DEF r2, nak, res
<1>7. Replied(r, res, p, S)
  <2>1. ASSUME res.acks \in Seq(S) PROVE Replied(r, res, p, S)
    BY <2>1 DEF Replied
  <2> QED BY <1>4, <1>5, <1>6, <2>1
<1> QED BY <1>7 DEF res

LEMMA receive_SEND_requestReplied ==
  ASSUME NEW r \in RspType, NEW p \in RequestType, p.op \in RequestOpcodes,
         Length(p) = 1, NEW S, Busy \subseteq S, r.acks \in Seq(S)
  PROVE  Replied(r, receive_SEND_request(r, p), p, S)
<1> DEFINE e  == <<>>
           r1 == [r EXCEPT !.data = e]
<1>1. e \in Seq(PacketId)
  OBVIOUS
<1>2. \/ receive_SEND_request(r, p) = receive_SEND_packet(r1, p)
      \/ receive_SEND_request(r, p) = receive_SEND_packet(r, p)
  BY DEF receive_SEND_request
<1> HIDE DEF e
<1>3. r1 \in RspType /\ Idles(r, r1) /\ r1.acks = r.acks
  <2>1. r1 \in RspType
    BY <1>1 DEF RspType, PacketId
  <2>2. Idles(r, r1) /\ r1.acks = r.acks
    BY DEF RspType, Idles, Stands
  <2> QED BY <2>1, <2>2
<1> HIDE DEF r1
<1>4. Replied(r1, receive_SEND_packet(r1, p), p, S)
  BY <1>3, receive_SEND_packetReplied
<1>5. Replied(r, receive_SEND_packet(r1, p), p, S)
  BY <1>3, <1>4, RepliedTrans
<1> QED BY <1>2, <1>5, receive_SEND_packetReplied

LEMMA receive_RDMA_WRITE_requestReplied ==
  ASSUME NEW r0 \in RspType, NEW p \in RequestType, p.op \in RequestOpcodes,
         Length(p) = 1, NEW S, Busy \subseteq S, r0.acks \in Seq(S)
  PROVE  Replied(r0, receive_RDMA_WRITE_request(r0, p), p, S)
<1> DEFINE e  == <<>>
           ri == [r0 EXCEPT !.data = e, !.write_rkey = p.rkey,
                            !.write_dmalen = p.dmalen]
           r  == IF IsInit(p.op) THEN ri ELSE r0
           r1 == [r EXCEPT !.data = Append(@, <<p.wr, p.k>>)]
           r2 == IF WithImm(p.op) THEN CompleteRwqe(r1) ELSE r1
           nak == push_acknowledge(r, p.psn, "REM_ACCESS")
           res == receive_RDMA_WRITE_request(r0, p)
<1>1. /\ p.psn \in Int /\ p.rkey \in BOOLEAN /\ p.dmalen \in Int
      /\ {"ACK", "RNR", "INV_REQ", "REM_ACCESS"} \subseteq Syndromes
      /\ "LOC_PROT_ERR" \in Statuses
  BY RequestFields, SyndromeNames DEF Statuses
<1>2. \/ res = push_acknowledge(r, p.psn, "RNR")
      \/ res = Refuse(r, p.psn, "INV_REQ")
      \/ WithImm(p.op) /\ r.rq # <<>> /\ res = CompletionErrorRsp(nak, "LOC_PROT_ERR")
      \/ res = flush_rsp(abort_active_rwqe(nak))
      \/ /\ WithImm(p.op) => r.rq # <<>>
         /\ res = Accept(push_acknowledge(r2, p.psn, "ACK"), p, 1)
  <2>1. res =
      IF WithImm(p.op) /\ r.rq = <<>> THEN push_acknowledge(r, p.psn, "RNR")
      ELSE IF \/ r.write_dmalen < Len(r.data) + 1
              \/ IsFinit(p.op) /\ r.write_dmalen # Len(r.data) + 1
           THEN Refuse(r, p.psn, "INV_REQ")
      ELSE IF ~(r.write_rkey /\ r.mr)
           THEN IF WithImm(p.op) THEN CompletionErrorRsp(nak, "LOC_PROT_ERR")
                ELSE flush_rsp(abort_active_rwqe(nak))
      ELSE Accept(push_acknowledge(r2, p.psn, "ACK"), p, 1)
    BY Zenon DEF receive_RDMA_WRITE_request
  <2> HIDE DEF r, r1, r2, nak, res
  <2>2. CASE WithImm(p.op) /\ r.rq = <<>>
    BY <2>1, <2>2
  <2>3. CASE ~(WithImm(p.op) /\ r.rq = <<>>)
    BY <2>1, <2>3
  <2> QED BY <2>2, <2>3
<1>3. e \in Seq(PacketId)
  OBVIOUS
<1> HIDE DEF e
<1>4. ri \in RspType
  BY <1>1, <1>3 DEF RspType, PacketId
<1>5. Holds(r0, ri)
  BY DEF RspType, Idles, Stands, Holds
<1> HIDE DEF ri
<1>6. Idles(r0, r) /\ r.acks \in Seq(S) /\ r \in RspType
  BY <1>4, <1>5 DEF Idles, Stands, Holds
<1> HIDE DEF r
<1>7. r1 \in RspType /\ r1.rq = r.rq /\ Holds(r, r1)
  BY <1>6, ArriveType, ArriveHolds
<1>8. nak \in RspType /\ nak.rq = r.rq
  BY <1>1, <1>6, push_acknowledgeType
<1>9. /\ push_acknowledge(r, p.psn, "RNR").acks \in Seq(S)
      /\ Refuse(r, p.psn, "INV_REQ").acks \in Seq(S)
  BY <1>1, <1>6, BusyAcks, EmptiedAcks
<1> HIDE DEF r1, nak
<1>10. /\ flush_rsp(abort_active_rwqe(nak)).acks \in Seq(S)
       /\ r.rq # <<>> => CompletionErrorRsp(nak, "LOC_PROT_ERR").acks \in Seq(S)
  BY <1>1, <1>8, EmptiedAcks
<1>11. ASSUME WithImm(p.op) => r.rq # <<>>
       PROVE  Replied(r, Accept(push_acknowledge(r2, p.psn, "ACK"), p, 1), p, S)
  <2>1. Holds(r, r2) /\ r2 \in RspType
    <3>1. WithImm(p.op) => Holds(r1, CompleteRwqe(r1)) /\ CompleteRwqe(r1) \in RspType
      BY <1>7, <1>11, CompleteRwqeHolds, CompleteRwqeType
    <3>2. WithImm(p.op) => Holds(r, CompleteRwqe(r1))
      BY <1>7, <3>1, HoldsTrans
    <3> QED BY <1>7, <3>1, <3>2
  <2> HIDE DEF r2
  <2> QED BY <1>6, <2>1, ExecuteReplied
<1> HIDE DEF r2, res
<1>12. Replied(r, res, p, S)
  <2>1. ASSUME res.acks \in Seq(S) PROVE Replied(r, res, p, S)
    BY <2>1 DEF Replied
  <2> QED BY <1>2, <1>9, <1>10, <1>11, <2>1
<1>13. Replied(r0, res, p, S)
  BY <1>6, <1>12, RepliedTrans
<1> QED BY <1>13 DEF res

LEMMA receive_Atomic_requestReplied ==
  ASSUME NEW r \in RspType, NEW p \in RequestType, p.op \in RequestOpcodes,
         Length(p) = 1, NEW S, r.acks \in Seq(S)
  PROVE  Replied(r, receive_Atomic_request(r, p), p, S)
<1> DEFINE direction == IF IB_OPCODE_RC[p.op] = IB_WR_ATOMIC_CMP_AND_SWP
                        THEN "CAS" ELSE "FETCHADD"
           s  == RememberSlot(r, p, 1, r.word)
           w  == mr_copy_data_sub(s.word, direction, CompareAdd(p.op))
           r1 == [s EXCEPT !.word = w]
           res == receive_Atomic_request(r, p)
<1>1. r.word \in Int /\ p.psn \in Int /\ {"INV_REQ", "REM_ACCESS"} \subseteq Syndromes
  BY RspFields, RequestFields, SyndromeNames
<1>2. \/ res = Refuse(r, p.psn, "INV_REQ")
      \/ res = Refuse(r, p.psn, "REM_ACCESS")
      \/ res = Accept(push_atomic_acknowledge(r1, p.psn, r.word), p, 1)
  <2>1. res =
          IF MaxDestRdAtomic <= r.nr_rd_atomic THEN Refuse(r, p.psn, "INV_REQ")
          ELSE IF ~(p.rkey /\ r.mr) THEN Refuse(r, p.psn, "REM_ACCESS")
          ELSE Accept(push_atomic_acknowledge(r1, p.psn, r.word), p, 1)
    BY Zenon DEF receive_Atomic_request
  <2> HIDE DEF r1, res
  <2> QED BY <2>1
<1> HIDE DEF direction
<1>3. s \in RspType /\ s.word = r.word /\ Holds(r, s)
  BY <1>1, RememberSlotType, RememberSlotHolds
<1>4. w \in Int
  <2> DEFINE x == s.word
             y == CompareAdd(p.op)
  <2>1. x \in Int /\ y \in Int
    BY <1>1, <1>3 DEF CompareAdd
  <2> HIDE DEF x, y
  <2>2. mr_copy_data_sub(x, direction, y) \in Int
    BY <2>1 DEF mr_copy_data_sub, Swap
  <2> QED BY <2>2 DEF x, y
<1> HIDE DEF s, w
<1>5. r1 \in RspType /\ Holds(s, r1)
  <2>1. r1 \in RspType
    BY <1>3, <1>4, ZenonT(30) DEF RspType
  <2>2. Holds(s, r1)
    BY <1>3 DEF RspType, Idles, Stands, Holds
  <2> QED BY <2>1, <2>2
<1> HIDE DEF r1
<1>6. Holds(r, r1)
  BY <1>3, <1>5, HoldsTrans
<1> DEFINE a == push_atomic_acknowledge(r1, p.psn, r.word)
<1>7. Idles(r1, a) /\ a \in RspType
  BY <1>1, <1>5, push_atomic_acknowledgeType, push_atomic_acknowledgeIdles
<1>8. ASSUME Replies(p) \subseteq S PROVE a.acks \in Seq(S)
  <2>1. r1.acks \in Seq(S)
    BY <1>6 DEF Holds
  <2> QED BY <1>1, <1>5, <1>8, <2>1, push_atomic_acknowledgeAcks
<1> HIDE DEF a
<1>9. Idles(r, a)
  BY <1>6, <1>7, IdlesTrans DEF Holds
<1>10. Replied(r, Accept(a, p, 1), p, S)
  BY <1>7, <1>8, <1>9, AcceptReplied
<1>11. /\ Refuse(r, p.psn, "INV_REQ").acks \in Seq(S)
       /\ Refuse(r, p.psn, "REM_ACCESS").acks \in Seq(S)
  BY <1>1, EmptiedAcks
<1> HIDE DEF res
<1>12. Replied(r, res, p, S)
  <2>1. ASSUME res.acks \in Seq(S) PROVE Replied(r, res, p, S)
    BY <2>1 DEF Replied
  <2> QED BY <1>2, <1>10, <1>11, <2>1 DEF a
<1> QED BY <1>12 DEF res

LEMMA receive_new_RDMA_READ_requestReplied ==
  ASSUME NEW r \in RspType, NEW p \in RequestType, p.op \in RequestOpcodes,
         Length(p) = p.dmalen, NEW S, r.acks \in Seq(S)
  PROVE  Replied(r, receive_new_RDMA_READ_request(r, p), p, S)
<1> DEFINE x == r.psn + p.dmalen
           s == RememberSlot(r, p, p.dmalen, 0)
           res == receive_new_RDMA_READ_request(r, p)
<1>1. /\ r.psn \in Int /\ p.psn \in Int /\ p.dmalen \in Int
      /\ {"INV_REQ", "REM_ACCESS"} \subseteq Syndromes
  BY RspFields, RequestFields, SyndromeNames
<1>2. x \in Int
  BY <1>1
<1>3. s \in RspType /\ Holds(r, s)
  BY <1>1, RememberSlotType, RememberSlotHolds
<1>4. \/ res = Refuse(r, p.psn, "REM_ACCESS")
      \/ res = Refuse(r, p.psn, "INV_REQ")
      \/ res = Accept(AnswerRead(s, p, x), p, p.dmalen)
  BY DEF receive_new_RDMA_READ_request
<1> HIDE DEF x, s
<1> DEFINE a == AnswerRead(s, p, x)
<1>5. Idles(s, a) /\ a \in RspType
  BY <1>2, <1>3, AnswerReadType, AnswerReadIdles
<1>6. ASSUME Replies(p) \subseteq S PROVE a.acks \in Seq(S)
  <2>1. s.acks \in Seq(S)
    BY <1>3 DEF Holds
  <2> QED BY <1>2, <1>3, <1>6, <2>1, AnswerReadAcks
<1> HIDE DEF a
<1>7. Idles(r, a)
  BY <1>3, <1>5, IdlesTrans DEF Holds
<1>8. Replied(r, Accept(a, p, p.dmalen), p, S)
  BY <1>5, <1>6, <1>7, AcceptReplied
<1>9. /\ Refuse(r, p.psn, "INV_REQ").acks \in Seq(S)
      /\ Refuse(r, p.psn, "REM_ACCESS").acks \in Seq(S)
  BY <1>1, EmptiedAcks
<1> HIDE DEF res
<1>10. Replied(r, res, p, S)
  <2>1. ASSUME res.acks \in Seq(S) PROVE Replied(r, res, p, S)
    BY <2>1 DEF Replied
  <2> QED BY <1>4, <1>8, <1>9, <2>1 DEF a
<1> QED BY <1>10 DEF res

LEMMA receive_new_requestReplied ==
  ASSUME NEW r \in RspType, NEW p \in RequestType, p.op \in RequestOpcodes,
         NEW S, Busy \subseteq S, r.acks \in Seq(S)
  PROVE  Replied(r, receive_new_request(r, p), p, S)
<1>1. p.psn \in Int /\ "INV_REQ" \in Syndromes
  BY RequestFields, SyndromeNames
<1>2. Replied(r, Refuse(r, p.psn, "INV_REQ"), p, S)
  <2>1. Refuse(r, p.psn, "INV_REQ").acks \in Seq(S)
    BY <1>1, EmptiedAcks
  <2> QED BY <2>1 DEF Replied
<1> DEFINE ok == pib_opcode_is_in_order_sequence(p.op, r.last_OpCode)
           new == CASE p.op \in SendOpcodes  -> receive_SEND_request(r, p)
                    [] p.op \in WriteOpcodes -> receive_RDMA_WRITE_request(r, p)
                    [] p.op = "READ_REQUEST" -> receive_new_RDMA_READ_request(r, p)
                    [] OTHER -> receive_Atomic_request(r, p)
           D == p.op \in SendOpcodes
           W == p.op \in WriteOpcodes
           R == p.op = "READ_REQUEST"
<1>3. receive_new_request(r, p) = IF ~ok THEN Refuse(r, p.psn, "INV_REQ") ELSE new
  BY Zenon DEF receive_new_request
<1>4. ~(D /\ W) /\ ~(D /\ R) /\ ~(W /\ R)
  BY DEF SendOpcodes, WriteOpcodes
<1>5. /\ R => Length(p) = p.dmalen
      /\ ~R => Length(p) = 1
  BY DEF Length
<1>6. Replied(r, new, p, S)
  <2>1. CASE D /\ ~W /\ ~R
    <3>1. new = receive_SEND_request(r, p)
      BY <2>1
    <3> QED BY <1>5, <2>1, <3>1, receive_SEND_requestReplied
  <2>2. CASE W /\ ~D /\ ~R
    <3>1. new = receive_RDMA_WRITE_request(r, p)
      BY <2>2
    <3> QED BY <1>5, <2>2, <3>1, receive_RDMA_WRITE_requestReplied
  <2>3. CASE R /\ ~D /\ ~W
    <3>1. new = receive_new_RDMA_READ_request(r, p)
      BY <2>3
    <3> QED BY <1>5, <2>3, <3>1, receive_new_RDMA_READ_requestReplied
  <2>4. CASE ~D /\ ~W /\ ~R
    <3>1. new = receive_Atomic_request(r, p)
      BY <2>4
    <3> QED BY <1>5, <2>4, <3>1, receive_Atomic_requestReplied
  <2> HIDE DEF new
  <2> QED BY <1>4, <2>1, <2>2, <2>3, <2>4
<1> HIDE DEF ok, new
<1> QED BY <1>2, <1>3, <1>6

-----------------------------------------------------------------------------
(* Requests seen before, and every packet                                  *)

LEMMA receive_retried_RDMA_READ_requestAcks ==
  ASSUME NEW r \in RspType, NEW p \in RequestType, NEW slot \in SlotType,
         NEW S, r.acks \in Seq(S), Replies(p) \subseteq S, Length(p) = p.dmalen
  PROVE  receive_retried_RDMA_READ_request(r, p, slot).acks \in Seq(S)
<1> DEFINE offset == get_psn_diff(p.psn, slot.psn)
           r1 == remove_overlapped_rdma_read_acknowledge(r, p.psn,
                                                         slot.expected_psn)
           res == receive_retried_RDMA_READ_request(r, p, slot)
<1>1. /\ p.psn \in Int /\ slot.expected_psn \in Int
      /\ {"INV_REQ", "REM_ACCESS"} \subseteq Syndromes
  BY RequestFields, SyndromeNames DEF SlotType
<1>2. \/ res = Refuse(r, p.psn, "REM_ACCESS")
      \/ res = Refuse(r, p.psn, "INV_REQ")
      \/ res = Refuse(r1, p.psn, "INV_REQ")
      \/ res = AnswerRead(r, p, slot.expected_psn)
  <2>1. res =
      IF ~(p.rkey /\ r.mr) THEN Refuse(r, p.psn, "REM_ACCESS")
      ELSE IF \/ slot.wr # p.wr \/ slot.k + offset # p.k
              \/ slot.dmalen - offset # p.dmalen
           THEN Refuse(r, p.psn, "INV_REQ")
      ELSE IF MaxDestRdAtomic <= r1.nr_rd_atomic THEN Refuse(r1, p.psn, "INV_REQ")
      ELSE AnswerRead(r, p, slot.expected_psn)
    BY Zenon DEF receive_retried_RDMA_READ_request
  <2> HIDE DEF offset, r1, res
  <2> QED BY <2>1
<1>3. r1 \in RspType
  BY RemoveOverlappedType
<1> HIDE DEF r1, res
<1>4. /\ Refuse(r, p.psn, "REM_ACCESS").acks \in Seq(S)
      /\ Refuse(r, p.psn, "INV_REQ").acks \in Seq(S)
      /\ Refuse(r1, p.psn, "INV_REQ").acks \in Seq(S)
  BY <1>1, <1>3, EmptiedAcks
<1>5. AnswerRead(r, p, slot.expected_psn).acks \in Seq(S)
  BY <1>1, AnswerReadAcks
<1>6. res.acks \in Seq(S)
  BY <1>2, <1>4, <1>5
<1> QED BY <1>6 DEF res

LEMMA receive_duplicateAcks ==
  ASSUME NEW r \in RspType, NEW p \in RequestType,
         NEW S, r.acks \in Seq(S), Replies(p) \subseteq S
  PROVE  receive_duplicate(r, p).acks \in Seq(S)
<1> DEFINE hits == {i \in DOMAIN r.slots :
                      /\ r.slots[i].op = p.op
                      /\ InPsnRange(p.psn, r.slots[i].psn,
                                    r.slots[i].expected_psn)}
           slot == r.slots[Min(hits)]
           res  == receive_duplicate(r, p)
<1>1. p.psn \in Int /\ {"ACK", "INV_REQ"} \subseteq Syndromes
  BY RequestFields, SyndromeNames
<1>2. \/ res = push_acknowledge(r, p.psn, "ACK")
      \/ res = Refuse(r, p.psn, "INV_REQ")
      \/ /\ hits # {} /\ p.op = "READ_REQUEST"
         /\ res = receive_retried_RDMA_READ_request(r, p, slot)
      \/ hits # {} /\ res = receive_retried_Atomic_request(r, p, slot)
  <2>1. res =
      IF p.op \notin AtomicOpcodes \cup {"READ_REQUEST"}
      THEN push_acknowledge(r, p.psn, "ACK")
      ELSE IF hits = {} THEN Refuse(r, p.psn, "INV_REQ")
      ELSE IF p.op = "READ_REQUEST"
           THEN receive_retried_RDMA_READ_request(r, p, slot)
      ELSE receive_retried_Atomic_request(r, p, slot)
    BY Zenon DEF receive_duplicate
  <2> HIDE DEF hits, slot, res
  <2> QED BY <2>1
<1>3. ASSUME hits # {} PROVE slot \in SlotType /\ slot.res \in Int
  <2> DEFINE l == r.slots
  <2>1. l \in Seq(SlotType)
    BY DEF RspType, SlotType
  <2>2. DOMAIN l = 1 .. Len(l) /\ Len(l) \in Nat
    <3> HIDE DEF l
    <3> QED BY <2>1
  <2>3. hits \subseteq 1 .. Len(l)
    BY <2>2
  <2> HIDE DEF l, hits
  <2>4. hits \subseteq Nat
    BY <2>2, <2>3
  <2>5. Min(hits) \in 1 .. Len(l)
    BY <1>3, <2>3, <2>4, MinIsElement
  <2>6. l[Min(hits)] \in SlotType
    BY <2>1, <2>5
  <2> HIDE DEF slot
  <2>7. slot \in SlotType
    BY <2>6 DEF l, slot
  <2> QED BY <2>7 DEF SlotType
<1> HIDE DEF hits, slot, res
<1>4. ASSUME hits # {}
      PROVE  /\ p.op = "READ_REQUEST" =>
                  receive_retried_RDMA_READ_request(r, p, slot).acks \in Seq(S)
             /\ receive_retried_Atomic_request(r, p, slot).acks \in Seq(S)
  <2>1. p.op = "READ_REQUEST" => Length(p) = p.dmalen
    BY DEF Length
  <2> QED BY <1>3, <1>4, <2>1, receive_retried_RDMA_READ_requestAcks,
             push_atomic_acknowledgeAcks DEF receive_retried_Atomic_request
<1>5. push_acknowledge(r, p.psn, "ACK").acks \in Seq(S)
  <2>1. \A x \in AckType :
          x.type = "NORMAL" /\ x.synd = "ACK" /\ x.psn = p.psn => x \in S
    BY DEF Replies
  <2> QED BY <1>1, <2>1, push_acknowledgeAcks
<1>6. Refuse(r, p.psn, "INV_REQ").acks \in Seq(S)
  BY <1>1, EmptiedAcks
<1>7. res.acks \in Seq(S)
  BY <1>2, <1>4, <1>5, <1>6
<1> QED BY <1>7 DEF res

(* A packet is answered only after it was executed: now, or before.        *)
LEMMA receive_packetReplied ==
  ASSUME NEW r \in RspType, NEW p \in RequestType, NEW S, Busy \subseteq S,
         r.acks \in Seq(S),
         p.op # "CNP" /\ get_psn_diff(p.psn, r.psn) < 0 => Replies(p) \subseteq S
  PROVE  Replied(r, receive_packet(r, p), p, S)
<1>1. p.psn \in Int /\ "PSN_SEQ" \in Syndromes /\ r.psn \in Int
  BY RequestFields, SyndromeNames, RspFields
<1>2. p.op = "CNP" \/ p.op \in RequestOpcodes
  BY RequestFields
<1>3. ASSUME NEW s, s.acks \in Seq(S) PROVE Replied(r, s, p, S)
  BY <1>3 DEF Replied
<1>4. Replied(r, r, p, S) /\ Replied(r, receive_cnp_notify(r), p, S)
  <2> DEFINE z == 0
             s == [r EXCEPT !.nr_contig_read_acks = z]
  <2>1. receive_cnp_notify(r) = s
    BY DEF receive_cnp_notify
  <2> HIDE DEF z
  <2>2. s.acks = r.acks
    BY DEF RspType
  <2> QED BY <1>3, <2>1, <2>2
<1>5. ASSUME p.op \in RequestOpcodes, p.op # "CNP"
      PROVE  Replied(r, receive_request(r, p), p, S)
  <2> DEFINE d == get_psn_diff(p.psn, r.psn)
             f == receive_request(r, p)
             a == push_acknowledge(r, p.psn, "PSN_SEQ")
             b == receive_duplicate(r, p)
             c == receive_new_request(r, p)
  <2>1. d \in Int
    BY <1>1, PsnDiffType
  <2>2. f = CASE d > 0 -> a [] d < 0 -> b [] OTHER -> c
    BY Zenon DEF receive_request
  <2>3. a.acks \in Seq(S)
    BY BusyAcks
  <2>4. d < 0 => b.acks \in Seq(S)
    BY <1>5, receive_duplicateAcks
  <2>5. Replied(r, c, p, S)
    BY <1>5, receive_new_requestReplied
  <2> HIDE DEF d, f, a, b, c
  <2>6. CASE d > 0
    <3>1. f = a
      BY <2>1, <2>2, <2>6
    <3> QED BY <1>3, <2>3, <3>1 DEF f
  <2>7. CASE d < 0
    <3>1. f = b
      BY <2>1, <2>2, <2>7
    <3> QED BY <1>3, <2>4, <2>7, <3>1 DEF f
  <2>8. CASE d = 0
    <3>1. f = c
      BY <2>1, <2>2, <2>8
    <3> QED BY <2>5, <3>1 DEF f
  <2> QED BY <2>1, <2>6, <2>7, <2>8
<1>6. CASE p.op = "CNP"
  BY <1>4, <1>6 DEF receive_packet
<1>7. CASE p.op # "CNP"
  <2>1. receive_packet(r, p) = r \/ receive_packet(r, p) = receive_request(r, p)
    BY <1>7 DEF receive_packet
  <2> QED BY <1>2, <1>4, <1>5, <1>7, <2>1
<1> QED BY <1>6, <1>7

-----------------------------------------------------------------------------
(* How far the responder is along the line                                 *)

LEMMA LineOrder ==
  ASSUME NEW q, NEW n, Line(q, n), NEW P, PsnsFit(P), NEW i \in 0 .. n,
         NEW j \in 0 .. n
  PROVE  /\ PsnAfter(q, i) \in Int /\ PsnAfter(q, j) \in Int
         /\ i < j => PsnAfter(q, i) < PsnAfter(q, j)
         /\ i <= j => PsnAfter(q, i) <= PsnAfter(q, j)
<1>1. n \in Nat /\ P \in Nat /\ \A w \in WRs : w.pkts <= P
  BY ReqFields DEF Line, PsnsFit
<1>2. \A a \in 0 .. n : /\ PsnAfter(q, a) \in Int
                        /\ \A h \in 0 .. a - 1 : PsnAfter(q, h) < PsnAfter(q, a)
  BY <1>1, LineRises
<1>3. i < j => i \in 0 .. j - 1
  BY <1>1
<1>4. PsnAfter(q, i) \in Int /\ PsnAfter(q, j) \in Int
  BY <1>2
<1>5. i < j => PsnAfter(q, i) < PsnAfter(q, j)
  BY <1>2, <1>3
<1>6. i <= j => i < j \/ i = j
  BY <1>1
<1> QED BY <1>4, <1>5, <1>6

(* The responder does not stop inside an RDMA READ: once past a PSN of it, *)
(* it is past all of them.                                                 *)
LEMMA ReadIsWhole ==
  ASSUME NEW q, NEW n, Line(q, n), NEW P, PsnsFit(P), NEW r, Logged(r, q, n),
         NEW i \in 1 .. n, q.wqe[i].wr.op = "READ", q.wqe[i].based_psn < r.psn
  PROVE  q.wqe[i].expected_psn <= r.psn
<1> DEFINE m == Awaited(r, q)[1]
           k == Awaited(r, q)[2]
           A(j) == PsnAfter(q, j)
<1>1. n \in Nat
  BY ReqFields DEF Line
<1>2. q.wqe[i].based_psn = A(i - 1) /\ q.wqe[i].expected_psn = A(i)
  BY LineWqe
<1>3. \/ r.psn = A(n)
      \/ /\ m \in 1 .. n /\ k \in 0 .. q.wqe[m].wr.pkts - 1
         /\ k \in 0 .. Entries(q.wqe[m]) - 1
         /\ r.psn = q.wqe[m].based_psn + k
  BY AwaitedPsn
<1> HIDE DEF m, k
<1>4. CASE r.psn = A(n)
  <2>1. i \in 0 .. n /\ n \in 0 .. n /\ i <= n
    BY <1>1
  <2>2. A(i) <= A(n)
    BY <2>1, LineOrder
  <2> QED BY <1>2, <1>4, <2>2
<1>5. CASE /\ m \in 1 .. n /\ k \in 0 .. q.wqe[m].wr.pkts - 1
           /\ k \in 0 .. Entries(q.wqe[m]) - 1
           /\ r.psn = q.wqe[m].based_psn + k
  <2> DEFINE a == A(m - 1)
             b == A(m)
             c == A(i - 1)
             d == A(i)
             w == q.wqe[m].wr.pkts
  <2>1. /\ q.wqe[m].based_psn = a /\ b = a + w /\ w \in Nat
        /\ a \in Int /\ b \in Int
    BY <1>5, LineWqe
  <2>2. c \in Int /\ d \in Int /\ c < r.psn
    BY <1>2, LineWqe
  <2>3. k \in Int /\ 0 <= k /\ k < w
    BY <1>5, <2>1
  <2>4. m \in 0 .. n /\ m - 1 \in 0 .. n /\ i \in 0 .. n /\ i - 1 \in 0 .. n
    BY <1>1, <1>5
  <2>5. /\ i <= m - 1 => d <= a
        /\ m <= i - 1 => b <= c
    BY <2>4, LineOrder
  <2>6. r.psn = a + k
    BY <1>5, <2>1
  <2>7. m = i => k = 0 /\ a = c
    BY <1>5 DEF Entries
  <2> HIDE DEF a, b, c, d, w
  <2>8. i <= m - 1 \/ m <= i - 1 \/ m = i
    BY <1>1, <1>5
  <2>9. CASE i <= m - 1
    <3>1. d <= r.psn
      BY <2>1, <2>2, <2>3, <2>5, <2>6, <2>9
    <3> QED BY <1>2, <3>1 DEF d
  <2>10. CASE m <= i - 1
    <3>1. FALSE
      BY <2>1, <2>2, <2>3, <2>5, <2>6, <2>10
    <3> QED BY <3>1
  <2>11. CASE m = i
    <3>1. FALSE
      BY <2>1, <2>2, <2>3, <2>6, <2>7, <2>11
    <3> QED BY <3>1
  <2> QED BY <2>8, <2>9, <2>10, <2>11
<1> QED BY <1>3, <1>4, <1>5

(* A work request whose PSNs the responder is past is in its log.          *)
LEMMA PastIsComplete ==
  ASSUME NEW q, NEW n, Line(q, n), NEW P, PsnsFit(P), NEW r, Logged(r, q, n),
         NEW i \in 1 .. n, q.wqe[i].expected_psn <= r.psn
  PROVE  Complete(r.log, q, i)
<1> DEFINE g == r.log
           L == Len(g)
           l == g[L]
           m == l[1]
           k == l[2]
           A(j) == PsnAfter(q, j)
<1>1. n \in Nat /\ g \in Seq(Nat \X Int) /\ L \in Nat /\ r.psn \in Int
  BY ReqFields DEF Line, Logged
<1>2. q.wqe[i].expected_psn = A(i) /\ A(i) \in Int /\ i \in 0 .. n /\ 0 \in 0 .. n /\ 0 < i
  BY <1>1, LineWqe
<1>3. L # 0
  <2>1. ASSUME L = 0 PROVE FALSE
    <3>1. r.psn = InitPsn
      BY <2>1 DEF Logged
    <3>2. A(0) = InitPsn
      BY DEF PsnAfter
    <3>3. A(0) < A(i) /\ A(0) \in Int
      BY <1>2, LineOrder
    <3> HIDE DEF A
    <3> QED BY <1>1, <1>2, <3>1, <3>2, <3>3
  <2> QED BY <2>1
<1>4. /\ L \in 1 .. L /\ m \in 1 .. n /\ k \in 0 .. Entries(q.wqe[m]) - 1
      /\ r.psn = PsnPast(q.wqe[m], k)
      /\ \A j \in 1 .. m - 1 : Complete(g, q, j)
  <2>1. L \in 1 .. L
    BY <1>1, <1>3
  <2>2. IsEntry(q, n, l)
    BY <2>1 DEF Logged, InSequence
  <2>3. r.psn = PsnPast(q.wqe[m], k) /\ \A j \in 1 .. m - 1 : Complete(g, q, j)
    BY <1>3 DEF Logged
  <2> QED BY <2>1, <2>2, <2>3 DEF IsEntry
<1>5. l = <<m, k>>
  <2>1. l \in Nat \X Int
    BY <1>1, <1>4
  <2> HIDE DEF l
  <2> QED BY <2>1
<1> HIDE DEF l, m, k
<1> DEFINE a == A(m - 1)
           b == A(m)
           w == q.wqe[m].wr.pkts
<1>6. /\ q.wqe[m].based_psn = a /\ q.wqe[m].expected_psn = b /\ b = a + w
      /\ w \in Nat /\ a \in Int /\ b \in Int
  BY <1>4, LineWqe
<1>7. \/ r.psn = b /\ q.wqe[m].wr.op = "READ"
      \/ r.psn = a + k + 1 /\ q.wqe[m].wr.op # "READ"
  BY <1>4, <1>6 DEF PsnPast
<1>8. k \in Int /\ k <= Entries(q.wqe[m]) - 1 /\ 0 <= k
  <2>1. Entries(q.wqe[m]) \in Nat
    BY <1>6 DEF Entries
  <2> QED BY <1>4, <2>1
<1>9. (q.wqe[m].wr.op = "READ" => Entries(q.wqe[m]) = 1) /\ (q.wqe[m].wr.op # "READ" => Entries(q.wqe[m]) = w)
  BY DEF Entries
<1>10. r.psn <= b
  <2> HIDE DEF a, b, w
  <2> QED BY <1>6, <1>7, <1>8, <1>9
<1>11. ~(m < i)
  <2>1. m \in 0 .. n
    BY <1>1, <1>4
  <2>2. m < i => b < A(i)
    BY <1>2, <2>1, LineOrder
  <2> HIDE DEF A, b
  <2> QED BY <1>1, <1>2, <1>6, <1>10, <2>2
<1>12. CASE i < m
  <2>1. i \in 1 .. m - 1
    BY <1>1, <1>4, <1>12
  <2> QED BY <1>4, <2>1
<1>13. CASE i = m
  <2>1. k = Entries(q.wqe[m]) - 1
    <3>1. b <= r.psn
      BY <1>2, <1>13
    <3> HIDE DEF a, b, w
    <3> QED BY <1>6, <1>7, <1>8, <1>9, <3>1
  <2>2. g[L] = <<i, Entries(q.wqe[i]) - 1>>
    BY <1>5, <1>13, <2>1 DEF l
  <2> QED BY <1>4, <2>2 DEF Complete
<1>14. m < i \/ i < m \/ i = m
  BY <1>1, <1>4
<1> QED BY <1>11, <1>12, <1>13, <1>14

-----------------------------------------------------------------------------
(* Acknowledges and answers that speak of executed packets                 *)

Said == {"ACK", "RNR", "PSN_SEQ"}

(* What may stand on the list of acknowledges, and on the wire, of a       *)
(* responder that expects x next: every positive one is for PSNs before x. *)
Fine(x) ==
  {a \in AckType :
     /\ a.synd \in Said
     /\ a.type # "NORMAL" => a.synd = "ACK"
     /\ a.synd = "ACK" => Vouched(a.psn, x)
     /\ a.type = "READ" => /\ a.offset \in 0 .. a.size - 1
                           /\ \A o \in 0 .. a.size - 1 : Vouched(a.psn + o, x)}
Answers(x) ==
  {p \in ResponseType :
     /\ p.synd \in Said
     /\ p.op # "ACK" => p.synd = "ACK"
     /\ p.synd = "ACK" => Vouched(p.psn, x)}

LEMMA VouchedLater ==
  ASSUME NEW psn, NEW x \in Int, NEW y \in Int, x <= y, Vouched(psn, x)
  PROVE  Vouched(psn, y)
<1>1. PICK z \in Int : InitPsn <= z /\ z < x /\ Masked(psn) = Masked(z)
  BY DEF Vouched
<1>2. z < y
  BY <1>1
<1> QED BY <1>1, <1>2 DEF Vouched

LEMMA FineLater ==
  ASSUME NEW x \in Int, NEW y \in Int, x <= y
  PROVE  Fine(x) \subseteq Fine(y) /\ Answers(x) \subseteq Answers(y)
<1>1. \A psn : Vouched(psn, x) => Vouched(psn, y)
  BY VouchedLater
<1>2. Fine(x) \subseteq Fine(y)
  BY <1>1 DEF Fine
<1>3. Answers(x) \subseteq Answers(y)
  BY <1>1 DEF Answers
<1> QED BY <1>2, <1>3

LEMMA BusyIsFine ==
  ASSUME NEW x
  PROVE  Busy \subseteq Fine(x)
BY DEF Busy, Fine, Said

(* Masking commutes with counting on.                                      *)
LEMMA MaskedShift ==
  ASSUME NEW z \in Int, NEW o \in Int
  PROVE  Masked(Masked(z) + o) = Masked(z + o)
<1> DEFINE M == PsnMod
           d == z \div M
           m == z % M
           e == (z + o) \div M
           v == (z + o) % M
<1>1. M \in Nat \ {0}
  BY PsnModAssumption
<1>2. d \in Int /\ m \in 0 .. M - 1 /\ z = M * d + m
  BY <1>1
<1>3. e \in Int /\ v \in 0 .. M - 1 /\ z + o = M * e + v
  <2> DEFINE w == z + o
  <2>1. w \in Int
    OBVIOUS
  <2> HIDE DEF w
  <2>2. w \div M \in Int /\ w % M \in 0 .. M - 1 /\ w = M * (w \div M) + (w % M)
    BY <1>1, <2>1
  <2> QED BY <2>2 DEF w
<1> HIDE DEF d, m, e, v
<1> DEFINE a == m + o
           k == e - d
<1>4. a \in Int /\ k \in Int /\ a = M * k + v
  <2> DEFINE f == M * e
             g == M * d
             h == M * k
  <2>1. h = f - g
    BY <1>1, <1>2, <1>3
  <2>2. f \in Int /\ g \in Int /\ m \in Int /\ v \in Int /\ a \in Int /\ k \in Int
    BY <1>1, <1>2, <1>3
  <2>3. z = g + m /\ z + o = f + v
    BY <1>2, <1>3
  <2> HIDE DEF f, g, h
  <2>4. a = h + v
    BY <2>1, <2>2, <2>3
  <2> QED BY <2>2, <2>4 DEF h
<1> HIDE DEF a, k
<1>5. a % M = v
  BY <1>1, <1>3, <1>4, ModUnique
<1>6. Masked(a) = v
  BY <1>5 DEF Masked
<1>7. Masked(z) = m /\ Masked(z + o) = v
  BY DEF Masked, m, v
<1> QED BY <1>6, <1>7 DEF a

LEMMA MaskedTwice ==
  ASSUME NEW z \in Int
  PROVE  Masked(Masked(z)) = Masked(z)
<1>1. Masked(z) \in Int
  <2>1. Masked(z) \in 0 .. PsnMod - 1 /\ PsnMod \in Nat
    BY MaskedType, PsnModAssumption
  <2> HIDE DEF Masked
  <2> QED BY <2>1
<1> DEFINE y == Masked(z)
<1>2. Masked(y + 0) = Masked(z + 0)
  BY MaskedShift
<1>3. y + 0 = y /\ z + 0 = z
  BY <1>1
<1> QED BY <1>2, <1>3

(* The answers to a packet the responder is past are fine.                 *)
LEMMA RepliesFine ==
  ASSUME NEW p \in RequestType, NEW y \in Int, NEW x \in Int, InitPsn <= y,
         p.psn = Masked(y), Length(p) \in Nat \ {0}, y + Length(p) <= x
  PROVE  Replies(p) \subseteq Fine(x)
<1> SUFFICES ASSUME NEW a \in Replies(p) PROVE a \in Fine(x)
  OBVIOUS
<1>1. /\ a \in AckType /\ a.synd = "ACK" /\ a.psn = p.psn
      /\ a.type = "READ" => a.offset = 0 /\ a.size = Length(p)
  BY DEF Replies
<1>2. InitPsn \in Int
  BY ConstantTypes
<1> DEFINE n == Length(p)
<1>3. n \in Nat /\ n >= 1 /\ y + n <= x
  OBVIOUS
<1> HIDE DEF n
<1>4. ASSUME NEW o \in 0 .. n - 1 PROVE Vouched(a.psn + o, x)
  <2> DEFINE z == y + o
  <2>1. z \in Int /\ InitPsn <= z /\ z < x /\ o \in Int
    BY <1>2, <1>3
  <2>2. Masked(Masked(y) + o) = Masked(z)
    BY <2>1, MaskedShift
  <2> HIDE DEF z
  <2>3. Masked(a.psn + o) = Masked(z)
    BY <1>1, <2>2
  <2> QED BY <2>1, <2>3 DEF Vouched
<1>5. Vouched(a.psn, x)
  <2>1. y < x /\ Masked(a.psn) = Masked(y)
    BY <1>1, <1>3, MaskedTwice
  <2> QED BY <2>1 DEF Vouched
<1>6. 0 \in 0 .. n - 1
  BY <1>3
<1> QED BY <1>1, <1>4, <1>5, <1>6 DEF Fine, Said, n

(* An answer of PSN psn.                                                   *)
LEMMA ResponseAnswers ==
  ASSUME NEW op \in ResponseOpcodes, NEW psn \in Int, NEW synd \in Said, NEW a \in AckType,
         NEW x, op # "ACK" => synd = "ACK", synd = "ACK" => Vouched(psn, x)
  PROVE  <<Response(op, psn, synd, a)>> \in Seq(Answers(x))
<1> DEFINE p == Response(op, psn, synd, a)
<1>1. synd \in Syndromes
  BY DEF Said, Syndromes
<1>2. <<p>> \in Seq(ResponseType)
  BY <1>1, AckResponseType
<1>3. p.op = op /\ p.psn = Masked(psn) /\ p.synd = synd
  BY DEF Response
<1> HIDE DEF p
<1>4. p \in ResponseType
  <2>1. <<p>>[1] \in ResponseType
    BY <1>2
  <2> QED BY <2>1
<1>5. synd = "ACK" => Vouched(p.psn, x)
  BY <1>3, MaskedTwice DEF Vouched
<1>6. p \in Answers(x)
  BY <1>3, <1>4, <1>5 DEF Answers
<1>7. <<p>> \in Seq(Answers(x))
  BY <1>6
<1> QED BY <1>7 DEF p

LEMMA TailOfSet ==
  ASSUME NEW S, NEW s \in Seq(S), s # <<>>, NEW e
  PROVE  Tail([s EXCEPT ![1] = e]) = Tail(s)
OBVIOUS

(* The packet made from the head of the list says what the acknowledge     *)
(* says, and the list stays fine.                                          *)
LEMMA AcknowledgeAnswers ==
  ASSUME NEW r \in RspType, r.acks # <<>>, r.tx = <<>>, NEW x,
         r.acks \in Seq(Fine(x))
  PROVE  /\ pib_generate_rc_qp_acknowledge(r).acks \in Seq(Fine(x))
         /\ pib_generate_rc_qp_acknowledge(r).tx \in Seq(Answers(x))
<1> DEFINE a   == Head(r.acks)
           tx0 == <<Response(ReadOpcode(a), a.psn + a.offset, "ACK", a)>>
           tx1 == <<Response("ATOMIC_ACK", a.psn, "ACK", a)>>
           tx2 == <<Response("ACK", a.psn, a.synd, a)>>
           n   == r.nr_contig_read_acks + 1
           o   == a.offset + 1
           b   == [a EXCEPT !.offset = o]
           k   == [r.acks EXCEPT ![1] = b]
           t   == Tail(r.acks)
           m   == r.nr_rd_atomic - 1
           r1  == [r EXCEPT !.tx = tx1, !.acks = t, !.nr_rd_atomic = m]
           r2  == [r EXCEPT !.tx = tx2, !.acks = t]
           r3  == [r EXCEPT !.tx = tx0, !.nr_contig_read_acks = n, !.acks = k]
           r4  == [r3 EXCEPT !.acks = t, !.nr_rd_atomic = m]
           f   == pib_generate_rc_qp_acknowledge(r)
           g   == generate_RDMA_READ_response(r)
           F   == Fine(x)
<1>1. /\ a \in F /\ a \in AckType /\ t \in Seq(F) /\ r.acks[1] = a
  <2> DEFINE l == r.acks
  <2>1. l \in Seq(F) /\ l # <<>>
    OBVIOUS
  <2> HIDE DEF l, F
  <2>2. Head(l) \in F /\ Tail(l) \in Seq(F) /\ l[1] = Head(l)
    BY <2>1
  <2>3. a \in F /\ t \in Seq(F) /\ r.acks[1] = a
    BY <2>2 DEF l
  <2> QED BY <2>3, HeadAck
<1>2. \/ f = g /\ a.type = "READ"
      \/ f = r1 /\ a.type = "ATOMIC"
      \/ f = r2 /\ a.type = "NORMAL"
  <2>1. f = CASE a.type = "READ" -> g
              [] a.type = "ATOMIC" -> r1
              [] OTHER -> r2
    BY DEF pib_generate_rc_qp_acknowledge
  <2>2. a.type \in {"NORMAL", "READ", "ATOMIC"}
    BY <1>1 DEF AckType
  <2> HIDE DEF a, r1, r2, f, g
  <2>3. CASE a.type = "READ"
    BY <2>1, <2>3
  <2>4. CASE a.type = "ATOMIC"
    BY <2>1, <2>4
  <2>5. CASE a.type = "NORMAL"
    BY <2>1, <2>5
  <2> QED BY <2>2, <2>3, <2>4, <2>5
<1>3. g = r \/ (g = r3 /\ o < a.size) \/ g = r4
  <2> DEFINE s1 == [r EXCEPT !.tx = tx0, !.nr_contig_read_acks = @ + 1,
                             !.acks[1].offset = @ + 1]
  <2>1. g =
          IF MaxContigReads < r.nr_contig_read_acks \/ ~r.mr THEN r
          ELSE IF a.offset + 1 < a.size THEN s1
          ELSE [s1 EXCEPT !.acks = Tail(@), !.nr_rd_atomic = @ - 1]
    BY Zenon DEF generate_RDMA_READ_response
  <2>2. s1 = r3
    <3> DEFINE u == r.acks[1].offset + 1
    <3>1. u = o
      BY <1>1
    <3>2. r.acks[1] = a
      BY <1>1
    <3> HIDE DEF a, tx0
    <3> QED BY <3>1, <3>2
  <2>3. r3.acks = k /\ r3.nr_rd_atomic = r.nr_rd_atomic
    <3> HIDE DEF tx0, n, k
    <3> QED BY DEF RspType
  <2>4. Tail(k) = t
    <3> DEFINE l == r.acks
    <3>1. l \in Seq(F) /\ l # <<>>
      OBVIOUS
    <3> HIDE DEF l, F, b
    <3>2. Tail([l EXCEPT ![1] = b]) = Tail(l)
      BY <3>1, TailOfSet
    <3> QED BY <3>2 DEF l
  <2> HIDE DEF s1, r3, a, k, t, g
  <2>5. [s1 EXCEPT !.acks = Tail(@), !.nr_rd_atomic = @ - 1] = r4
    BY <2>2, <2>3, <2>4
  <2> HIDE DEF r4
  <2> QED BY <2>1, <2>2, <2>5
<1>4. /\ a.psn \in Int /\ a.offset \in Int /\ a.size \in Int /\ a.synd \in Said
      /\ a.type # "NORMAL" => a.synd = "ACK"
      /\ a.synd = "ACK" => Vouched(a.psn, x)
      /\ a.type = "READ" => /\ a.offset \in 0 .. a.size - 1
                            /\ \A y \in 0 .. a.size - 1 : Vouched(a.psn + y, x)
  <2>1. a.psn \in Int /\ a.offset \in Int /\ a.size \in Int
    BY <1>1 DEF AckType
  <2> HIDE DEF a
  <2> QED BY <1>1, <2>1 DEF Fine
<1>5. a.type = "READ" => tx0 \in Seq(Answers(x))
  <2>1. ReadOpcode(a) \in ResponseOpcodes /\ "ACK" \in Said
    BY DEF ReadOpcode, ResponseOpcodes, Said
  <2>2. a.psn + a.offset \in Int
    BY <1>4
  <2> HIDE DEF a
  <2> QED BY <1>1, <1>4, <2>1, <2>2, ResponseAnswers
<1>6. /\ a.type = "ATOMIC" => tx1 \in Seq(Answers(x))
      /\ tx2 \in Seq(Answers(x))
  <2>1. "ATOMIC_ACK" \in ResponseOpcodes /\ "ACK" \in ResponseOpcodes /\ "ACK" \in Said
    BY DEF ResponseOpcodes, Said
  <2> HIDE DEF a
  <2> QED BY <1>1, <1>4, <2>1, ResponseAnswers
<1>7. a.type = "READ" /\ o < a.size => k \in Seq(F)
  <2>1. o \in Int /\ (a.type = "READ" /\ o < a.size => o \in 0 .. a.size - 1)
    BY <1>4
  <2> HIDE DEF a, o
  <2>2. /\ b \in AckType /\ b.offset = o /\ b.size = a.size /\ b.psn = a.psn
        /\ b.type = a.type /\ b.synd = a.synd
    BY <1>1, <2>1 DEF AckType
  <2> HIDE DEF b
  <2>3. a.type = "READ" /\ o < a.size => b \in F
    BY <1>4, <2>1, <2>2 DEF Fine
  <2> HIDE DEF F
  <2> QED BY <2>3, SetElement DEF F
<1> HIDE DEF a, tx0, tx1, tx2, n, k, t, m, F
<1>8. r1.acks = t /\ r1.tx = tx1 /\ r2.acks = t /\ r2.tx = tx2
  BY DEF RspType
<1>9. r3.acks = k /\ r3.tx = tx0 /\ DOMAIN r3 = DOMAIN r
  BY DEF RspType
<1> HIDE DEF r3
<1>10. r4.acks = t /\ r4.tx = tx0
  BY <1>9 DEF RspType
<1>11. r.acks \in Seq(F) /\ r.tx \in Seq(Answers(x))
  BY DEF F
<1> HIDE DEF r1, r2, r4, f, g
<1>12. f.acks \in Seq(F) /\ f.tx \in Seq(Answers(x))
  <2>1. CASE f = g /\ a.type = "READ"
    BY <1>1, <1>3, <1>5, <1>7, <1>9, <1>10, <1>11, <2>1
  <2>2. CASE f = r1 /\ a.type = "ATOMIC"
    BY <1>1, <1>6, <1>8, <2>2
  <2>3. CASE f = r2
    BY <1>1, <1>6, <1>8, <2>3
  <2> QED BY <1>2, <2>1, <2>2, <2>3
<1> QED BY <1>12 DEF f, F

-----------------------------------------------------------------------------
(* The responder answers only what it executed                             *)

(* PSNs of the line are compared exactly.                                  *)
LEMMA LineDiff ==
  ASSUME NEW q, NEW n, Line(q, n), Len(q.wqe) <= MaxWR, NEW P, PsnsFit(P),
         NEW x \in Int, InitPsn <= x, x <= PsnAfter(q, n),
         NEW y \in Int, InitPsn <= y, y <= PsnAfter(q, n)
  PROVE  get_psn_diff(Masked(x), y) = x - y
<1> DEFINE z == PsnAfter(q, n)
<1>1. n \in 0 .. n /\ InitPsn \in Int /\ PsnMod \in Int
  BY LineFits, PsnModAssumption
<1>2. z \in Int /\ 2 * (z - InitPsn) < PsnMod
  BY <1>1, LineFits
<1>3. x <= z /\ y <= z
  OBVIOUS
<1> HIDE DEF z
<1>4. 2 * (x - y) < PsnMod /\ -PsnMod < 2 * (x - y)
  BY <1>1, <1>2, <1>3
<1> QED BY <1>4, DiffExact

(* A packet that seems to be a duplicate was executed.                     *)
LEMMA DuplicateIsPast ==
  ASSUME NEW q, NEW n, Line(q, n), Len(q.wqe) <= MaxWR, NEW P, PsnsFit(P),
         NEW r, Logged(r, q, n), NEW p \in Requests(q), p.op # "CNP",
         get_psn_diff(p.psn, r.psn) < 0
  PROVE  q.wqe[p.wr].based_psn + p.k + Length(p) <= r.psn
<1> DEFINE i == p.wr
           k == p.k
           e == q.wqe[i]
           b == e.based_psn
           w == e.wr.pkts
           y == b + k
           x == r.psn
<1>1. /\ i \in 1 .. n /\ k \in 0 .. w - 1 /\ p.psn = Masked(y)
      /\ (p.op = "READ_REQUEST" <=> e.wr.op = "READ")
      /\ p.dmalen = IF e.wr.op = "READ" THEN w - k ELSE w
  BY GenuineInLine
<1> HIDE DEF i, k
<1>2. /\ y \in Int /\ InitPsn <= y /\ y < PsnAfter(q, n) /\ PsnAfter(q, n) \in Int
  BY <1>1, PlaceInLine
<1>3. x \in Int /\ InitPsn <= x /\ x <= PsnAfter(q, n)
  BY RspInLine
<1>4. b \in Int /\ w \in Nat /\ e.expected_psn = b + w
  BY <1>1, LineWqe
<1>5. InitPsn \in Int
  BY ConstantTypes
<1> HIDE DEF y, b, w, x
<1>6. y < x
  <2>1. y <= PsnAfter(q, n)
    BY <1>2
  <2>2. get_psn_diff(Masked(y), x) = y - x
    BY <1>2, <1>3, <2>1, LineDiff
  <2>3. y - x < 0
    BY <1>1, <2>2 DEF x
  <2> QED BY <1>2, <1>3, <2>3
<1>7. k \in Int /\ 0 <= k
  BY <1>1, <1>4
<1>8. CASE e.wr.op = "READ"
  <2>1. b < x
    BY <1>4, <1>6, <1>7, <1>3 DEF y
  <2>2. q.wqe[i].based_psn < r.psn
    BY <2>1 DEF b, x
  <2>3. e.expected_psn <= r.psn
    BY <1>1, <1>8, <2>2, ReadIsWhole
  <2>4. b + w <= x
    BY <1>4, <2>3 DEF x
  <2>5. Length(p) = w - k
    BY <1>1, <1>8 DEF Length
  <2>6. b + k + (w - k) <= x
    BY <1>3, <1>4, <1>7, <2>4
  <2> QED BY <2>5, <2>6 DEF b, x, i, k
<1>9. CASE e.wr.op # "READ"
  <2>1. Length(p) = 1
    BY <1>1, <1>9 DEF Length
  <2>2. b + k + 1 <= x
    BY <1>3, <1>4, <1>6, <1>7 DEF y
  <2> QED BY <2>1, <2>2 DEF b, x, i, k
<1> QED BY <1>8, <1>9

LEMMA GenuineWhole ==
  ASSUME NEW q, NEW n, Line(q, n), NEW p \in Requests(q), p.op # "CNP"
  PROVE  Length(p) \in Nat \ {0}
<1> DEFINE i == p.wr
           w == q.wqe[i].wr.pkts
           k == p.k
<1>1. /\ i \in 1 .. n /\ k \in 0 .. w - 1
      /\ p.op = "READ_REQUEST" => p.dmalen = w - k
  BY GenuineInLine
<1> HIDE DEF i
<1>2. w \in Nat
  BY <1>1, LineWqe
<1> HIDE DEF w, k
<1>3. p.op = "READ_REQUEST" => p.dmalen \in Nat \ {0}
  BY <1>1, <1>2
<1> QED BY <1>3 DEF Length

LEMMA SeqGrows ==
  ASSUME NEW S, NEW T, S \subseteq T, NEW s \in Seq(S)
  PROVE  s \in Seq(T)
OBVIOUS

LEMMA ArrivalAnswers ==
  ASSUME NEW q, NEW n, Line(q, n), Len(q.wqe) <= MaxWR, NEW P, PsnsFit(P),
         NEW r \in RspType, Logged(r, q, n), NEW p \in Requests(q),
         r.acks \in Seq(Fine(r.psn))
  PROVE  receive_packet(r, p).acks \in Seq(Fine(receive_packet(r, p).psn))
<1> DEFINE s == receive_packet(r, p)
           y == q.wqe[p.wr].based_psn + p.k
           S == Fine(s.psn)
<1>1. p \in RequestType /\ p.dmalen \in Nat
  BY GenuineLength DEF Line
<1>2. s \in RspType /\ r.psn <= s.psn /\ (Stands(r, s) \/ Executes(r, s, p))
  BY <1>1, receive_packetGoes, receive_packetExecutes DEF Goes
<1>3. r.psn \in Int /\ s.psn \in Int
  BY <1>2, RspFields
<1>4. r.acks \in Seq(S) /\ Busy \subseteq S
  BY <1>2, <1>3, FineLater, SeqGrows, BusyIsFine
<1>5. ASSUME p.op # "CNP" PROVE InitPsn <= y /\ y \in Int /\ p.psn = Masked(y)
  <2> DEFINE i == p.wr
             k == p.k
  <2>1. /\ i \in 1 .. n /\ k \in 0 .. q.wqe[i].wr.pkts - 1
        /\ p.psn = Masked(q.wqe[i].based_psn + k)
    BY <1>5, GenuineInLine
  <2> HIDE DEF i, k
  <2>2. q.wqe[i].based_psn + k \in Int /\ InitPsn <= q.wqe[i].based_psn + k
    BY <2>1, PlaceInLine
  <2> QED BY <2>1, <2>2 DEF i, k
<1>6. ASSUME p.op # "CNP", y + Length(p) <= s.psn PROVE Replies(p) \subseteq S
  <2>1. Length(p) \in Nat \ {0}
    BY <1>6, GenuineWhole
  <2> HIDE DEF y, s
  <2> QED BY <1>1, <1>3, <1>5, <1>6, <2>1, RepliesFine
<1>7. p.op # "CNP" /\ get_psn_diff(p.psn, r.psn) < 0 => Replies(p) \subseteq S
  <2> SUFFICES ASSUME p.op # "CNP", get_psn_diff(p.psn, r.psn) < 0
               PROVE  Replies(p) \subseteq S
    OBVIOUS
  <2> DEFINE l == Length(p)
  <2>1. y + l <= r.psn
    BY DuplicateIsPast
  <2>2. l \in Int
    BY GenuineWhole
  <2>3. y \in Int
    BY <1>5
  <2> HIDE DEF y, l, s
  <2>4. y + l <= s.psn
    BY <1>2, <1>3, <2>1, <2>2, <2>3
  <2> QED BY <1>6, <2>4 DEF l
<1>8. Replied(r, s, p, S)
  <2> HIDE DEF S
  <2> QED BY <1>1, <1>4, <1>7, receive_packetReplied
<1>9. ASSUME Ran(r, s, p) PROVE Replies(p) \subseteq S
  <2> DEFINE g == r.log
             l == <<p.wr, p.k>>
  <2>1. g \in Seq(Nat \X Int)
    BY DEF Logged
  <2>2. s.log = Append(g, l)
    BY <1>9 DEF Ran
  <2> HIDE DEF g, l
  <2>3. s.log # g
    <3>1. Len(Append(g, l)) = Len(g) + 1 /\ Len(g) \in Nat
      BY <2>1
    <3> QED BY <2>2, <3>1
  <2>4. Executes(r, s, p)
    BY <1>2, <2>3 DEF Stands, g
  <2>5. p.op # "CNP" /\ get_psn_diff(p.psn, r.psn) = 0
    BY <2>4 DEF Executes
  <2>6. r.psn = y
    BY <2>5, NewIsAwaited
  <2>7. s.psn = r.psn + Length(p)
    BY <1>9 DEF Ran
  <2> HIDE DEF s, y
  <2>8. y + Length(p) <= s.psn
    BY <1>3, <2>6, <2>7
  <2> QED BY <1>6, <2>5, <2>8
<1> QED BY <1>8, <1>9 DEF Replied

LEMMA ResponderStepAnswers ==
  ASSUME NEW r \in RspType, NEW x, r.acks \in Seq(Fine(x)), r.tx \in Seq(Answers(x)),
         toReq \in Seq(Answers(x)), ResponderStep(r)
  PROVE  rsp'.acks \in Seq(Fine(x)) /\ toReq' \in Seq(Answers(x))
<1> DEFINE s == reschedule_rsp(r)
           e == <<>>
           p == [s EXCEPT !.tx = e]
<1>1. rsp' = p /\ toReq' = toReq \o r.tx
  BY DEF ResponderStep
<1>2. s \in RspType /\ s.acks = r.acks
  BY reschedule_rspType
<1> HIDE DEF s, e
<1>3. p.acks = s.acks
  BY <1>2 DEF RspType
<1> HIDE DEF p
<1>4. rsp'.acks \in Seq(Fine(x))
  BY <1>1, <1>2, <1>3
<1>5. toReq' \in Seq(Answers(x))
  <2> DEFINE t == r.tx
             S == Answers(x)
  <2>1. t \in Seq(S) /\ toReq \in Seq(S)
    OBVIOUS
  <2> HIDE DEF t, S
  <2>2. toReq \o t \in Seq(S)
    BY <2>1
  <2> QED BY <1>1, <2>2 DEF t, S
<1> QED BY <1>4, <1>5

(* Every acknowledge to be sent and every answer on the wire speaks of     *)
(* packets the responder executed.                                         *)
Truthful == rsp.acks \in Seq(Fine(rsp.psn)) /\ toReq \in Seq(Answers(rsp.psn))

LEMMA NextTruthful ==
  ASSUME PsnsSuffice, OnceSafe, Truthful, [Next]_vars
  PROVE  rsp'.acks \in Seq(Fine(rsp'.psn)) /\ toReq' \in Seq(Answers(rsp'.psn))
<1>1. ProgSafe /\ HasLine(req)
  BY DEF OnceSafe
<1>2. /\ rsp \in RspType /\ (rsp.on => rsp.acks # <<>>) /\ req \in ReqType
      /\ toRsp \in Seq(Requests(req)) /\ rsp.tx = <<>> /\ rsp.psn \in Int
  BY <1>1, FlowFacts, RspFields DEF ProgSafe, FlowSafe, IInv
<1>3. rsp.acks \in Seq(Fine(rsp.psn)) /\ toReq \in Seq(Answers(rsp.psn))
  BY DEF Truthful
<1>4. ASSUME rsp' = rsp, toReq' \in Seq(Answers(rsp.psn))
      PROVE  rsp'.acks \in Seq(Fine(rsp'.psn)) /\ toReq' \in Seq(Answers(rsp'.psn))
  BY <1>3, <1>4
<1>5. CASE PostSend \/ RequesterPass \/ TimeoutPass \/ UNCHANGED vars
  BY <1>3, <1>4, <1>5 DEF PostSend, RequesterPass, TimeoutPass, vars
<1>6. CASE ReceiveResponse
  <2>1. toReq # <<>> /\ toReq' = Tail(toReq) /\ rsp' = rsp
    BY <1>6 DEF ReceiveResponse
  <2> QED BY <1>3, <1>4, <2>1, WireType
<1>7. CASE NetworkFault
  <2>1. rsp' = rsp
    BY <1>7 DEF NetworkFault
  <2>2. toReq' \in Seq(Answers(rsp.psn))
    BY <1>3, <1>7, WireType DEF NetworkFault
  <2> QED BY <1>4, <2>1, <2>2
<1>8. CASE PostRecv
  <2>1. PICK size \in RecvSizes : rsp' = post_recv(rsp, size)
    BY <1>8 DEF PostRecv
  <2>2. toReq' = toReq
    BY <1>8 DEF PostRecv
  <2>3. rsp'.acks = rsp.acks /\ rsp'.psn = rsp.psn
    BY <1>2, <2>1, post_recvType, post_recvIdles DEF Idles, Stands
  <2> QED BY <1>3, <2>2, <2>3
<1>9. CASE DeregMr
  <2>1. rsp' = [rsp EXCEPT !.mr = FALSE] /\ toReq' = toReq
    BY <1>9 DEF DeregMr
  <2>2. rsp'.psn = rsp.psn /\ rsp'.acks = rsp.acks
    BY <1>2, <2>1 DEF RspType
  <2> QED BY <1>3, <2>1, <2>2
<1>10. CASE ReceiveRequest
  <2> DEFINE p == Head(toRsp)
             s == receive_packet(rsp, p)
             e == <<>>
  <2>1. toRsp # <<>> /\ ResponderStep(s)
    BY <1>10 DEF ReceiveRequest
  <2>2. p \in Requests(req)
    BY <1>2, <2>1, WireType
  <2>3. PICK n \in Nat : Line(req, n) /\ Logged(rsp, req, n)
    BY DEF OnceSafe
  <2>4. PICK P \in Nat : PsnsFit(P)
    BY DEF PsnsSuffice
  <2>5. Len(req.wqe) <= MaxWR
    BY <1>1 DEF HasLine
  <2> HIDE DEF p
  <2>6. s.acks \in Seq(Fine(s.psn))
    BY <1>2, <1>3, <2>2, <2>3, <2>4, <2>5, ArrivalAnswers
  <2>7. p \in RequestType /\ p.dmalen \in Nat
    BY <1>2, <2>2, GenuineLength
  <2>8. s \in RspType /\ s.tx = rsp.tx /\ rsp.psn <= s.psn
    BY <1>2, <2>7, receive_packetGoes, receive_packetExecutes DEF Goes
  <2> HIDE DEF s
  <2>9. s.psn \in Int
    BY <2>8, RspFields
  <2>10. toReq \in Seq(Answers(s.psn))
    BY <1>2, <1>3, <2>8, <2>9, FineLater, SeqGrows
  <2>11. s.tx \in Seq(Answers(s.psn))
    BY <1>2, <2>8
  <2>12. rsp'.psn = s.psn
    BY <2>1, <2>8, ResponderStepStands DEF Stands
  <2>13. rsp'.acks \in Seq(Fine(s.psn)) /\ toReq' \in Seq(Answers(s.psn))
    BY <2>1, <2>6, <2>8, <2>10, <2>11, ResponderStepAnswers
  <2> QED BY <2>12, <2>13
<1>11. CASE ResponderPass
  <2> DEFINE s == pib_generate_rc_qp_acknowledge(rsp)
             x == rsp.psn
  <2>1. rsp.acks # <<>> /\ ResponderStep(s)
    BY <1>2, <1>11 DEF ResponderPass
  <2>2. s \in RspType /\ Stands(rsp, s)
    BY <1>2, <2>1, AcknowledgeType, AcknowledgeStands
  <2>3. s.acks \in Seq(Fine(x)) /\ s.tx \in Seq(Answers(x))
    BY <1>2, <1>3, <2>1, AcknowledgeAnswers
  <2> HIDE DEF s
  <2>4. rsp'.psn = x
    <3>1. Stands(s, rsp')
      BY <2>1, <2>2, ResponderStepStands
    <3> QED BY <2>2, <3>1 DEF Stands
  <2>5. toReq \in Seq(Answers(x))
    BY <1>3
  <2> HIDE DEF x
  <2>6. rsp'.acks \in Seq(Fine(x)) /\ toReq' \in Seq(Answers(x))
    BY <2>1, <2>2, <2>3, <2>5, ResponderStepAnswers
  <2> QED BY <2>4, <2>6
<1> QED BY <1>5, <1>6, <1>7, <1>8, <1>9, <1>10, <1>11 DEF Next

-----------------------------------------------------------------------------
(* The requester believes the answers                                      *)

LEMMA DiffMasked ==
  ASSUME NEW psn \in Int, NEW b \in Int
  PROVE  get_psn_diff(Masked(psn), b) = get_psn_diff(psn, b)
<1> DEFINE m == Masked(psn)
<1>1. m \in Int
  <2>1. m \in 0 .. PsnMod - 1 /\ PsnMod \in Nat
    BY MaskedType, PsnModAssumption
  <2> HIDE DEF m
  <2> QED BY <2>1
<1>2. -b \in Int
  OBVIOUS
<1>3. Masked(m + (-b)) = Masked(psn + (-b))
  BY <1>2, MaskedShift
<1> HIDE DEF m
<1>4. m + (-b) = m - b /\ psn + (-b) = psn - b
  BY <1>1
<1>5. (m - b) % PsnMod = (psn - b) % PsnMod
  BY <1>3, <1>4 DEF Masked
<1>6. get_psn_diff(m, b) = get_psn_diff(psn, b)
  BY <1>5 DEF get_psn_diff
<1> QED BY <1>6 DEF m

LEMMA SamePsn ==
  ASSUME NEW a \in Int, NEW psn \in Int, get_psn_diff(a, psn) = 0
  PROVE  Masked(a) = Masked(psn)
<1> DEFINE M == PsnMod
           w == a - psn
           k == w \div M
           d == psn \div M
           m == psn % M
           j == k + d
<1>1. M \in Nat \ {0}
  BY PsnModAssumption
<1>2. w \in Int
  OBVIOUS
<1>3. w % M = 0
  <2> DEFINE r == w % M
  <2>1. r \in 0 .. M - 1
    BY <1>1, <1>2
  <2>2. (IF 2 * r < M THEN r ELSE r - M) = 0
    BY DEF get_psn_diff
  <2> HIDE DEF r
  <2>3. r = 0
    BY <1>1, <2>1, <2>2
  <2> QED BY <2>3 DEF r
<1>4. k \in Int /\ w = M * k
  <2> HIDE DEF w
  <2>1. w = M * (w \div M) + (w % M) /\ w \div M \in Int
    BY <1>1, <1>2
  <2> QED BY <1>1, <1>3, <2>1
<1>5. d \in Int /\ m \in 0 .. M - 1 /\ psn = M * d + m
  BY <1>1
<1>6. a = psn + w
  OBVIOUS
<1> HIDE DEF w, k, d, m
<1>7. j \in Int /\ a = M * j + m
  <2> DEFINE f == M * k
             g == M * d
             h == M * j
  <2>1. h = f + g
    BY <1>1, <1>4, <1>5
  <2>2. f \in Int /\ g \in Int /\ m \in Int
    BY <1>1, <1>4, <1>5
  <2>3. w = f /\ psn = g + m /\ j \in Int
    BY <1>4, <1>5
  <2> HIDE DEF f, g, h, j
  <2>4. a = h + m
    BY <1>6, <2>1, <2>2, <2>3
  <2> QED BY <2>3, <2>4 DEF h
<1> HIDE DEF j
<1>8. a % M = m
  BY <1>1, <1>5, <1>7, ModUnique
<1> QED BY <1>8 DEF Masked, m

(* The line of q, and a responder that expects x of it.                    *)
Expects(q, n, x) ==
  /\ Line(q, n) /\ Len(q.wqe) <= MaxWR
  /\ x \in Int /\ x <= PsnAfter(q, n)

(* What an answer for psn tells about PSNs of the line.                    *)
LEMMA AnswerTells ==
  ASSUME NEW q, NEW n, NEW x, Expects(q, n, x), NEW P, PsnsFit(P),
         NEW psn \in Int, Vouched(psn, x)
  PROVE  \E y \in Int :
           /\ y < x
           /\ \A a \in Int : InitPsn <= a /\ a <= PsnAfter(q, n) =>
                /\ get_psn_diff(psn, a) = y - a
                /\ get_psn_diff(a, psn) = 0 => a = y
<1>1. PICK y \in Int : InitPsn <= y /\ y < x /\ Masked(psn) = Masked(y)
  BY DEF Vouched
<1> DEFINE z == PsnAfter(q, n)
<1>2. n \in 0 .. n /\ InitPsn \in Int
  BY LineFits DEF Expects
<1>3. z \in Int
  BY <1>2, LineFits DEF Expects
<1>4. x \in Int /\ x <= z /\ Line(q, n) /\ Len(q.wqe) <= MaxWR
  BY DEF Expects
<1>5. y <= z
  <2> HIDE DEF z
  <2> QED BY <1>1, <1>3, <1>4
<1>6. ASSUME NEW a \in Int, InitPsn <= a, a <= z
      PROVE  /\ get_psn_diff(psn, a) = y - a
             /\ get_psn_diff(a, psn) = 0 => a = y
  <2>1. get_psn_diff(Masked(y), a) = y - a
    BY <1>1, <1>4, <1>5, <1>6, LineDiff
  <2>2. get_psn_diff(psn, a) = y - a
    BY <1>1, <2>1, DiffMasked
  <2>3. ASSUME get_psn_diff(a, psn) = 0 PROVE a = y
    <3>1. Masked(y) = Masked(a)
      BY <1>1, <2>3, SamePsn
    <3>2. get_psn_diff(Masked(a), a) = a - a
      BY <1>4, <1>6, LineDiff
    <3>3. y - a = a - a
      BY <2>1, <3>1, <3>2
    <3> QED BY <1>1, <3>3
  <2> QED BY <2>2, <2>3
<1> QED BY <1>1, <1>6 DEF z

(* What the requester counts as acknowledged is before x.                  *)
Successes(q) == {i \in 1 .. Len(q.cq) : q.cq[i].status = "SUCCESS"}
Backed(q, x) ==
  /\ \A i \in 1 .. Len(q.wqe) :
       q.wqe[i].ack_packets > 0 => q.wqe[i].based_psn + q.wqe[i].ack_packets <= x
  /\ \A i \in Successes(q) : Numbered(q.wqe[i]) /\ q.wqe[i].expected_psn <= x

(* Operations that count nothing as acknowledged.                          *)
SameAcks(l, m) == \A i \in 1 .. Len(l) : m[i].ack_packets = l[i].ack_packets
Unheard(q, p) ==
  /\ SameWqes(q.wqe, p.wqe) /\ SameAcks(q.wqe, p.wqe)
  /\ Successes(p) \subseteq Successes(q)

LEMMA UnheardTrans ==
  ASSUME NEW q, NEW p, NEW r, Unheard(q, p), Unheard(p, r)
  PROVE  Unheard(q, r)
BY DEF Unheard, SameWqes, SameAcks

LEMMA UnheardAlike ==
  ASSUME NEW q, NEW p, Alike(q, p), p.cq = q.cq
  PROVE  Unheard(q, p)
BY DEF Alike, AlikeWqe, Unheard, SameWqes, SameAcks, Successes

LEMMA UnheardFlow ==
  ASSUME NEW q, NEW p, SameFlow(q, p), SameAcks(q.wqe, p.wqe)
  PROVE  Unheard(q, p)
BY DEF SameFlow, Unheard, Successes

LEMMA SuccessExists ==
  ASSUME NEW q, ReqInv(q)
  PROVE  /\ Successes(q) \subseteq 1 .. Len(q.cq) /\ Len(q.cq) \in Nat
         /\ Len(q.cq) <= Len(q.wqe) /\ Len(q.wqe) \in Nat
         /\ 1 .. Len(q.cq) \subseteq 1 .. Len(q.wqe)
<1> DEFINE c == Len(q.cq)
           b == Begun(q)
           m == Len(q.wqe)
<1>1. c \in Nat /\ b \in Nat /\ m \in Nat /\ c <= b /\ b <= m
  BY ReqFields, Numbers DEF ReqInv, Requester
<1> HIDE DEF c, b, m
<1>2. c <= m /\ 1 .. c \subseteq 1 .. m
  BY <1>1
<1>3. Successes(q) \subseteq 1 .. Len(q.cq)
  BY DEF Successes
<1> QED BY <1>1, <1>2, <1>3 DEF c, m

LEMMA UnheardBacked ==
  ASSUME NEW q, ReqInv(q), NEW x, Backed(q, x), NEW p, Unheard(q, p)
  PROVE  Backed(p, x)
<1>1. \A i \in Successes(p) : i \in Successes(q) /\ i \in 1 .. Len(q.wqe)
  BY SuccessExists DEF Unheard
<1>2. \A i \in 1 .. Len(q.wqe) :
        /\ p.wqe[i].wr = q.wqe[i].wr /\ p.wqe[i].based_psn = q.wqe[i].based_psn
        /\ p.wqe[i].expected_psn = q.wqe[i].expected_psn
        /\ p.wqe[i].ack_packets = q.wqe[i].ack_packets
  BY DEF Unheard, SameWqes, SameAcks
<1>3. Len(p.wqe) = Len(q.wqe)
  BY DEF Unheard, SameWqes
<1>4. ASSUME NEW i \in Successes(p)
      PROVE  Numbered(p.wqe[i]) /\ p.wqe[i].expected_psn <= x
  <2>1. Numbered(q.wqe[i]) /\ q.wqe[i].expected_psn <= x
    BY <1>1 DEF Backed
  <2> QED BY <1>1, <1>2, <2>1 DEF Numbered
<1>5. ASSUME NEW i \in 1 .. Len(p.wqe), p.wqe[i].ack_packets > 0
      PROVE  p.wqe[i].based_psn + p.wqe[i].ack_packets <= x
  BY <1>2, <1>3, <1>5 DEF Backed
<1> QED BY <1>4, <1>5 DEF Backed

LEMMA ResendUnheard ==
  ASSUME NEW q, NEW c \in Nat, Requester(q, c)
  PROVE  Unheard(q, Resend(q))
<1> DEFINE wqe == [i \in DOMAIN q.wqe |->
                     IF InList(Started(q), i) THEN Cancel(q.wqe[i])
                     ELSE q.wqe[i]]
           s == Started(q)
           e == <<>>
           r == [q EXCEPT !.wqe = wqe]
           p == [r EXCEPT !.waiting = e, !.sending = s]
<1>1. /\ q \in ReqType /\ DOMAIN q.wqe = 1 .. Len(q.wqe)
      /\ \A i \in 1 .. Len(q.wqe) : q.wqe[i] \in SwqeType
  BY Numbers, RequesterFacts, ReqFields
<1>2. Resend(q) = p
  BY DEF Resend, CancelStarted
<1>3. \A f \in SwqeType : Cancel(f).ack_packets = f.ack_packets
  BY DEF Cancel, SwqeType
<1>4. SameAcks(q.wqe, wqe)
  BY <1>1, <1>3 DEF SameAcks
<1> HIDE DEF wqe, s, e
<1>5. r.wqe = wqe /\ DOMAIN r = DOMAIN q
  BY <1>1 DEF ReqType
<1> HIDE DEF r
<1>6. p.wqe = r.wqe
  BY <1>1, <1>5 DEF ReqType
<1>7. SameAcks(q.wqe, Resend(q).wqe)
  BY <1>2, <1>4, <1>5, <1>6
<1> QED BY <1>7, ResendSame, UnheardFlow

LEMMA LocalAckTimeoutUnheard ==
  ASSUME NEW q, NEW c \in Nat, Requester(q, c), q.waiting # <<>>
  PROVE  Unheard(q, LocalAckTimeout(q))
<1> DEFINE id == Head(q.waiting)
           k  == q.wqe[id].retry_cnt - 1
           e  == [q.wqe[id] EXCEPT !.retry_cnt = k]
           p  == [q EXCEPT !.wqe[id] = e]
<1>1. q \in ReqType /\ id \in DOMAIN q.wqe
  BY ListsExist DEF Requester
<1> HIDE DEF id
<1>2. q.wqe[id] \in SwqeType
  BY <1>1, FirstWqe
<1>3. k \in Int
  BY <1>2, SwqeFields
<1>4. LocalAckTimeout(q) = Resend(p)
  BY DEF LocalAckTimeout, id
<1> HIDE DEF k
<1>5. e \in SwqeType /\ AlikeWqe(q.wqe[id], e)
  BY <1>2, <1>3 DEF SwqeType, AlikeWqe
<1> HIDE DEF e
<1>6. Still(q, p) /\ Requester(p, c)
  BY <1>1, <1>5, StillSet, WqeSet
<1>7. p.cq = q.cq
  BY <1>1 DEF ReqType
<1> HIDE DEF p
<1>8. Unheard(q, p) /\ Unheard(p, Resend(p))
  BY <1>6, <1>7, UnheardAlike, ResendUnheard DEF Still
<1> QED BY <1>4, <1>8, UnheardTrans

LEMMA TransmitUnheard ==
  ASSUME NEW q, NEW c \in Nat, Requester(q, c), NEW id \in DOMAIN q.wqe
  PROVE  Unheard(q, Transmit(q, id))
<1> DEFINE e   == q.wqe[id]
           pkt == RequestPacket(q, id)
           tx  == <<pkt>>
           k   == IF e.wr.op = "READ" THEN e.sent_packets
                  ELSE e.sent_packets + 1
           f   == [e EXCEPT !.sent_packets = k]
           n   == IF e.wr.op = "READ" THEN q.nr_contig_requests
                  ELSE IF WithReth(pkt.op) THEN 1 ELSE q.nr_contig_requests + 1
           wqe == [q.wqe EXCEPT ![id] = f]
           q1  == [q EXCEPT !.tx = tx, !.wqe = wqe, !.nr_contig_requests = n]
<1>1. e \in SwqeType /\ q \in ReqType /\ DOMAIN q.wqe = 1 .. Len(q.wqe)
  BY RequesterFacts, FirstWqe, ReqFields
<1>2. Transmit(q, id) = q1 \/ Transmit(q, id) = ToWaiting(q1)
  <2>1. Transmit(q, id) = IF e.wr.op # "READ" /\ e.sent_packets + 1 < e.wr.pkts
                          THEN q1 ELSE ToWaiting(q1)
    BY DEF Transmit
  <2> HIDE DEF q1
  <2> QED BY <2>1
<1> HIDE DEF k, n, tx
<1>3. f.ack_packets = e.ack_packets
  <2> HIDE DEF e
  <2> QED BY <1>1 DEF SwqeType
<1> HIDE DEF f
<1>4. SameAcks(q.wqe, wqe)
  BY <1>1, <1>3 DEF SameAcks
<1> HIDE DEF wqe
<1>5. q1.wqe = wqe /\ DOMAIN q1 = DOMAIN q
  BY <1>1 DEF ReqType
<1> HIDE DEF q1
<1>6. ToWaiting(q1).wqe = q1.wqe
  BY <1>1, <1>5 DEF ToWaiting, ReqType
<1>7. SameAcks(q.wqe, Transmit(q, id).wqe)
  BY <1>2, <1>4, <1>5, <1>6
<1> QED BY <1>7, TransmitSame, UnheardFlow

(* The completions of a queue pair that fails.                             *)
LEMMA CompletionErrorUnheard ==
  ASSUME NEW q, Requester(q, Len(q.cq) + 1), NEW id, id = Len(q.cq) + 1,
         id \in DOMAIN q.wqe, AllGood(q.cq), q.wqe[id].status # "SUCCESS"
  PROVE  Unheard(q, CompletionError(q, id))
<1> DEFINE st   == q.wqe[id].status
           wc   == [wr |-> id, status |-> st]
           cq1  == Append(q.cq, wc)
           q1   == [q EXCEPT !.cq = cq1]
           left == Started(q1) \o q1.submitted
           wcs  == [i \in 1 .. Len(left) |->
                     [wr |-> left[i], status |-> "WR_FLUSH_ERR"]]
           cq   == q1.cq \o wcs
           e    == <<>>
           z    == 0
           err  == "ERR"
           p1   == [q1 EXCEPT !.state = err, !.waiting = e, !.sending = e,
                              !.submitted = e, !.nr_rd_atomic = z, !.cq = cq]
           on   == /\ p1.state = "RTS"
                   /\ p1.waiting # <<>> \/ SendDue(p1) \/ StartDue(p1)
           p2   == [p1 EXCEPT !.on = on]
           p3   == [p2 EXCEPT !.nr_contig_requests = z, !.nr_contig_read_acks = z]
           f    == CompletionError(q, id)
           c    == Len(q.cq)
<1>1. f = p3
  BY DEF CompletionError, flush_req, insert_send_wc, reschedule_req
<1>2. /\ q \in ReqType /\ q.cq \in Seq(SendWc) /\ c \in Nat
      /\ q.waiting \in Seq(Nat) /\ q.sending \in Seq(Nat) /\ q.submitted \in Seq(Nat)
      /\ DOMAIN q = {"state", "submitted", "sending", "waiting", "wqe", "psn",
                     "expected_psn", "nr_rd_atomic", "nr_contig_requests",
                     "nr_contig_read_acks", "on", "cq", "tx"}
  <2>1. q \in ReqType
    BY DEF Requester
  <2>2. DOMAIN q = {"state", "submitted", "sending", "waiting", "wqe", "psn",
                     "expected_psn", "nr_rd_atomic", "nr_contig_requests",
                     "nr_contig_read_acks", "on", "cq", "tx"}
    BY <2>1 DEF ReqType
  <2> QED BY <2>1, <2>2, ReqFields DEF SendWc
<1>3. f.wqe = q.wqe /\ ErrsLast(f.cq)
  BY <1>2, CompletionErrorKeeps, CompletionErrorFlow, FlowFacts
<1> HIDE DEF f, st
<1>4. Len(cq1) = c + 1 /\ cq1[c + 1] = wc /\ cq1 \in Seq(SendWc)
  <2>1. st \in Statuses /\ id \in Nat
    BY <1>2, FirstWqe DEF SwqeType, st
  <2>2. wc \in SendWc
    BY <2>1 DEF SendWc
  <2> HIDE DEF wc
  <2> QED BY <1>2, <2>2
<1> HIDE DEF cq1
<1>5. /\ q1.cq = cq1 /\ DOMAIN q1 = DOMAIN q /\ q1.waiting = q.waiting
      /\ q1.sending = q.sending /\ q1.submitted = q.submitted
  BY <1>2
<1> HIDE DEF q1
<1>6. left \in Seq(Nat)
  BY <1>2, <1>5 DEF Started
<1> HIDE DEF left
<1>7. wcs \in Seq(SendWc)
  <2>1. Len(left) \in Nat /\ \A i \in 1 .. Len(left) : left[i] \in Nat
    BY <1>6
  <2>2. "WR_FLUSH_ERR" \in Statuses
    BY DEF Statuses
  <2>3. wcs \in [1 .. Len(left) -> SendWc]
    BY <2>1, <2>2 DEF SendWc
  <2> HIDE DEF wcs
  <2> QED BY <2>1, <2>3, SeqDef
<1> HIDE DEF wcs
<1>8. cq[c + 1] = wc /\ Len(cq) \in Nat /\ c + 1 <= Len(cq)
  <2>1. /\ Len(cq1 \o wcs) = Len(cq1) + Len(wcs) /\ Len(wcs) \in Nat
        /\ \A i \in 1 .. Len(cq1) : (cq1 \o wcs)[i] = cq1[i]
    <3>1. cq1 \in Seq(SendWc) /\ wcs \in Seq(SendWc)
      BY <1>4, <1>7
    <3>2. /\ Len(cq1 \o wcs) = Len(cq1) + Len(wcs)
          /\ Len(wcs) \in Nat /\ Len(cq1) \in Nat
      BY <3>1
    <3>3. \A i \in 1 .. Len(cq1) : (cq1 \o wcs)[i] = cq1[i]
      BY <3>1
    <3> QED BY <3>2, <3>3
  <2>2. c + 1 \in 1 .. c + 1
    BY <1>2
  <2> DEFINE l == Len(wcs)
             m == Len(cq1 \o wcs)
  <2>3. m = (c + 1) + l /\ l \in Nat
    BY <1>4, <2>1
  <2> HIDE DEF c, l, m
  <2>4. m \in Nat /\ c + 1 <= m
    BY <1>2, <2>3
  <2> QED BY <1>4, <1>5, <2>1, <2>2, <2>4 DEF m
<1> HIDE DEF cq, e, z, err
<1>9. p1.cq = cq /\ DOMAIN p1 = DOMAIN q1
  BY <1>2, <1>5
<1> HIDE DEF p1, on
<1>10. p2.cq = p1.cq /\ DOMAIN p2 = DOMAIN p1
  BY <1>2, <1>5, <1>9
<1> HIDE DEF p2
<1>11. p3.cq = p2.cq
  BY <1>2, <1>5, <1>9, <1>10
<1> HIDE DEF p3
<1>12. f.cq = cq
  BY <1>1, <1>9, <1>10, <1>11
<1>13. Successes(f) \subseteq Successes(q)
  <2> SUFFICES ASSUME NEW i \in Successes(f) PROVE i \in Successes(q)
    OBVIOUS
  <2>1. i \in 1 .. Len(cq) /\ cq[i].status = "SUCCESS"
    BY <1>12 DEF Successes
  <2> DEFINE a == c + 1
             m == Len(cq)
  <2>2. a \in 1 .. m /\ m \in Nat
    BY <1>2, <1>8
  <2>3. cq[a].status # "SUCCESS"
    BY <1>8 DEF wc, st
  <2>4. ~(a < i)
    <3> SUFFICES ASSUME a < i PROVE FALSE
      OBVIOUS
    <3>1. cq[i].status = "WR_FLUSH_ERR"
      <4> HIDE DEF a
      <4> QED BY <1>3, <1>12, <2>1, <2>2, <2>3 DEF ErrsLast, m
    <3> QED BY <2>1, <3>1
  <2>5. i # a
    BY <2>1, <2>3
  <2>6. i \in 1 .. c
    BY <1>2, <2>1, <2>2, <2>4, <2>5
  <2> QED BY <2>6 DEF Successes, AllGood
<1>14. Unheard(q, f)
  BY <1>3, <1>13 DEF Unheard, SameWqes, SameAcks
<1> QED BY <1>14 DEF f

LEMMA FailFirstUnheard ==
  ASSUME NEW q, ReqInv(q), Len(Started(q)) >= 1, NEW id, id = Len(q.cq) + 1,
         AllGood(q.cq), q.wqe[id].status # "SUCCESS"
  PROVE  Unheard(q, CompletionError(DropStarted(q, 1), id))
<1> DEFINE c == Len(q.cq)
           p == DropStarted(q, 1)
<1>1. c \in Nat /\ Requester(q, c) /\ Len(Started(q)) \in Nat
  BY ReqFields, ListsExist DEF ReqInv, Requester
<1>2. 1 \in 0 .. Len(Started(q)) /\ 1 \in 1 .. Len(Started(q))
  BY <1>1
<1>3. Requester(p, c + 1) /\ p.cq = q.cq /\ p.wqe = q.wqe /\ Alike(q, p)
  BY <1>1, <1>2, DropStartedType, DropStartedAlike
<1>4. id \in DOMAIN q.wqe
  BY <1>1, <1>2, ListsExist
<1> HIDE DEF p
<1>5. Unheard(p, CompletionError(p, id))
  BY <1>3, <1>4, CompletionErrorUnheard
<1>6. Unheard(q, p)
  BY <1>3, UnheardAlike
<1>7. Unheard(q, CompletionError(p, id))
  BY <1>5, <1>6, UnheardTrans
<1> QED BY <1>7 DEF p

LEMMA pib_process_rc_qp_requestUnheard ==
  ASSUME NEW q, NEW c \in Nat, Requester(q, c), NEW id \in DOMAIN q.wqe
  PROVE  Unheard(q, pib_process_rc_qp_request(q, id))
<1>1. \A status \in Statuses : Unheard(q, SetStatus(q, id, status))
  <2> TAKE status \in Statuses
  <2>1. SetStatus(q, id, status).cq = q.cq
    BY SetStatusType
  <2> QED BY <2>1, SetStatusStill, UnheardAlike DEF Still
<1>2. {"RETRY_EXC_ERR", "RNR_RETRY_EXC_ERR", "LOC_PROT_ERR"} \subseteq Statuses
  BY DEF Statuses
<1>3. Unheard(q, Transmit(q, id))
  BY TransmitUnheard
<1> QED BY <1>1, <1>2, <1>3 DEF pib_process_rc_qp_request

LEMMA SendFirstUnheard ==
  ASSUME NEW q, FlowInv(q)
  PROVE  Unheard(q, SendFirst(q))
<1> DEFINE id == Head(q.sending)
           s  == Tail(q.sending)
           p  == [q EXCEPT !.sending = s]
           c  == Len(q.cq)
<1>1. /\ c \in Nat /\ Requester(q, c) /\ q \in ReqType
      /\ q.state = "RTS" => AllGood(q.cq)
  BY FlowFacts
<1>2. CASE q.sending = <<>> \/ HeldBack(q)
  BY <1>2, AlikeRefl, UnheardAlike DEF SendFirst
<1>3. CASE ~(q.sending = <<>> \/ HeldBack(q))
  <2>1. q.sending # <<>> /\ SendFirst(q) = process_send_wr(q)
    BY <1>3 DEF SendFirst
  <2>2. q.wqe[id].status # "SUCCESS" => q.waiting = <<>>
    BY <1>3 DEF HeldBack
  <2>3. id \in DOMAIN q.wqe /\ q.state = "RTS"
    BY <1>1, <2>1, ListsExist, DrainedLists DEF ReqType
  <2>4. CASE q.wqe[id].status = "SUCCESS"
    <3>1. process_send_wr(q) = pib_process_rc_qp_request(q, id)
      BY <2>4 DEF process_send_wr
    <3> HIDE DEF id
    <3> QED BY <1>1, <2>1, <2>3, <3>1, pib_process_rc_qp_requestUnheard
  <2>5. CASE q.wqe[id].status # "SUCCESS"
    <3>1. process_send_wr(q) = CompletionError(p, id)
      BY <2>5 DEF process_send_wr
    <3>2. /\ CompletedInOrder(q.cq)
          /\ q.sending \in Seq(Nat) /\ q.submitted \in Seq(Nat)
          /\ InOrder(<<>>, q.sending, q.submitted, Len(q.wqe), c)
      BY <1>1, <2>2, <2>5, RequesterFacts
    <3>3. id = c + 1 /\ s \in Seq(Nat)
          /\ InOrder(<<>>, s, q.submitted, Len(q.wqe), c + 1)
      <4> DEFINE t == q.sending
      <4>1. t \in Seq(Nat) /\ t # <<>> /\ id = Head(t) /\ s = Tail(t)
            /\ InOrder(<<>>, t, q.submitted, Len(q.wqe), c)
        BY <2>1, <3>2
      <4> HIDE DEF t, id, s, c
      <4> QED BY <1>1, <3>2, <4>1, InOrderFirst
    <3> HIDE DEF id, s, c
    <3>4. /\ p \in ReqType /\ p.cq = q.cq /\ p.waiting = q.waiting
          /\ p.sending = s /\ p.submitted = q.submitted /\ p.wqe = q.wqe
          /\ p.state = q.state
      BY <1>1, <3>3 DEF ReqType
    <3> HIDE DEF p
    <3>5. Drained(q, c + 1)
      BY <2>3 DEF Drained
    <3>6. Requester(p, c + 1)
      BY <2>2, <2>5, <3>2, <3>3, <3>4, <3>5, RequesterIntro
    <3>7. Unheard(p, CompletionError(p, id))
      BY <1>1, <2>3, <2>5, <3>3, <3>4, <3>6, CompletionErrorUnheard DEF c
    <3>8. Unheard(q, p)
      BY <3>4 DEF Unheard, SameWqes, SameAcks, Successes
    <3> QED BY <2>1, <3>1, <3>7, <3>8, UnheardTrans
  <2> QED BY <2>4, <2>5
<1> QED BY <1>2, <1>3

(* Operations that give a WQE its PSNs or add one: nothing of it is        *)
(* acknowledged.                                                           *)
LEMMA BackedGrows ==
  ASSUME NEW q, ReqInv(q), NEW x, Backed(q, x), NEW p, Continues(q, p),
         Successes(p) \subseteq Successes(q),
         \A i \in 1 .. Len(p.wqe) :
           p.wqe[i].ack_packets = 0 \/ (i \in 1 .. Len(q.wqe) /\ p.wqe[i] = q.wqe[i])
  PROVE  Backed(p, x)
<1>1. ASSUME NEW i \in Successes(p)
      PROVE  Numbered(p.wqe[i]) /\ p.wqe[i].expected_psn <= x
  <2>1. i \in Successes(q) /\ i \in 1 .. Len(q.wqe)
    BY SuccessExists
  <2>2. Numbered(q.wqe[i]) /\ q.wqe[i].expected_psn <= x /\ Follows(q.wqe[i], p.wqe[i])
    BY <2>1 DEF Backed, Continues
  <2> QED BY <2>2 DEF Follows, Numbered
<1>2. ASSUME NEW i \in 1 .. Len(p.wqe), p.wqe[i].ack_packets > 0
      PROVE  p.wqe[i].based_psn + p.wqe[i].ack_packets <= x
  <2>1. i \in 1 .. Len(q.wqe) /\ p.wqe[i] = q.wqe[i]
    BY <1>2
  <2> QED BY <1>2, <2>1 DEF Backed
<1> QED BY <1>1, <1>2 DEF Backed

LEMMA StartNextBacked ==
  ASSUME NEW q, ReqInv(q), Windows(q, Len(q.cq)), NEW x, Backed(q, x)
  PROVE  Backed(StartNext(q), x)
<1> DEFINE id == Head(q.submitted)
           w  == q.wqe[id].wr
           b  == q.expected_psn
           m  == q.expected_psn + w.pkts
           nr == IF IsRd(q.wqe[id]) THEN q.nr_rd_atomic + 1 ELSE q.nr_rd_atomic
           z  == 0
           e  == [q.wqe[id] EXCEPT !.based_psn = b, !.expected_psn = m,
                                   !.ack_packets = z, !.sent_packets = z,
                                   !.retry_cnt = RetryCnt,
                                   !.rnr_retry = RnrRetry]
           wqe == [q.wqe EXCEPT ![id] = e]
           u  == Tail(q.submitted)
           s  == Append(q.sending, id)
           p  == [q EXCEPT !.submitted = u, !.sending = s,
                           !.nr_rd_atomic = nr, !.expected_psn = m, !.wqe = wqe]
<1>1. CASE ~(q.sending = <<>> /\ MayStart(q))
  BY <1>1 DEF StartNext
<1>2. CASE q.sending = <<>> /\ MayStart(q)
  <2>1. q.submitted # <<>> /\ StartNext(q) = process_new_send_wr(q)
    BY <1>2 DEF MayStart, StartNext
  <2>2. /\ Len(q.cq) \in Nat /\ Requester(q, Len(q.cq)) /\ q \in ReqType
        /\ q.wqe \in Seq(SwqeType) /\ Len(q.wqe) \in Nat
        /\ DOMAIN q.wqe = 1 .. Len(q.wqe)
    BY ReqFields DEF ReqInv, Requester
  <2>3. process_new_send_wr(q) = p
    BY <2>2 DEF process_new_send_wr, ReqType, NumOfPsns, IsRd
  <2>4. Continues(q, p) /\ p.cq = q.cq
    BY <2>1, <2>2, <2>3, process_new_send_wrAdvances, process_new_send_wrType
       DEF Advances
  <2>5. id \in 1 .. Len(q.wqe) /\ q.wqe[id] \in SwqeType
    BY <2>1, <2>2, ListsExist, FirstWqe
  <2>6. e.ack_packets = 0
    <3> HIDE DEF id, b, m
    <3> QED BY <2>5 DEF SwqeType
  <2> HIDE DEF e, id
  <2>7. /\ \A i \in 1 .. Len(q.wqe) : wqe[i].ack_packets = 0 \/ wqe[i] = q.wqe[i]
    BY <2>2, <2>5, <2>6
  <2>8. Len(wqe) = Len(q.wqe)
    <3>1. DOMAIN wqe = 1 .. Len(q.wqe)
      BY <2>2
    <3> HIDE DEF wqe
    <3> QED BY <2>2, <3>1
  <2> HIDE DEF wqe, u, s, nr, m
  <2>9. p.wqe = wqe
    BY <2>2 DEF ReqType
  <2> HIDE DEF p
  <2>10. Successes(p) \subseteq Successes(q)
    BY <2>4 DEF Successes
  <2>11. Backed(p, x)
    BY <2>4, <2>7, <2>8, <2>9, <2>10, BackedGrows
  <2> QED BY <2>1, <2>3, <2>11
<1> QED BY <1>1, <1>2

LEMMA post_sendBacked ==
  ASSUME NEW q, ReqInv(q), Windows(q, Len(q.cq)), NEW w \in WRs, NEW x, Backed(q, x)
  PROVE  Backed(post_send(q, w), x)
<1> DEFINE n   == Len(q.wqe)
           id  == n + 1
           e   == NewSwqe(w)
           wqe == Append(q.wqe, e)
           wc  == [wr |-> id, status |-> "WR_FLUSH_ERR"]
           cq  == Append(q.cq, wc)
           q1  == [q EXCEPT !.wqe = wqe]
           f1  == [q1 EXCEPT !.cq = cq]
           u   == Append(q.submitted, id)
           q2  == [q1 EXCEPT !.submitted = u]
           on  == /\ q2.state = "RTS"
                  /\ q2.waiting # <<>> \/ SendDue(q2) \/ StartDue(q2)
           q3  == [q2 EXCEPT !.on = on]
           z   == 0
           q4  == [q3 EXCEPT !.nr_contig_requests = z, !.nr_contig_read_acks = z]
           f   == post_send(q, w)
<1>1. /\ q \in ReqType /\ q.wqe \in Seq(SwqeType) /\ n \in Nat
      /\ q.cq \in Seq([wr : Nat, status : Statuses])
  BY ReqFields DEF ReqInv, Requester
<1>2. DOMAIN q = {"state", "submitted", "sending", "waiting", "wqe", "psn",
                  "expected_psn", "nr_rd_atomic", "nr_contig_requests",
                  "nr_contig_read_acks", "on", "cq", "tx"}
  BY <1>1 DEF ReqType
<1>3. Continues(q, f)
  BY post_sendAdvances DEF Advances
<1>4. f = IF q.state = "ERR" THEN f1 ELSE q4
  <2>1. q1.cq = q.cq /\ q1.submitted = q.submitted
    <3> HIDE DEF wqe
    <3> QED BY <1>2
  <2>2. CASE q.state = "ERR"
    <3>1. f = [q1 EXCEPT !.cq = Append(@, wc)]
      BY <2>2 DEF post_send, insert_send_wc
    <3> HIDE DEF q1, wc, f
    <3> QED BY <2>1, <2>2, <3>1
  <2>3. CASE q.state # "ERR"
    <3>1. f = q4
      BY <2>1, <2>3 DEF post_send, reschedule_req
    <3> HIDE DEF f, q4, f1
    <3> QED BY <2>3, <3>1
  <2> QED BY <2>2, <2>3
<1>5. e \in SwqeType /\ e.ack_packets = 0
  BY NewWindow DEF Fresh
<1> HIDE DEF e
<1>6. /\ Len(wqe) = n + 1 /\ wqe[n + 1] = e
      /\ \A i \in 1 .. n : wqe[i] = q.wqe[i]
  BY <1>1, <1>5
<1>7. \A i \in 1 .. Len(cq) : cq[i].status = "SUCCESS" =>
        i \in 1 .. Len(q.cq) /\ q.cq[i].status = "SUCCESS"
  <2> DEFINE l == q.cq
             m == Len(l)
  <2>1. l \in Seq([wr : Nat, status : Statuses])
    BY <1>1
  <2>2. wc.status = "WR_FLUSH_ERR"
    OBVIOUS
  <2> HIDE DEF l, wc
  <2>3. /\ m \in Nat /\ Len(Append(l, wc)) = m + 1 /\ Append(l, wc)[m + 1] = wc
        /\ \A i \in 1 .. m : Append(l, wc)[i] = l[i]
    BY <2>1
  <2> DEFINE a == Append(l, wc)
  <2> HIDE DEF a, m
  <2>4. ASSUME NEW i \in 1 .. m + 1, a[i].status = "SUCCESS"
        PROVE  i \in 1 .. m /\ l[i].status = "SUCCESS"
    <3>1. i # m + 1
      BY <2>2, <2>3, <2>4 DEF a
    <3>2. i \in 1 .. m
      BY <2>3, <3>1
    <3> QED BY <2>3, <2>4, <3>2 DEF a
  <2> QED BY <2>3, <2>4 DEF a, l, m
<1> HIDE DEF wqe, cq, u, z, f
<1>8. q1.wqe = wqe /\ q1.cq = q.cq /\ DOMAIN q1 = DOMAIN q
  BY <1>2
<1> HIDE DEF q1
<1>9. f1.wqe = wqe /\ f1.cq = cq
  BY <1>2, <1>8
<1>10. q2.wqe = wqe /\ q2.cq = q.cq /\ DOMAIN q2 = DOMAIN q
  BY <1>2, <1>8
<1> HIDE DEF q2, on, f1
<1>11. q3.wqe = wqe /\ q3.cq = q.cq /\ DOMAIN q3 = DOMAIN q
  BY <1>2, <1>10
<1> HIDE DEF q3
<1>12. q4.wqe = wqe /\ q4.cq = q.cq
  BY <1>2, <1>11
<1> HIDE DEF q4
<1>13. f.wqe = wqe /\ (f.cq = cq \/ f.cq = q.cq)
  BY <1>4, <1>9, <1>12
<1>14. Successes(f) \subseteq Successes(q)
  BY <1>7, <1>13 DEF Successes
<1>15. ASSUME NEW i \in 1 .. Len(f.wqe)
       PROVE  f.wqe[i].ack_packets = 0 \/ (i \in 1 .. n /\ f.wqe[i] = q.wqe[i])
  <2>1. i \in 1 .. n + 1
    BY <1>6, <1>13
  <2>2. i \in 1 .. n \/ i = n + 1
    <3> HIDE DEF n
    <3> QED BY <1>1, <2>1
  <2> QED BY <1>5, <1>6, <1>13, <2>2
<1>16. Backed(f, x)
  BY <1>3, <1>14, <1>15, BackedGrows
<1> QED BY <1>16 DEF f

LEMMA RequesterStepBacked ==
  ASSUME NEW q \in ReqType, NEW x, Backed(q, x), RequesterStep(q)
  PROVE  Backed(req', x)
<1> DEFINE r == reschedule_req(q)
           e == <<>>
           p == [r EXCEPT !.tx = e]
<1>1. req' = p
  BY DEF RequesterStep
<1>2. r \in ReqType /\ r.wqe = q.wqe /\ r.cq = q.cq
  BY reschedule_reqStill DEF reschedule_req, ReqType
<1> HIDE DEF r, e
<1>3. p.wqe = q.wqe /\ p.cq = q.cq
  BY <1>2 DEF ReqType
<1> HIDE DEF p
<1>4. Backed(p, x)
  BY <1>3 DEF Backed, Successes
<1> QED BY <1>1, <1>4

-----------------------------------------------------------------------------
(* An answer reaches a requester whose completions are all good.           *)
Hears(q, n, x) ==
  /\ ReqInv(q) /\ AllGood(q.cq) /\ Windows(q, Len(q.cq))
  /\ Expects(q, n, x) /\ Backed(q, x)

LEMMA HearsFacts ==
  ASSUME NEW q, NEW n, NEW x, Hears(q, n, x)
  PROVE  /\ q \in ReqType /\ Len(q.cq) \in Nat /\ Requester(q, Len(q.cq))
         /\ Len(Started(q)) \in Nat /\ x \in Int /\ Len(q.wqe) \in Nat
         /\ DOMAIN Started(q) = 1 .. Len(Started(q))
         /\ \A j \in 1 .. Len(Started(q)) :
              /\ Started(q)[j] = Len(q.cq) + j
              /\ Len(q.cq) + j \in DOMAIN q.wqe /\ Len(q.cq) + j \in 1 .. Len(q.wqe)
<1>1. q \in ReqType /\ Len(q.cq) \in Nat /\ Requester(q, Len(q.cq)) /\ x \in Int
      /\ Len(q.wqe) \in Nat /\ DOMAIN q.wqe = 1 .. Len(q.wqe)
  BY ReqFields DEF Hears, Expects, ReqInv, Requester
<1>2. /\ Started(q) \in Seq(Nat) /\ Len(Started(q)) \in Nat
      /\ \A j \in 1 .. Len(Started(q)) : /\ Started(q)[j] = Len(q.cq) + j
                                         /\ Started(q)[j] \in DOMAIN q.wqe
  BY <1>1, ListsExist
<1>3. DOMAIN Started(q) = 1 .. Len(Started(q))
  BY <1>2
<1> QED BY <1>1, <1>2, <1>3

(* A started work request stands in the line.                              *)
LEMMA StartedInLine ==
  ASSUME NEW q, NEW n, NEW x, Hears(q, n, x), NEW P, PsnsFit(P),
         NEW j \in 1 .. Len(Started(q)), NEW id, id = Len(q.cq) + j
  PROVE  /\ id \in 1 .. n /\ id \in 1 .. Len(q.wqe) /\ q.wqe[id] \in SwqeType
         /\ InWindow(q.wqe[id]) /\ Numbered(q.wqe[id])
         /\ q.wqe[id].wr.pkts \in Nat /\ q.wqe[id].wr.pkts >= 1
         /\ q.wqe[id].wr \in WRs
<1> DEFINE c == Len(q.cq)
           b == Begun(q)
           L == Len(q.wqe)
           S == Len(Started(q))
<1>1. c \in Nat /\ b \in Nat /\ L \in Nat /\ b <= L /\ S \in Nat /\ b = c + S
  BY HearsFacts, Numbers, ListsExist
<1>2. Line(q, n)
  BY DEF Hears, Expects
<1>3. n \in 0 .. L /\ \A i \in n + 1 .. L : ~Numbered(q.wqe[i])
  BY <1>2 DEF Line
<1>4. \A i \in c + 1 .. L : InWindow(q.wqe[i]) /\ (i <= b => Numbered(q.wqe[i]))
  BY DEF Hears, Windows, Rest
<1>5. id = c + j /\ j \in 1 .. S
  OBVIOUS
<1> HIDE DEF c, b, L, S
<1>6. id \in c + 1 .. L /\ id <= b /\ id \in 1 .. L
  BY <1>1, <1>5
<1>7. InWindow(q.wqe[id]) /\ Numbered(q.wqe[id])
  BY <1>4, <1>6
<1>8. id \in 1 .. n
  BY <1>1, <1>3, <1>6, <1>7
<1> QED BY <1>2, <1>6, <1>7, <1>8, LineWqe DEF L

(* The answer for psn speaks of the PSN y of the line.                     *)
Speaks(e, psn, y) ==
  /\ get_psn_diff(psn, e.based_psn) = y - e.based_psn
  /\ \A k \in 0 .. e.wr.pkts - 1 :
       get_psn_diff(e.based_psn + k, psn) = 0 => e.based_psn + k = y

LEMMA AnswerSpeaks ==
  ASSUME NEW q, NEW n, NEW x, Hears(q, n, x), NEW P, PsnsFit(P),
         NEW psn \in Int, Vouched(psn, x)
  PROVE  \E y \in Int : /\ y < x
                        /\ \A j \in 1 .. Len(Started(q)) :
                             Speaks(q.wqe[Len(q.cq) + j], psn, y)
<1>1. Expects(q, n, x) /\ Line(q, n) /\ Len(q.wqe) <= MaxWR
  BY DEF Hears, Expects
<1> DEFINE z == PsnAfter(q, n)
<1>2. PICK y \in Int :
        /\ y < x
        /\ \A a \in Int : InitPsn <= a /\ a <= z =>
             /\ get_psn_diff(psn, a) = y - a
             /\ get_psn_diff(a, psn) = 0 => a = y
  BY <1>1, AnswerTells
<1>3. ASSUME NEW j \in 1 .. Len(Started(q))
      PROVE  Speaks(q.wqe[Len(q.cq) + j], psn, y)
  <2> DEFINE id == Len(q.cq) + j
             e  == q.wqe[id]
             b  == e.based_psn
             m  == e.wr.pkts
  <2>1. id \in 1 .. n /\ m \in Nat /\ m >= 1 /\ e \in SwqeType
    BY StartedInLine
  <2>2. b \in Int
    BY <2>1, SwqeFields
  <2>3. \A k \in 0 .. m - 1 : /\ b + k \in Int /\ InitPsn <= b + k
                              /\ b + k < z /\ z \in Int
    <3> HIDE DEF id
    <3> QED BY <1>1, <2>1, PlaceInLine
  <2> HIDE DEF id, e, b, m, z
  <2>4. 0 \in 0 .. m - 1 /\ b + 0 = b
    BY <2>1, <2>2
  <2>5. InitPsn <= b /\ b <= z
    BY <2>2, <2>3, <2>4
  <2>6. get_psn_diff(psn, b) = y - b
    BY <1>2, <2>2, <2>5
  <2>7. ASSUME NEW k \in 0 .. m - 1, get_psn_diff(b + k, psn) = 0
        PROVE  b + k = y
    <3>1. b + k \in Int /\ InitPsn <= b + k /\ b + k <= z
      BY <2>3
    <3> QED BY <1>2, <2>7, <3>1
  <2>8. Speaks(e, psn, y)
    BY <2>6, <2>7 DEF Speaks, b, m
  <2> QED BY <2>8 DEF e, id
<1> QED BY <1>2, <1>3

(* What a completed or acknowledged work request adds.                     *)
LEMMA CompletedBacked ==
  ASSUME NEW q, ReqInv(q), AllGood(q.cq), NEW x, Backed(q, x),
         NEW n \in 0 .. Len(Started(q)),
         \A j \in 1 .. n : /\ Numbered(q.wqe[Len(q.cq) + j])
                           /\ q.wqe[Len(q.cq) + j].expected_psn <= x
  PROVE  Backed(CompleteStarted(q, n), x)
<1> DEFINE p == CompleteStarted(q, n)
           c == Len(q.cq)
<1>1. /\ Len(p.cq) = c + n /\ p.wqe = q.wqe
  BY CompleteStartedType
<1>2. c \in Nat /\ n \in Nat
  BY SuccessExists, ReqFields, ListsExist DEF ReqInv, Requester
<1>3. \A i \in 1 .. c : i \in Successes(q)
  BY DEF Successes, AllGood
<1>4. Successes(p) \subseteq 1 .. c + n
  BY <1>1 DEF Successes
<1>5. \A j \in 1 .. n : Numbered(q.wqe[c + j]) /\ q.wqe[c + j].expected_psn <= x
  OBVIOUS
<1> HIDE DEF p, c
<1>6. ASSUME NEW i \in Successes(p)
      PROVE  Numbered(q.wqe[i]) /\ q.wqe[i].expected_psn <= x
  <2>1. i \in 1 .. c + n
    BY <1>4
  <2>2. CASE i <= c
    <3>1. i \in Successes(q)
      BY <1>2, <1>3, <2>1, <2>2
    <3> QED BY <3>1 DEF Backed
  <2>3. CASE i > c
    <3>1. i - c \in 1 .. n /\ i = c + (i - c)
      BY <1>2, <2>1, <2>3
    <3> QED BY <1>5, <3>1
  <2> QED BY <1>2, <2>1, <2>2, <2>3
<1>7. Backed(p, x)
  BY <1>1, <1>6 DEF Backed
<1> QED BY <1>7 DEF p

LEMMA PostponeBacked ==
  ASSUME NEW q, ReqInv(q), NEW x, Backed(q, x)
  PROVE  Backed(postpone_local_ack_timeout(q), x)
<1>1. q \in ReqType
  BY DEF ReqInv, Requester
<1>2. Unheard(q, postpone_local_ack_timeout(q))
  BY <1>1, PostponeStill, PostponeSame, UnheardAlike DEF Still, SameFlow
<1> QED BY <1>2, UnheardBacked

LEMMA CompleteRdAtomicBacked ==
  ASSUME NEW q, ReqInv(q), AllGood(q.cq), NEW x, Backed(q, x),
         Len(Started(q)) >= 1, NEW id, id = Len(q.cq) + 1,
         Numbered(q.wqe[id]), q.wqe[id].expected_psn <= x
  PROVE  Backed(CompleteRdAtomic(q), x)
<1> DEFINE q1 == CompleteStarted(q, 1)
           k  == q1.nr_rd_atomic - 1
           q2 == [q1 EXCEPT !.nr_rd_atomic = k]
<1>1. 1 \in 0 .. Len(Started(q))
  BY ListsExist, ReqFields DEF ReqInv, Requester
<1>2. \A j \in 1 .. 1 : Len(q.cq) + j = id
  OBVIOUS
<1>3. Backed(q1, x)
  BY <1>1, <1>2, CompletedBacked
<1>4. ReqInv(q1)
  BY <1>1, CompleteStartedType
<1> HIDE DEF q1
<1>5. q1 \in ReqType /\ k \in Int
  <2>1. q1 \in ReqType
    BY <1>4 DEF ReqInv, Requester
  <2>2. q1.nr_rd_atomic \in Int
    BY <2>1 DEF ReqType
  <2> QED BY <2>1, <2>2
<1> HIDE DEF k
<1>6. /\ q2 \in ReqType /\ q2.wqe = q1.wqe /\ q2.cq = q1.cq /\ q2.state = q1.state
      /\ q2.waiting = q1.waiting /\ q2.sending = q1.sending
      /\ q2.submitted = q1.submitted
  BY <1>5 DEF ReqType
<1> HIDE DEF q2
<1>7. ReqInv(q2) /\ Backed(q2, x)
  BY <1>3, <1>4, <1>6 DEF ReqInv, Requester, OrderedFrom, Drained, Backed, Successes
<1>8. Backed(postpone_local_ack_timeout(q2), x)
  BY <1>7, PostponeBacked
<1>9. CompleteRdAtomic(q) = postpone_local_ack_timeout(q2)
  BY DEF CompleteRdAtomic, q2, q1, k
<1> QED BY <1>8, <1>9

(* The work request id is acknowledged up to f.                            *)
LEMMA RecountBacked ==
  ASSUME NEW q, ReqInv(q), NEW x, Backed(q, x), NEW id \in DOMAIN q.wqe,
         NEW f \in SwqeType, f.wr = q.wqe[id].wr,
         f.based_psn = q.wqe[id].based_psn, f.expected_psn = q.wqe[id].expected_psn,
         f.ack_packets > 0 => f.based_psn + f.ack_packets <= x
  PROVE  LET p == [q EXCEPT !.wqe[id] = f]
         IN  Backed(p, x) /\ ReqInv(p) /\ Started(p) = Started(q) /\ p.cq = q.cq
             /\ p \in ReqType /\ p.wqe[id] = f
<1> DEFINE p == [q EXCEPT !.wqe[id] = f]
           w == [q.wqe EXCEPT ![id] = f]
<1>1. q \in ReqType /\ DOMAIN q.wqe = 1 .. Len(q.wqe)
  BY ReqFields DEF ReqInv, Requester
<1>2. ReqInv(p) /\ Started(p) = Started(q)
  BY WqeSetInv
<1>3. p = [q EXCEPT !.wqe = w]
  OBVIOUS
<1>4. \A i \in 1 .. Len(q.wqe) : w[i] = IF i = id THEN f ELSE q.wqe[i]
  BY <1>1
<1>5. SameFlow(q, p)
  BY <1>1, SameSet
<1> HIDE DEF w
<1>6. p.wqe = w /\ p.cq = q.cq
  BY <1>1, <1>3 DEF ReqType
<1> HIDE DEF p
<1>7. Len(p.wqe) = Len(q.wqe)
  BY <1>5 DEF SameFlow, SameWqes
<1>8. ASSUME NEW i \in 1 .. Len(p.wqe), p.wqe[i].ack_packets > 0
      PROVE  p.wqe[i].based_psn + p.wqe[i].ack_packets <= x
  <2>1. CASE i = id
    BY <1>4, <1>6, <1>7, <1>8, <2>1
  <2>2. CASE i # id
    <3>1. p.wqe[i] = q.wqe[i] /\ i \in 1 .. Len(q.wqe)
      BY <1>4, <1>6, <1>7, <2>2
    <3> QED BY <1>8, <3>1 DEF Backed
  <2> QED BY <2>1, <2>2
<1>9. ASSUME NEW i \in Successes(p)
      PROVE  Numbered(p.wqe[i]) /\ p.wqe[i].expected_psn <= x
  <2>1. i \in Successes(q) /\ i \in 1 .. Len(q.wqe)
    BY <1>6, SuccessExists DEF Successes
  <2>2. /\ p.wqe[i].wr = q.wqe[i].wr /\ p.wqe[i].based_psn = q.wqe[i].based_psn
        /\ p.wqe[i].expected_psn = q.wqe[i].expected_psn
    BY <1>5, <2>1 DEF SameFlow, SameWqes
  <2> QED BY <2>1, <2>2 DEF Backed, Numbered
<1>10. p.wqe[id] = f
  BY <1>1, <1>4, <1>6
<1> QED BY <1>2, <1>6, <1>8, <1>9, <1>10 DEF Backed, p, ReqInv, Requester

LEMMA AcknowledgeMeans ==
  ASSUME NEW e \in SwqeType, NEW psn \in Int, NEW y \in Int, Speaks(e, psn, y),
         NEW x \in Int, y < x, Numbered(e)
  PROVE  /\ process_acknowledge(e, psn) = "COMPLETE" => e.expected_psn <= x
         /\ process_acknowledge(e, psn) = "ERROR" => e.status # "SUCCESS"
<1> DEFINE d == get_psn_diff(psn, e.based_psn)
           b == e.based_psn
           m == e.wr.pkts
           o == process_acknowledge(e, psn)
<1>1. o = IF e.status # "SUCCESS" THEN "ERROR"
          ELSE IF d < 0 \/ d + 1 <= e.ack_packets THEN "STOP"
          ELSE IF pib_is_wr_opcode_rd_atomic(e.wr.op) THEN "BAD_RESP"
          ELSE IF d + 1 < m THEN "CONTINUE"
          ELSE "COMPLETE"
  BY DEF process_acknowledge
<1>2. d = y - b /\ b \in Int /\ m \in Int /\ e.expected_psn = b + m
  BY SwqeFields DEF Speaks, Numbered
<1> HIDE DEF d, b, m, o
<1>3. o = "COMPLETE" => ~ (d + 1 < m)
  BY <1>1
<1>4. o = "COMPLETE" => e.expected_psn <= x
  BY <1>2, <1>3
<1>5. o = "ERROR" => e.status # "SUCCESS"
  BY <1>1
<1> QED BY <1>4, <1>5 DEF o

(* The first started work request fails after q.                           *)
LEMMA FailBacked ==
  ASSUME NEW q, ReqInv(q), AllGood(q.cq), NEW x, Backed(q, x),
         Len(Started(q)) >= 1, NEW id, id = Len(q.cq) + 1
  PROVE  /\ q.wqe[id].status # "SUCCESS" =>
              Backed(CompletionError(DropStarted(q, 1), id), x)
         /\ Backed(CompletionError(DropStarted(SetStatus(q, id, "BAD_RESP_ERR"), 1),
                                   id), x)
<1> DEFINE p == SetStatus(q, id, "BAD_RESP_ERR")
           c == Len(q.cq)
<1>1. ASSUME q.wqe[id].status # "SUCCESS"
      PROVE  Backed(CompletionError(DropStarted(q, 1), id), x)
  <2>1. Unheard(q, CompletionError(DropStarted(q, 1), id))
    BY <1>1, FailFirstUnheard
  <2> QED BY <2>1, UnheardBacked
<1>2. /\ c \in Nat /\ Requester(q, c) /\ Len(Started(q)) \in Nat
      /\ "BAD_RESP_ERR" \in Statuses
  BY ReqFields, ListsExist DEF ReqInv, Requester, Statuses
<1>3. id \in DOMAIN q.wqe
  <2>1. 1 \in 1 .. Len(Started(q))
    BY <1>2
  <2> QED BY <1>2, <2>1, ListsExist
<1>4. /\ Unheard(q, p) /\ ReqInv(p) /\ p.cq = q.cq /\ Started(p) = Started(q)
      /\ p.wqe[id].status # "SUCCESS"
  <2>1. p.cq = q.cq /\ p.waiting = q.waiting /\ p.sending = q.sending
    BY <1>2, <1>3, SetStatusType
  <2>2. Unheard(q, p)
    BY <1>2, <1>3, <2>1, SetStatusStill, UnheardAlike DEF Still
  <2>3. ReqInv(p)
    BY <1>2, <1>3, SetStatusInv
  <2>4. p.wqe[id].status = "BAD_RESP_ERR"
    <3> DEFINE e == q.wqe[id]
               s == "BAD_RESP_ERR"
               f == [e EXCEPT !.status = s]
               w == [q.wqe EXCEPT ![id] = f]
    <3>1. q \in ReqType /\ e \in SwqeType
      BY <1>2, <1>3, FirstWqe DEF Requester
    <3>2. p = [q EXCEPT !.wqe = w]
      BY DEF SetStatus
    <3> HIDE DEF p, e
    <3>3. f.status = s
      BY <3>1 DEF SwqeType
    <3> HIDE DEF f
    <3>4. w[id] = f
      BY <1>3
    <3> HIDE DEF w
    <3>5. p.wqe = w
      BY <3>1, <3>2 DEF ReqType
    <3> QED BY <3>3, <3>4, <3>5
  <2> HIDE DEF p
  <2>5. Started(p) = Started(q)
    BY <2>1 DEF Started
  <2> QED BY <2>1, <2>2, <2>3, <2>4, <2>5
<1>5. Backed(p, x)
  BY <1>4, UnheardBacked
<1> HIDE DEF p
<1>6. Unheard(p, CompletionError(DropStarted(p, 1), id))
  <2>1. Len(Started(p)) >= 1 /\ id = Len(p.cq) + 1 /\ AllGood(p.cq)
    BY <1>4
  <2> QED BY <1>4, <2>1, FailFirstUnheard
<1>7. Backed(CompletionError(DropStarted(p, 1), id), x)
  BY <1>4, <1>5, <1>6, UnheardBacked
<1> QED BY <1>1, <1>7 DEF p

LEMMA receive_ACK_responseBacked ==
  ASSUME NEW q, NEW k, NEW x, Hears(q, k, x), NEW P, PsnsFit(P),
         NEW psn \in Int, Vouched(psn, x)
  PROVE  Backed(receive_ACK_response(q, psn), x)
<1> DEFINE all == Started(q)
           out == [i \in DOMAIN all |-> process_acknowledge(q.wqe[all[i]], psn)]
           cut == {i \in DOMAIN all : out[i] # "COMPLETE"}
           n   == IF cut = {} THEN Len(all) ELSE Min(cut) - 1
           q1  == CompleteStarted(q, n)
           id  == all[n + 1]
           c   == Len(q.cq)
           v   == get_psn_diff(psn, q.wqe[id].based_psn) + 1
           q2  == [q1 EXCEPT !.wqe[id].ack_packets = v]
           q3  == SetStatus(q1, id, "BAD_RESP_ERR")
           o   == out[n + 1]
           f   == receive_ACK_response(q, psn)
<1>1. /\ q \in ReqType /\ c \in Nat /\ Requester(q, c) /\ ReqInv(q) /\ AllGood(q.cq)
      /\ Len(all) \in Nat /\ DOMAIN all = 1 .. Len(all) /\ Backed(q, x) /\ x \in Int
      /\ \A i \in 1 .. Len(all) : all[i] = c + i /\ all[i] \in DOMAIN q.wqe
  BY HearsFacts DEF Hears
<1>2. \/ f = postpone_local_ack_timeout(q1)
      \/ cut # {} /\ \/ o = "CONTINUE" /\ f = postpone_local_ack_timeout(q2)
                     \/ o = "ERROR" /\ f = CompletionError(DropStarted(q1, 1), id)
                     \/ f = CompletionError(DropStarted(q3, 1), id)
  <2> HIDE DEF q1, q2, q3, id
  <2>1. f = IF cut = {} THEN postpone_local_ack_timeout(q1)
            ELSE CASE o = "ERROR" -> CompletionError(DropStarted(q1, 1), id)
                   [] o = "BAD_RESP" -> CompletionError(DropStarted(q3, 1), id)
                   [] o = "CONTINUE" -> postpone_local_ack_timeout(q2)
                   [] OTHER -> postpone_local_ack_timeout(q1)
    BY DEF receive_ACK_response, q1, q2, q3, id
  <2> DEFINE empty == cut = {}
  <2> HIDE DEF o, empty, all, out, cut, n, f
  <2>2. f = IF empty THEN postpone_local_ack_timeout(q1)
            ELSE CASE o = "ERROR" -> CompletionError(DropStarted(q1, 1), id)
                   [] o = "BAD_RESP" -> CompletionError(DropStarted(q3, 1), id)
                   [] o = "CONTINUE" -> postpone_local_ack_timeout(q2)
                   [] OTHER -> postpone_local_ack_timeout(q1)
    BY <2>1 DEF empty
  <2>3. CASE o \notin {"ERROR", "BAD_RESP", "CONTINUE"}
    BY <2>2, <2>3 DEF empty
  <2>4. CASE o = "ERROR"
    BY <2>2, <2>4 DEF empty
  <2>5. CASE o = "BAD_RESP"
    BY <2>2, <2>5 DEF empty
  <2>6. CASE o = "CONTINUE"
    BY <2>2, <2>6 DEF empty
  <2> QED BY <2>3, <2>4, <2>5, <2>6
<1>3. /\ n \in 0 .. Len(all) /\ n \in Nat /\ (cut # {} => n + 1 \in 1 .. Len(all))
      /\ \A i \in 1 .. n : i \in 1 .. Len(all) /\ i \notin cut
  <2>1. cut \subseteq 1 .. Len(all)
    BY <1>1
  <2>2. cut # {} => Min(cut) \in cut /\ \A i \in cut : Min(cut) <= i
    <3>1. cut \subseteq Nat
      BY <1>1, <2>1
    <3> HIDE DEF cut
    <3> QED BY <3>1, MinIsElement
  <2> DEFINE A == Len(all)
             m == Min(cut)
  <2>3. /\ A \in Nat /\ cut \subseteq 1 .. A
        /\ cut # {} => m \in cut /\ \A i \in cut : m <= i
        /\ n = IF cut = {} THEN A ELSE m - 1
    BY <1>1, <2>1, <2>2
  <2> HIDE DEF cut, n, A, m
  <2>4. CASE cut = {}
    <3>1. n = A
      BY <2>3, <2>4
    <3>2. n \in 0 .. A /\ n \in Nat /\ \A i \in 1 .. n : i \in 1 .. A
      BY <2>3, <3>1
    <3> QED BY <2>4, <3>2 DEF A
  <2>5. CASE cut # {}
    <3>1. m \in 1 .. A /\ n = m - 1 /\ A \in Nat /\ \A i \in cut : m <= i
      BY <2>3, <2>5
    <3>2. n \in 0 .. A /\ n \in Nat /\ n + 1 \in 1 .. A
      BY <3>1
    <3>3. \A i \in 1 .. n : i \in 1 .. A /\ ~ (m <= i)
      BY <3>1
    <3> QED BY <3>1, <3>2, <3>3 DEF A
  <2> QED BY <2>4, <2>5
<1>4. /\ cut # {} => o = process_acknowledge(q.wqe[c + (n + 1)], psn)
      /\ cut # {} => id = c + (n + 1) /\ id \in DOMAIN q.wqe
      /\ \A i \in 1 .. n : process_acknowledge(q.wqe[c + i], psn) = "COMPLETE"
  <2>1. \A i \in 1 .. Len(all) : out[i] = process_acknowledge(q.wqe[c + i], psn)
    <3> HIDE DEF all, c
    <3> QED BY <1>1
  <2>2. \A i \in 1 .. Len(all) : i \notin cut => out[i] = "COMPLETE"
    <3> HIDE DEF all, out
    <3> QED BY <1>1
  <2> HIDE DEF n, cut, all, out, c
  <2> QED BY <1>1, <1>3, <2>1, <2>2
<1>5. PICK y \in Int : /\ y < x
                       /\ \A j \in 1 .. Len(all) : Speaks(q.wqe[c + j], psn, y)
  BY AnswerSpeaks
<1>6. \A j \in 1 .. Len(all) : /\ q.wqe[c + j] \in SwqeType
                               /\ Numbered(q.wqe[c + j])
  BY StartedInLine
<1> HIDE DEF cut, out, n, o, f
<1>7. \A j \in 1 .. n : Numbered(q.wqe[c + j]) /\ q.wqe[c + j].expected_psn <= x
  <2> HIDE DEF all, c
  <2> QED BY <1>1, <1>3, <1>4, <1>5, <1>6, AcknowledgeMeans
<1>8. /\ ReqInv(q1) /\ Len(q1.cq) = c + n /\ q1.wqe = q.wqe
      /\ Len(Started(q1)) = Len(all) - n /\ Backed(q1, x) /\ AllGood(q1.cq)
  BY <1>1, <1>3, <1>7, CompleteStartedType, CompletedBacked, CompleteStartedCompletes
     DEF Completes
<1> HIDE DEF q1
<1>9. Backed(postpone_local_ack_timeout(q1), x)
  BY <1>8, PostponeBacked
<1>10. ASSUME cut # {}
       PROVE  /\ o = "CONTINUE" => Backed(postpone_local_ack_timeout(q2), x)
              /\ o = "ERROR" => Backed(CompletionError(DropStarted(q1, 1), id), x)
              /\ Backed(CompletionError(DropStarted(q3, 1), id), x)
  <2>1. /\ id = c + (n + 1) /\ id \in DOMAIN q1.wqe /\ n + 1 \in 1 .. Len(all)
        /\ o = process_acknowledge(q1.wqe[id], psn)
        /\ v = get_psn_diff(psn, q1.wqe[id].based_psn) + 1
    BY <1>3, <1>4, <1>8, <1>10
  <2> HIDE DEF id, v
  <2>2. id = Len(q1.cq) + 1 /\ Len(Started(q1)) >= 1
    <3> DEFINE L == Len(q1.cq)
               S == Len(Started(q1))
               A == Len(all)
    <3>1. L = c + n /\ S = A - n /\ A \in Nat /\ n + 1 \in 1 .. A
      BY <1>1, <1>8, <2>1
    <3> HIDE DEF L, S, A, c, all
    <3>2. id = L + 1 /\ S >= 1
      BY <1>1, <1>3, <2>1, <3>1
    <3> QED BY <3>2 DEF L, S
  <2>3. q1.wqe[id] \in SwqeType /\ Numbered(q1.wqe[id]) /\ Speaks(q1.wqe[id], psn, y)
    BY <1>5, <1>6, <1>8, <2>1
  <2>4. o = "ERROR" => q1.wqe[id].status # "SUCCESS"
    BY <1>1, <1>5, <2>1, <2>3, AcknowledgeMeans
  <2>5. /\ o = "ERROR" => Backed(CompletionError(DropStarted(q1, 1), id), x)
        /\ Backed(CompletionError(DropStarted(q3, 1), id), x)
    BY <1>8, <2>2, <2>4, FailBacked
  <2>6. Backed(postpone_local_ack_timeout(q2), x)
    <3> DEFINE e == q1.wqe[id]
               g == [e EXCEPT !.ack_packets = v]
    <3>1. q2 = [q1 EXCEPT !.wqe[id] = g]
      OBVIOUS
    <3>2. v = y - e.based_psn + 1 /\ e.based_psn \in Int
      BY <2>1, <2>3, SwqeFields DEF Speaks
    <3>3. v \in Int /\ e.based_psn + v <= x
      <4> DEFINE b == e.based_psn
      <4> HIDE DEF b, e
      <4>1. v \in Int /\ b + v <= x
        BY <1>1, <1>5, <3>2 DEF b
      <4> QED BY <4>1 DEF b
    <3> HIDE DEF e
    <3>4. /\ g \in SwqeType /\ g.wr = e.wr /\ g.based_psn = e.based_psn
          /\ g.expected_psn = e.expected_psn /\ g.ack_packets = v
      BY <2>3, <3>3 DEF SwqeType, e
    <3> HIDE DEF g
    <3>5. g.ack_packets > 0 => g.based_psn + g.ack_packets <= x
      BY <3>3, <3>4
    <3> HIDE DEF q2
    <3>6. Backed(q2, x) /\ ReqInv(q2)
      BY <1>8, <2>1, <3>1, <3>4, <3>5, RecountBacked DEF e
    <3> QED BY <3>6, PostponeBacked
  <2> HIDE DEF q2, q3
  <2> QED BY <2>5, <2>6
<1> HIDE DEF q2, q3, id
<1>11. Backed(f, x)
  BY <1>2, <1>9, <1>10
<1> QED BY <1>11 DEF f

LEMMA SetStatusBacked ==
  ASSUME NEW q, ReqInv(q), NEW x, Backed(q, x), NEW id \in DOMAIN q.wqe,
         NEW status \in Statuses
  PROVE  Backed(SetStatus(q, id, status), x)
<1>1. Len(q.cq) \in Nat /\ Requester(q, Len(q.cq))
  BY ReqFields DEF ReqInv, Requester
<1>2. SetStatus(q, id, status).cq = q.cq
  BY <1>1, SetStatusType
<1>3. Unheard(q, SetStatus(q, id, status))
  BY <1>1, <1>2, SetStatusStill, UnheardAlike DEF Still
<1> QED BY <1>3, UnheardBacked

(* A response that matches a started work request.                         *)
LEMMA MatchInLine ==
  ASSUME NEW q, NEW n, NEW x, Hears(q, n, x), NEW P, PsnsFit(P), NEW psn \in Int,
         match_send_wqe(q, psn) # {},
         NEW id, id = Started(q)[Min(match_send_wqe(q, psn))]
  PROVE  /\ id \in DOMAIN q.wqe
         /\ Backed(SetStatus(q, id, "BAD_RESP_ERR"), x)
         /\ Backed(SetStatus(q, id, "LOC_PROT_ERR"), x)
         /\ Min(match_send_wqe(q, psn)) = 1 =>
              id = Len(q.cq) + 1 /\ Len(Started(q)) >= 1 /\ 1 \in 1 .. Len(Started(q))
<1> DEFINE c == Len(q.cq)
           m == Min(match_send_wqe(q, psn))
           S == Len(Started(q))
<1>1. /\ c \in Nat /\ Requester(q, c) /\ ReqInv(q) /\ Backed(q, x) /\ S \in Nat
  BY HearsFacts DEF Hears
<1>2. id \in DOMAIN q.wqe /\ id = c + m /\ m \in 1 .. S
  BY <1>1, MatchExists
<1>3. "BAD_RESP_ERR" \in Statuses /\ "LOC_PROT_ERR" \in Statuses
  BY DEF Statuses
<1>4. /\ Backed(SetStatus(q, id, "BAD_RESP_ERR"), x)
      /\ Backed(SetStatus(q, id, "LOC_PROT_ERR"), x)
  BY <1>1, <1>2, <1>3, SetStatusBacked
<1>5. m = 1 => id = c + 1 /\ S >= 1 /\ 1 \in 1 .. S
  <2> HIDE DEF c, m, S
  <2> QED BY <1>1, <1>2
<1> QED BY <1>2, <1>4, <1>5

LEMMA receive_RDMA_READ_responseBacked ==
  ASSUME NEW q, NEW n, NEW x, Hears(q, n, x), NEW P, PsnsFit(P),
         NEW p \in ResponseType, Vouched(p.psn, x)
  PROVE  Backed(receive_RDMA_READ_response(q, p), x)
<1> DEFINE hits == match_send_wqe(q, p.psn)
           id   == Started(q)[Min(hits)]
           e    == q.wqe[id]
           skew == p.op = "READ_MIDDLE"
           dt   == [wr |-> p.wr, k |-> p.k, skew |-> skew]
           data == Append(e.data, dt)
           s    == e.sent_packets + 1
           a    == e.ack_packets + 1
           f    == [e EXCEPT !.sent_packets = s, !.ack_packets = a, !.data = data]
           r    == [q EXCEPT !.wqe[id] = f]
           q1   == process_cnp_notify_request(r)
           mine == /\ Min(hits) = 1 /\ e.wr.op = "READ"
                   /\ get_psn_diff(e.based_psn + e.ack_packets, p.psn) = 0
           more == e.sent_packets + 1 < e.wr.pkts
           t    == receive_RDMA_READ_response(q, p)
<1>1. p.psn \in Int /\ Backed(q, x) /\ ReqInv(q) /\ AllGood(q.cq) /\ q \in ReqType
      /\ x \in Int
  BY HearsFacts DEF ResponseType, Hears
<1>2. \/ t = q
      \/ hits # {} /\ \/ t = SetStatus(q, id, "BAD_RESP_ERR")
                      \/ t = SetStatus(q, id, "LOC_PROT_ERR")
                      \/ t = q1 /\ mine
                      \/ t = CompleteRdAtomic(q1) /\ mine /\ ~more
  <2>1. t =
      IF hits = {} THEN q
      ELSE IF e.wr.op # "READ" THEN SetStatus(q, id, "BAD_RESP_ERR")
      ELSE IF \/ Min(hits) # 1
              \/ get_psn_diff(e.based_psn + e.sent_packets, p.psn) # 0
              \/ get_psn_diff(e.based_psn + e.ack_packets, p.psn) # 0
           THEN q
      ELSE IF e.wr.fault = "local" THEN SetStatus(q, id, "LOC_PROT_ERR")
      ELSE IF e.sent_packets + 1 < e.wr.pkts THEN q1
      ELSE CompleteRdAtomic(q1)
    BY Zenon DEF receive_RDMA_READ_response
  <2> HIDE DEF hits, id, e, q1, t
  <2> QED BY <2>1
<1>3. PICK y \in Int : /\ y < x
                       /\ \A j \in 1 .. Len(Started(q)) :
                            Speaks(q.wqe[Len(q.cq) + j], p.psn, y)
  BY <1>1, AnswerSpeaks
<1>4. ASSUME hits # {}
      PROVE  /\ Backed(SetStatus(q, id, "BAD_RESP_ERR"), x)
             /\ Backed(SetStatus(q, id, "LOC_PROT_ERR"), x)
             /\ mine => Backed(q1, x)
             /\ mine /\ ~more => Backed(CompleteRdAtomic(q1), x)
  <2>1. /\ Backed(SetStatus(q, id, "BAD_RESP_ERR"), x)
        /\ Backed(SetStatus(q, id, "LOC_PROT_ERR"), x)
        /\ id \in DOMAIN q.wqe
        /\ mine => id = Len(q.cq) + 1 /\ Len(Started(q)) >= 1
                   /\ 1 \in 1 .. Len(Started(q))
    BY <1>1, <1>4, MatchInLine
  <2>2. ASSUME mine
        PROVE  Backed(q1, x) /\ (~more => Backed(CompleteRdAtomic(q1), x))
    <3>1. id = Len(q.cq) + 1 /\ Len(Started(q)) >= 1 /\ 1 \in 1 .. Len(Started(q))
      BY <2>1, <2>2
    <3> HIDE DEF id
    <3>2. /\ e \in SwqeType /\ InWindow(e) /\ Numbered(e) /\ Speaks(e, p.psn, y)
          /\ e.wr.pkts \in Nat
      BY <1>3, <3>1, StartedInLine
    <3>3. data \in Seq([wr : Nat, k : Int, skew : BOOLEAN])
      <4>1. e.data \in Seq([wr : Nat, k : Int, skew : BOOLEAN])
        <5> HIDE DEF e
        <5> QED BY <3>2 DEF SwqeType
      <4>2. dt \in [wr : Nat, k : Int, skew : BOOLEAN]
        <5>1. p.wr \in Nat /\ p.k \in Int
          BY DEF ResponseType
        <5>2. skew \in BOOLEAN
          OBVIOUS
        <5> HIDE DEF skew
        <5> QED BY <5>1, <5>2
      <4> HIDE DEF dt, e
      <4> QED BY <4>1, <4>2
    <3>4. /\ s \in Int /\ a \in Int /\ e.based_psn + a <= x
          /\ ~more => e.expected_psn <= x
      <4> DEFINE b == e.based_psn
                 m == e.wr.pkts
                 g == e.ack_packets
                 h == e.sent_packets
                 X == e.expected_psn
      <4>1. /\ b \in Int /\ m \in Nat /\ g \in Int /\ h \in Int /\ X \in Int
            /\ h = g /\ 0 <= g /\ g < m /\ X = b + m
        BY <2>2, <3>2, SwqeFields DEF InWindow, Numbered
      <4>2. g \in 0 .. m - 1
        <5> HIDE DEF g, m
        <5> QED BY <4>1
      <4>3. b + g = y
        BY <2>2, <3>2, <4>2 DEF Speaks
      <4>4. s = h + 1 /\ a = g + 1 /\ (more <=> h + 1 < m)
        OBVIOUS
      <4> HIDE DEF b, m, g, h, X, s, a, more
      <4>5. s \in Int /\ a \in Int /\ b + a <= x /\ (~more => X <= x)
        BY <1>1, <1>3, <4>1, <4>3, <4>4
      <4> QED BY <4>5 DEF b, X
    <3> HIDE DEF s, a, data, more
    <3>5. /\ f \in SwqeType /\ f.wr = e.wr /\ f.based_psn = e.based_psn
          /\ f.expected_psn = e.expected_psn /\ f.ack_packets = a
      <4> HIDE DEF e
      <4> QED BY <3>2, <3>3, <3>4 DEF SwqeType
    <3> HIDE DEF f
    <3>6. /\ f.ack_packets > 0 => f.based_psn + f.ack_packets <= x
          /\ Numbered(f)
      BY <3>2, <3>4, <3>5 DEF Numbered
    <3>7. /\ r \in ReqType /\ ReqInv(r) /\ Backed(r, x) /\ r.cq = q.cq
          /\ Started(r) = Started(q) /\ r.wqe[id] = f
      BY <1>1, <2>1, <3>5, <3>6, RecountBacked
    <3> HIDE DEF r, e
    <3>8. /\ q1.wqe = r.wqe /\ q1.cq = r.cq /\ ReqInv(q1) /\ Started(q1) = Started(r)
      <4> DEFINE k  == r.nr_contig_read_acks + 1
                 z  == 0
                 tx == <<CNP>>
                 p1 == [r EXCEPT !.tx = tx, !.nr_contig_read_acks = z]
                 p2 == [r EXCEPT !.nr_contig_read_acks = k]
      <4>1. q1 = p1 \/ q1 = p2
        BY DEF process_cnp_notify_request
      <4>2. ReqInv(q1) /\ Started(q1) = Started(r)
        BY <3>7, CnpNotifyType
      <4> HIDE DEF q1, k, z, tx
      <4>3. CASE q1 = p1
        BY <3>7, <4>2, <4>3 DEF ReqType
      <4>4. CASE q1 = p2
        BY <3>7, <4>2, <4>4 DEF ReqType
      <4> QED BY <4>1, <4>3, <4>4
    <3> HIDE DEF q1
    <3>9. Backed(q1, x)
      BY <3>7, <3>8 DEF Backed, Successes
    <3>10. ASSUME ~more PROVE Backed(CompleteRdAtomic(q1), x)
      <4>1. /\ AllGood(q1.cq) /\ Len(Started(q1)) >= 1 /\ id = Len(q1.cq) + 1
            /\ Numbered(q1.wqe[id]) /\ q1.wqe[id].expected_psn <= x
        BY <1>1, <3>1, <3>4, <3>5, <3>6, <3>7, <3>8, <3>10
      <4> QED BY <3>8, <3>9, <4>1, CompleteRdAtomicBacked
    <3> QED BY <3>9, <3>10
  <2> HIDE DEF id, mine, more, q1
  <2> QED BY <2>1, <2>2
<1> HIDE DEF hits, id, q1, mine, more, t
<1>5. Backed(t, x)
  BY <1>1, <1>2, <1>4
<1> QED BY <1>5 DEF t

LEMMA receive_Atomic_responseBacked ==
  ASSUME NEW q, NEW n, NEW x, Hears(q, n, x), NEW P, PsnsFit(P),
         NEW p \in ResponseType, Vouched(p.psn, x)
  PROVE  Backed(receive_Atomic_response(q, p), x)
<1> DEFINE hits == match_send_wqe(q, p.psn)
           id   == Started(q)[Min(hits)]
           e    == q.wqe[id]
           res  == p.res
           f    == [e EXCEPT !.res = res]
           q1   == [q EXCEPT !.wqe[id] = f]
           mine == /\ Min(hits) = 1 /\ e.wr.op \in {"CAS", "FADD"}
                   /\ get_psn_diff(e.based_psn, p.psn) = 0
           t    == receive_Atomic_response(q, p)
<1>1. p.psn \in Int /\ Backed(q, x) /\ ReqInv(q) /\ AllGood(q.cq) /\ q \in ReqType
      /\ x \in Int
  BY HearsFacts DEF ResponseType, Hears
<1>2. \/ t = q
      \/ hits # {} /\ \/ t = SetStatus(q, id, "BAD_RESP_ERR")
                      \/ t = SetStatus(q, id, "LOC_PROT_ERR")
                      \/ t = CompleteRdAtomic(q1) /\ mine
  <2>1. [q EXCEPT !.wqe[id].res = p.res] = q1
    OBVIOUS
  <2>2. t =
      IF hits = {} THEN q
      ELSE IF e.wr.op \notin {"CAS", "FADD"} THEN SetStatus(q, id, "BAD_RESP_ERR")
      ELSE IF Min(hits) # 1 \/ get_psn_diff(e.based_psn, p.psn) # 0 THEN q
      ELSE IF e.wr.fault = "local" THEN SetStatus(q, id, "LOC_PROT_ERR")
      ELSE CompleteRdAtomic(q1)
    <3> HIDE DEF q1, hits
    <3> QED BY <2>1 DEF receive_Atomic_response, hits
  <2> HIDE DEF hits, id, e, q1, t
  <2> QED BY <2>2
<1>3. PICK y \in Int : /\ y < x
                       /\ \A j \in 1 .. Len(Started(q)) :
                            Speaks(q.wqe[Len(q.cq) + j], p.psn, y)
  BY <1>1, AnswerSpeaks
<1>4. ASSUME hits # {}
      PROVE  /\ Backed(SetStatus(q, id, "BAD_RESP_ERR"), x)
             /\ Backed(SetStatus(q, id, "LOC_PROT_ERR"), x)
             /\ mine => Backed(CompleteRdAtomic(q1), x)
  <2>1. /\ Backed(SetStatus(q, id, "BAD_RESP_ERR"), x)
        /\ Backed(SetStatus(q, id, "LOC_PROT_ERR"), x)
        /\ id \in DOMAIN q.wqe
        /\ mine => id = Len(q.cq) + 1 /\ Len(Started(q)) >= 1
                   /\ 1 \in 1 .. Len(Started(q))
    BY <1>1, <1>4, MatchInLine
  <2>2. ASSUME mine PROVE Backed(CompleteRdAtomic(q1), x)
    <3>1. id = Len(q.cq) + 1 /\ Len(Started(q)) >= 1 /\ 1 \in 1 .. Len(Started(q))
      BY <2>1, <2>2
    <3> HIDE DEF id
    <3>2. /\ e \in SwqeType /\ Numbered(e) /\ Speaks(e, p.psn, y)
          /\ e.wr.pkts \in Nat /\ e.wr \in WRs
      BY <1>3, <3>1, StartedInLine
    <3>3. e.wr.pkts = 1
      BY <2>2, <3>2, RCAssumption
    <3>4. e.expected_psn <= x
      <4> DEFINE b == e.based_psn
                 X == e.expected_psn
      <4>1. b \in Int /\ X = b + 1
        BY <3>2, <3>3, SwqeFields DEF Numbered
      <4>2. 0 \in 0 .. e.wr.pkts - 1
        BY <3>3
      <4>3. b + 0 = b
        BY <4>1
      <4>4. b = y
        BY <2>2, <3>2, <4>2, <4>3 DEF Speaks
      <4> HIDE DEF b, X
      <4>5. X <= x
        BY <1>1, <1>3, <4>1, <4>4
      <4> QED BY <4>5 DEF X
    <3>5. res \in Int /\ e.ack_packets \in Int
      BY <3>2 DEF ResponseType, SwqeType
    <3>6. e.ack_packets > 0 => e.based_psn + e.ack_packets <= x
      <4>1. id \in 1 .. Len(q.wqe)
        BY <3>1, StartedInLine
      <4> QED BY <1>1, <4>1 DEF Backed
    <3> HIDE DEF res
    <3>7. /\ f \in SwqeType /\ f.wr = e.wr /\ f.based_psn = e.based_psn
          /\ f.expected_psn = e.expected_psn /\ f.ack_packets = e.ack_packets
      <4> HIDE DEF e
      <4> QED BY <3>2, <3>5 DEF SwqeType
    <3> HIDE DEF f
    <3>8. /\ f.ack_packets > 0 => f.based_psn + f.ack_packets <= x
          /\ Numbered(f)
      BY <3>2, <3>6, <3>7 DEF Numbered
    <3>9. /\ ReqInv(q1) /\ Backed(q1, x) /\ q1.cq = q.cq
          /\ Started(q1) = Started(q) /\ q1.wqe[id] = f
      BY <1>1, <2>1, <3>7, <3>8, RecountBacked
    <3> HIDE DEF q1, e
    <3>10. /\ AllGood(q1.cq) /\ Len(Started(q1)) >= 1 /\ id = Len(q1.cq) + 1
           /\ Numbered(q1.wqe[id]) /\ q1.wqe[id].expected_psn <= x
      BY <1>1, <3>1, <3>4, <3>7, <3>8, <3>9
    <3> QED BY <3>9, <3>10, CompleteRdAtomicBacked
  <2> HIDE DEF id, mine, q1
  <2> QED BY <2>1, <2>2
<1> HIDE DEF hits, id, q1, mine, t
<1>5. Backed(t, x)
  BY <1>1, <1>2, <1>4
<1> QED BY <1>5 DEF t

LEMMA receive_responseBacked ==
  ASSUME NEW q0, NEW k, NEW x, Hears(q0, k, x), NEW P, PsnsFit(P),
         NEW p \in Answers(x)
  PROVE  Backed(receive_response(q0, p), x)
<1> DEFINE z == 0
           q == [q0 EXCEPT !.nr_contig_requests = z]
           s == NakStatus[p.synd]
           n == IF p.synd \in DOMAIN NakStatus
                THEN set_send_wqe_to_error(q, p.psn, s) ELSE q
           c == Len(q0.cq)
           t == receive_response(q0, p)
<1>1. q0 \in ReqType /\ c \in Nat /\ Requester(q0, c) /\ z \in Nat
  BY HearsFacts
<1>2. /\ p \in ResponseType /\ p.psn \in Int /\ p.synd \in Said
      /\ p.op # "ACK" => p.synd = "ACK"
      /\ p.synd = "ACK" => Vouched(p.psn, x)
  BY DEF Answers, ResponseType
<1>3. n = q
  BY <1>2 DEF NakStatus, Said
<1>4. \/ t = CountRnr(Resend(q))
      \/ t = Resend(q)
      \/ p.synd = "ACK" /\ \/ t = receive_ACK_response(q, p.psn)
                           \/ t = receive_Atomic_response(q, p)
                           \/ t = receive_RDMA_READ_response(q, p)
  <2>1. t = CASE p.synd = "RNR"     -> CountRnr(Resend(q))
              [] p.synd = "PSN_SEQ" -> Resend(q)
              [] p.synd \notin {"RNR", "PSN_SEQ"} /\ p.op = "ACK" ->
                   receive_ACK_response(n, p.psn)
              [] p.synd \notin {"RNR", "PSN_SEQ"} /\ p.op = "ATOMIC_ACK" ->
                   receive_Atomic_response(n, p)
              [] OTHER -> receive_RDMA_READ_response(n, p)
    BY Zenon DEF receive_response
  <2> HIDE DEF q, n, t
  <2>2. CASE p.synd = "RNR"
    BY <2>1, <2>2
  <2>3. CASE p.synd = "PSN_SEQ"
    BY <2>1, <2>3
  <2>4. CASE p.synd = "ACK" /\ p.op = "ACK"
    BY <1>3, <2>1, <2>4
  <2>5. CASE p.synd = "ACK" /\ p.op = "ATOMIC_ACK"
    BY <1>3, <2>1, <2>5
  <2>6. CASE p.synd = "ACK" /\ p.op \notin {"ACK", "ATOMIC_ACK"}
    BY <1>3, <2>1, <2>6
  <2> QED BY <1>2, <2>2, <2>3, <2>4, <2>5, <2>6 DEF Said
<1> HIDE DEF z, t
<1>5. /\ q \in ReqType /\ q.cq = q0.cq /\ q.waiting = q0.waiting
      /\ q.sending = q0.sending /\ q.submitted = q0.submitted
      /\ q.wqe = q0.wqe /\ q.state = q0.state
  BY <1>1 DEF ReqType
<1> HIDE DEF q
<1>6. Hears(q, k, x)
  <2>1. ReqInv(q) /\ AllGood(q.cq) /\ Backed(q, x)
    BY <1>1, <1>5 DEF Requester, OrderedFrom, Drained, ReqInv, Hears, Backed, Successes
  <2>2. Windows(q, Len(q.cq))
    BY <1>5 DEF Hears, Windows, Rest, Begun
  <2>3. Expects(q, k, x)
    BY <1>5 DEF Hears, Expects, Line, Chained, PsnAfter
  <2> QED BY <2>1, <2>2, <2>3 DEF Hears
<1>7. Backed(Resend(q), x) /\ Backed(CountRnr(Resend(q)), x)
  <2> DEFINE r == Resend(q)
  <2>1. /\ ReqInv(q) /\ Backed(q, x) /\ Requester(q, c)
    BY <1>5, <1>6 DEF Hears, ReqInv
  <2>2. Unheard(q, r) /\ Requester(r, c) /\ r.cq = q.cq
    BY <1>1, <2>1, ResendUnheard, ResendType, ResendSame DEF SameFlow
  <2> HIDE DEF r
  <2>3. Backed(r, x) /\ ReqInv(r)
    BY <1>5, <2>1, <2>2, UnheardBacked DEF ReqInv
  <2>4. Unheard(r, CountRnr(r))
    BY <1>1, <2>2, CountRnrStill, CountRnrSame, UnheardAlike DEF Still, SameFlow
  <2>5. Backed(CountRnr(r), x)
    BY <2>3, <2>4, UnheardBacked
  <2> QED BY <2>3, <2>5 DEF r
<1>8. ASSUME p.synd = "ACK"
      PROVE  /\ Backed(receive_ACK_response(q, p.psn), x)
             /\ Backed(receive_Atomic_response(q, p), x)
             /\ Backed(receive_RDMA_READ_response(q, p), x)
  BY <1>2, <1>6, <1>8, receive_ACK_responseBacked, receive_Atomic_responseBacked,
     receive_RDMA_READ_responseBacked
<1>9. Backed(t, x)
  BY <1>4, <1>7, <1>8
<1> QED BY <1>9 DEF t

-----------------------------------------------------------------------------
(* The requester never believes more than the responder did.               *)

LEMMA PassBacked ==
  ASSUME NEW q, FlowInv(q), Windows(q, Len(q.cq)), NEW x, Backed(q, x),
         first_sending_wsqe(q)
  PROVE  Backed(req', x)
<1> DEFINE s == StartNext(q)
           t == SendFirst(s)
<1>1. RequesterStep(t)
  BY DEF first_sending_wsqe
<1>2. FlowInv(s) /\ Backed(s, x)
  BY StartNextFlow, StartNextBacked DEF FlowInv
<1> HIDE DEF s
<1>3. FlowInv(t) /\ Unheard(s, t) /\ ReqInv(s)
  BY <1>2, SendFirstFlow, SendFirstUnheard, FlowFacts
<1> HIDE DEF t
<1>4. Backed(t, x) /\ t \in ReqType
  BY <1>2, <1>3, UnheardBacked, FlowFacts
<1> QED BY <1>1, <1>4, RequesterStepBacked

(* The steps of the requester against what the responder has done.         *)
LEMMA RequesterBacked ==
  ASSUME PsnsSuffice, OnceSafe, Truthful, Backed(req, rsp.psn), [Next]_vars
  PROVE  Backed(req', rsp.psn)
<1> DEFINE x == rsp.psn
<1>1. /\ FlowInv(req) /\ ReqInv(req) /\ req \in ReqType
      /\ Windows(req, Len(req.cq)) /\ Backed(req, x)
      /\ Len(req.cq) \in Nat /\ Requester(req, Len(req.cq))
      /\ req.state = "RTS" => AllGood(req.cq)
  BY FlowFacts DEF OnceSafe, ProgSafe, FlowSafe
<1>2. CASE PostSend
  <2>1. PICK w \in WRs : req' = post_send(req, w)
    BY <1>2 DEF PostSend
  <2> QED BY <1>1, <2>1, post_sendBacked
<1>3. CASE RequesterPass
  <2>1. first_sending_wsqe(req)
    BY <1>3 DEF RequesterPass
  <2> QED BY <1>1, <2>1, PassBacked
<1>4. CASE TimeoutPass
  <2> DEFINE q == LocalAckTimeout(req)
  <2>1. first_sending_wsqe(q) /\ req.waiting # <<>>
    BY <1>4 DEF TimeoutPass
  <2>2. FlowInv(q) /\ Windows(q, Len(q.cq)) /\ Unheard(req, q)
    BY <1>1, <2>1, LocalAckTimeoutFlow, LocalAckTimeoutAdvances,
       LocalAckTimeoutUnheard DEF Advances
  <2> HIDE DEF q
  <2>3. Backed(q, x)
    BY <1>1, <2>2, UnheardBacked
  <2> QED BY <2>1, <2>2, <2>3, PassBacked
<1>5. CASE ReceiveResponse
  <2> DEFINE q == IF req.state = "ERR" THEN req
                  ELSE receive_response(req, Head(toReq))
  <2>1. toReq # <<>> /\ RequesterStep(q)
    BY <1>5 DEF ReceiveResponse
  <2>2. Head(toReq) \in Answers(x)
    BY <2>1, WireType DEF Truthful
  <2>3. Head(toReq) \in ResponseType
    BY <2>2 DEF Answers
  <2>4. q \in ReqType
    BY <1>1, <2>3, receive_responseType DEF ReqInv, Requester
  <2>5. ASSUME req.state # "ERR"
        PROVE  Backed(receive_response(req, Head(toReq)), x)
    <3>1. PICK n \in Nat : Line(req, n) /\ Logged(rsp, req, n)
      BY DEF OnceSafe
    <3>2. PICK P \in Nat : PsnsFit(P)
      BY DEF PsnsSuffice
    <3>3. Len(req.wqe) <= MaxWR
      BY DEF OnceSafe, HasLine
    <3>4. Expects(req, n, x)
      BY <3>1, <3>2, <3>3, RspInLine DEF Expects
    <3>5. req.state = "RTS"
      BY <1>1, <2>5 DEF ReqType
    <3>6. Hears(req, n, x)
      BY <1>1, <3>4, <3>5 DEF Hears
    <3> QED BY <2>2, <3>2, <3>6, receive_responseBacked
  <2>6. Backed(q, x)
    BY <1>1, <2>5
  <2> HIDE DEF q
  <2> QED BY <2>1, <2>4, <2>6, RequesterStepBacked
<1>6. ASSUME req' = req PROVE Backed(req', x)
  BY <1>1, <1>6
<1>7. CASE PostRecv \/ DeregMr \/ ReceiveRequest \/ ResponderPass \/ NetworkFault
  BY <1>6, <1>7 DEF PostRecv, DeregMr, ReceiveRequest, ResponderPass, NetworkFault
<1>8. CASE UNCHANGED vars
  BY <1>6, <1>8 DEF vars
<1> QED BY <1>2, <1>3, <1>4, <1>5, <1>7, <1>8 DEF Next

LEMMA BackedLater ==
  ASSUME NEW q \in ReqType, NEW x \in Int, Backed(q, x), NEW y \in Int, x <= y,
         Len(q.cq) <= Len(q.wqe)
  PROVE  Backed(q, y)
<1>1. /\ Len(q.cq) \in Nat /\ Len(q.wqe) \in Nat
      /\ \A i \in 1 .. Len(q.wqe) : q.wqe[i] \in SwqeType
  BY ReqFields
<1>2. \A i \in Successes(q) : i \in 1 .. Len(q.wqe)
  BY <1>1 DEF Successes
<1>3. ASSUME NEW i \in 1 .. Len(q.wqe), q.wqe[i].ack_packets > 0
      PROVE  q.wqe[i].based_psn + q.wqe[i].ack_packets <= y
  <2> DEFINE a == q.wqe[i].ack_packets
             b == q.wqe[i].based_psn
  <2>1. a \in Int /\ b \in Int /\ b + a <= x
    BY <1>1, <1>3, SwqeFields DEF Backed
  <2> HIDE DEF a, b
  <2>2. b + a <= y
    BY <2>1
  <2> QED BY <2>2 DEF a, b
<1>4. ASSUME NEW i \in Successes(q)
      PROVE  Numbered(q.wqe[i]) /\ q.wqe[i].expected_psn <= y
  <2> DEFINE b == q.wqe[i].expected_psn
  <2>1. b \in Int /\ b <= x /\ Numbered(q.wqe[i])
    BY <1>1, <1>2, SwqeFields DEF Backed
  <2> HIDE DEF b
  <2>2. b <= y
    BY <2>1
  <2> QED BY <2>1, <2>2 DEF b
<1> QED BY <1>3, <1>4 DEF Backed

(* The inductive invariant: every answer under way is true, and what the   *)
(* requester counts as acknowledged is before the PSN expected next.       *)
AnswerSafe == OnceSafe /\ Truthful /\ Backed(req, rsp.psn)

LEMMA InitAnswers == Init => AnswerSafe
<1> SUFFICES ASSUME Init PROVE AnswerSafe
  OBVIOUS
<1>1. OnceSafe
  BY InitOnce
<1>2. req.wqe = <<>> /\ req.cq = <<>> /\ rsp.acks = <<>> /\ toReq = <<>>
  BY DEF Init
<1>3. Truthful
  BY <1>2 DEF Truthful
<1>4. Len(req.wqe) = 0 /\ Len(req.cq) = 0
  BY <1>2
<1>5. Successes(req) = {}
  BY <1>4 DEF Successes
<1>6. Backed(req, rsp.psn)
  BY <1>4, <1>5 DEF Backed
<1> QED BY <1>1, <1>3, <1>6 DEF AnswerSafe

LEMMA NextAnswers ==
  ASSUME PsnsSuffice, AnswerSafe, [Next]_vars
  PROVE  AnswerSafe'
<1>1. OnceSafe /\ Truthful /\ Backed(req, rsp.psn)
  BY DEF AnswerSafe
<1>2. OnceSafe'
  BY <1>1, NextOnce
<1>3. rsp'.acks \in Seq(Fine(rsp'.psn)) /\ toReq' \in Seq(Answers(rsp'.psn))
  BY <1>1, NextTruthful
<1>4. Backed(req', rsp'.psn)
  <2>1. Backed(req', rsp.psn)
    BY <1>1, RequesterBacked
  <2>2. ProgSafe /\ ProgSafe' /\ Goes(rsp, rsp')
    BY <1>1, NextProg DEF OnceSafe, Onward
  <2>3. rsp.psn \in Int /\ rsp'.psn \in Int /\ rsp.psn <= rsp'.psn
    BY <2>2, RspFields DEF Goes, ProgSafe, FlowSafe, IInv
  <2>4. ReqInv(req)'
    BY <2>2 DEF ProgSafe, FlowSafe, IInv
  <2>5. ReqInv(req')
    BY <2>4 DEF ReqInv, Requester, OrderedFrom, Drained, Started
  <2>6. req' \in ReqType /\ Len(req'.cq) <= Len(req'.wqe)
    BY <2>5, SuccessExists DEF ReqInv, Requester
  <2> QED BY <2>1, <2>3, <2>6, BackedLater
<1>5. Truthful'
  BY <1>3 DEF Truthful, Fine, Answers, Vouched
<1>6. Backed(req, rsp.psn)'
  BY <1>4 DEF Backed, Successes, Numbered
<1> QED BY <1>2, <1>5, <1>6 DEF AnswerSafe

LEMMA AnswersMean == PsnsSuffice /\ AnswerSafe => SuccessMeansExecuted
<1> SUFFICES ASSUME PsnsSuffice, AnswerSafe PROVE SuccessMeansExecuted
  OBVIOUS
<1>1. OnceSafe /\ Backed(req, rsp.psn) /\ FlowInv(req) /\ ReqInv(req) /\ req \in ReqType
  BY FlowFacts DEF AnswerSafe, OnceSafe, ProgSafe, FlowSafe
<1>2. PICK n \in Nat : Line(req, n) /\ Logged(rsp, req, n)
  BY <1>1 DEF OnceSafe
<1>3. PICK P \in Nat : PsnsFit(P)
  BY DEF PsnsSuffice
<1>4. ASSUME NEW i \in DOMAIN req.cq, req.cq[i].status = "SUCCESS"
      PROVE  Executed(i)
  <2>1. DOMAIN req.cq = 1 .. Len(req.cq) /\ Len(req.wqe) \in Nat
    BY <1>1, ReqFields
  <2>2. i \in Successes(req)
    BY <1>4, <2>1 DEF Successes
  <2>3. Numbered(req.wqe[i]) /\ req.wqe[i].expected_psn <= rsp.psn
    BY <1>1, <2>2 DEF Backed
  <2>4. i \in 1 .. Len(req.wqe)
    BY <1>1, <2>2, SuccessExists
  <2>5. n \in 0 .. Len(req.wqe) /\ \A j \in n + 1 .. Len(req.wqe) : ~Numbered(req.wqe[j])
    BY <1>2 DEF Line
  <2>6. i \in 1 .. n
    BY <2>1, <2>3, <2>4, <2>5
  <2>7. Complete(rsp.log, req, i)
    BY <1>2, <1>3, <2>3, <2>6, PastIsComplete
  <2>8. PICK j \in 1 .. Len(rsp.log) : rsp.log[j] = <<i, Entries(req.wqe[i]) - 1>>
    BY <2>7 DEF Complete
  <2>9. DOMAIN rsp.log = 1 .. Len(rsp.log)
    BY <1>2 DEF Logged
  <2>10. ExecPackets(i) = Entries(req.wqe[i])
    BY DEF ExecPackets, Entries, Op, Pkts
  <2> QED BY <2>8, <2>9, <2>10 DEF Executed
<1>5. ASSUME NEW j \in DOMAIN Started(req)
      PROVE  LET e == req.wqe[Started(req)[j]]
             IN  e.ack_packets > 0 => e.based_psn + e.ack_packets <= rsp.psn
  <2> DEFINE id == Started(req)[j]
  <2>1. id \in 1 .. Len(req.wqe)
    <3>1. /\ Len(req.cq) \in Nat /\ Requester(req, Len(req.cq))
          /\ DOMAIN req.wqe = 1 .. Len(req.wqe)
      BY <1>1, ReqFields DEF ReqInv, Requester
    <3>2. j \in 1 .. Len(Started(req))
      BY <1>1, StartedAre
    <3> QED BY <3>1, <3>2, ListsExist
  <2> HIDE DEF id
  <2>2. req.wqe[id].ack_packets > 0 =>
          req.wqe[id].based_psn + req.wqe[id].ack_packets <= rsp.psn
    BY <1>1, <2>1 DEF Backed
  <2> QED BY <2>2 DEF id
<1> QED BY <1>4, <1>5 DEF SuccessMeansExecuted

(* A work request completes with success only after the responder has      *)
(* executed its last packet, and what process_acknowledge and the RDMA     *)
(* READ responses count as acknowledged was executed: an answer that was   *)
(* lost, repeated, delayed or overtaken never makes receive_response       *)
(* believe more, for all windows, retry counts and message lengths for     *)
(* which the PSNs of the connection stay within half of PsnMod.            *)
THEOREM SuccessIsExecuted == PsnsSuffice => (Spec => []SuccessMeansExecuted)
<1> SUFFICES ASSUME PsnsSuffice PROVE Spec => []SuccessMeansExecuted
  OBVIOUS
<1>1. AnswerSafe /\ [Next]_vars => AnswerSafe'
  BY NextAnswers
<1>2. AnswerSafe => SuccessMeansExecuted
  BY AnswersMean
<1> QED BY InitAnswers, <1>1, <1>2, PTL DEF Spec
=============================================================================
