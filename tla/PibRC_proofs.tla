---------------------------- MODULE PibRC_proofs ----------------------------
(***************************************************************************)
(* TypeOK and QueueOrder of PibRC, proved for every set of work requests,  *)
(* every retry limit, window and bound, and any number of faults.          *)
(***************************************************************************)
EXTENDS PibRC, PibLists_proofs

-----------------------------------------------------------------------------
(* Facts about the helpers of PibLib and about the numbers and sequences   *)
(* the queue pairs are made of.                                            *)

(* PSN arithmetic stays within the integers: get_psn_diff of pib_rc.c.     *)
LEMMA PsnDiffType ==
  ASSUME NEW a \in Int, NEW b \in Int
  PROVE  get_psn_diff(a, b) \in Int
BY PsnModAssumption DEF get_psn_diff

(* The masked PSN is an integer of the 24 bits (here PsnMod values).       *)
LEMMA MaskedType ==
  ASSUME NEW a \in Int
  PROVE  Masked(a) \in 0 .. PsnMod - 1
BY PsnModAssumption DEF Masked

-----------------------------------------------------------------------------
(* Removing elements from a list, as the loop of                           *)
(* remove_overlapped_rdma_read_acknowledge does: what is kept of the first *)
(* i elements, for every i,                                                *)
LEMMA WithoutKept ==
  ASSUME NEW S, NEW s \in Seq(S), NEW gone
  PROVE  \E kept :
           /\ Without(s, gone) = kept[Len(s)] /\ kept[0] = <<>>
           /\ \A i \in 1 .. Len(s) :
                kept[i] = IF i \in gone THEN kept[i - 1]
                          ELSE Append(kept[i - 1], s[i])
<1> DEFINE Body(f, i) == IF i = 0 THEN <<>>
                         ELSE IF i \in gone THEN f[i - 1]
                              ELSE Append(f[i - 1], s[i])
           Solves(n, f) == f = [i \in 0 .. n |-> Body(f, i)]
           T == {n \in Nat : \E f : Solves(n, f)}
<1>1. Len(s) \in Nat
  OBVIOUS
<1>2. 0 \in T
  <2>1. Solves(0, [i \in 0 .. 0 |-> <<>>])
    OBVIOUS
  <2> QED BY <2>1
<1>3. ASSUME NEW n \in T PROVE n + 1 \in T
  <2>1. PICK f : Solves(n, f)
    OBVIOUS
  <2>2. n \in Nat
    OBVIOUS
  <2> HIDE DEF T
  <2> DEFINE g == [i \in 0 .. n + 1 |->
                     IF i = n + 1 THEN Body(f, n + 1) ELSE f[i]]
  <2>3. ASSUME NEW i \in 0 .. n + 1 PROVE g[i] = Body(g, i)
    <3>1. CASE i = n + 1
      BY <3>1, <2>2
    <3>2. CASE i \in 0 .. n
      <4>1. g[i] = Body(f, i)
        BY <3>2, <2>2, <2>1
      <4>2. i # 0 => g[i - 1] = f[i - 1]
        BY <3>2, <2>2
      <4> QED BY <4>1, <4>2
    <3> QED BY <3>1, <3>2, <2>2
  <2>4. Solves(n + 1, g)
    <3> HIDE DEF Body
    <3> QED BY <2>3
  <2> HIDE DEF g, Solves
  <2> QED BY <2>4, <2>2 DEF T
<1>4. Len(s) \in T
  <2>1. T \subseteq Nat
    OBVIOUS
  <2> HIDE DEF T
  <2>2. \A n \in T : n + 1 \in T
    BY <1>3
  <2> QED BY <1>1, <1>2, <2>1, <2>2, SetInduction
<1> DEFINE kept == CHOOSE f : Solves(Len(s), f)
<1>5. Solves(Len(s), kept)
  <2>1. \E f : Solves(Len(s), f)
    BY <1>4
  <2> HIDE DEF Solves
  <2> QED BY <2>1
<1>6. Without(s, gone) = kept[Len(s)]
  BY DEF Without
<1> HIDE DEF kept
<1>7. kept[0] = <<>>
  <2>1. 0 \in 0 .. Len(s)
    BY <1>1
  <2> QED BY <1>5, <2>1
<1>8. ASSUME NEW i \in 1 .. Len(s)
      PROVE  kept[i] = IF i \in gone THEN kept[i - 1] ELSE Append(kept[i - 1], s[i])
  <2>1. i \in 0 .. Len(s) /\ i # 0
    BY <1>1
  <2>2. kept[i] = Body(kept, i)
    <3> HIDE DEF Body
    <3> QED BY <1>5, <2>1
  <2> QED BY <2>1, <2>2
<1> QED
  BY <1>6, <1>7, <1>8

(* and what is left is a list.                                             *)
LEMMA WithoutType ==
  ASSUME NEW S, NEW s \in Seq(S), NEW gone
  PROVE  Without(s, gone) \in Seq(S)
<1>1. Len(s) \in Nat
  OBVIOUS
<1>2. PICK kept :
        /\ Without(s, gone) = kept[Len(s)] /\ kept[0] = <<>>
        /\ \A i \in 1 .. Len(s) :
             kept[i] = IF i \in gone THEN kept[i - 1] ELSE Append(kept[i - 1], s[i])
  BY WithoutKept
<1> DEFINE U == {n \in Nat : n <= Len(s) => kept[n] \in Seq(S)}
<1>3. 0 \in U
  <2>1. <<>> \in Seq(S)
    OBVIOUS
  <2>2. kept[0] \in Seq(S)
    BY <1>2, <2>1
  <2> QED BY <2>2
<1>4. ASSUME NEW n \in U PROVE n + 1 \in U
  <2> SUFFICES ASSUME n + 1 <= Len(s) PROVE kept[n + 1] \in Seq(S)
    OBVIOUS
  <2>1. n \in Nat /\ n + 1 \in 1 .. Len(s) /\ (n + 1) - 1 = n
    BY <1>1
  <2>2. kept[n + 1] = IF n + 1 \in gone THEN kept[n] ELSE Append(kept[n], s[n + 1])
    BY <1>2, <2>1
  <2>3. s[n + 1] \in S /\ kept[n] \in Seq(S)
    BY <2>1
  <2> QED BY <2>2, <2>3
<1>5. Len(s) \in U
  <2>1. U \subseteq Nat
    OBVIOUS
  <2> HIDE DEF U
  <2>2. \A n \in U : n + 1 \in U
    BY <1>4
  <2> QED BY <1>1, <1>3, <2>1, <2>2, SetInduction
<1> QED
  BY <1>1, <1>2, <1>5

(* An assignment to one element leaves a sequence of the same length.      *)
LEMMA SetElement ==
  ASSUME NEW S, NEW s \in Seq(S), NEW e \in S, NEW id
  PROVE  /\ [s EXCEPT ![id] = e] \in Seq(S)
         /\ Len([s EXCEPT ![id] = e]) = Len(s)
<1>1. CASE id \in 1 .. Len(s)
  BY <1>1, ExceptSeq
<1>2. CASE id \notin 1 .. Len(s)
  <2>1. [s EXCEPT ![id] = e] = s
    BY <1>2
  <2> QED BY <2>1
<1> QED
  BY <1>1, <1>2

(* A sequence whose elements are in R is a sequence over R.                *)
LEMMA Retype ==
  ASSUME NEW S, NEW R, NEW s \in Seq(S), \A i \in 1 .. Len(s) : s[i] \in R
  PROVE  s \in Seq(R)
<1>1. Len(s) \in Nat /\ s \in [1 .. Len(s) -> R]
  OBVIOUS
<1> QED
  BY <1>1, SeqDef

(* Lists of consecutive numbers: what the list operations of the driver    *)
(* (list_add_tail, list_del_init of the first entry, list_splice) do.      *)
LEMMA ConsecutiveEmpty ==
  ASSUME NEW c
  PROVE  <<>> \in Seq(Nat) /\ Len(<<>>) = 0 /\ Consecutive(<<>>, c)
BY DEF Consecutive

LEMMA ConsecutiveAppend ==
  ASSUME NEW s \in Seq(Nat), NEW c \in Nat, Consecutive(s, c),
         NEW x, x = c + Len(s) + 1
  PROVE  /\ Append(s, x) \in Seq(Nat) /\ Len(Append(s, x)) = Len(s) + 1
         /\ Consecutive(Append(s, x), c)
<1>1. x \in Nat
  OBVIOUS
<1>2. Append(s, x) \in Seq(Nat) /\ Len(Append(s, x)) = Len(s) + 1
  BY <1>1
<1>3. ASSUME NEW i \in 1 .. Len(s) + 1 PROVE Append(s, x)[i] = c + i
  <2>1. CASE i = Len(s) + 1
    BY <1>1, <2>1
  <2>2. CASE i \in 1 .. Len(s)
    BY <1>1, <2>2 DEF Consecutive
  <2> QED BY <2>1, <2>2
<1> QED
  BY <1>2, <1>3 DEF Consecutive

LEMMA ConsecutiveTail ==
  ASSUME NEW s \in Seq(Nat), NEW c \in Nat, Consecutive(s, c), s # <<>>
  PROVE  /\ Head(s) = c + 1
         /\ Tail(s) \in Seq(Nat) /\ Len(Tail(s)) = Len(s) - 1
         /\ Consecutive(Tail(s), c + 1)
<1>1. Len(s) \in Nat /\ Len(s) # 0
  OBVIOUS
<1>2. Tail(s) \in Seq(Nat) /\ Len(Tail(s)) = Len(s) - 1
  OBVIOUS
<1>3. Head(s) = s[1] /\ 1 \in 1 .. Len(s)
  BY <1>1
<1>4. ASSUME NEW i \in 1 .. Len(s) - 1 PROVE Tail(s)[i] = c + 1 + i
  <2>1. i + 1 \in 1 .. Len(s) /\ Tail(s)[i] = s[i + 1]
    BY <1>1
  <2> QED BY <2>1 DEF Consecutive
<1> QED
  BY <1>2, <1>3, <1>4 DEF Consecutive

LEMMA ConsecutiveConcat ==
  ASSUME NEW s \in Seq(Nat), NEW t \in Seq(Nat), NEW c \in Nat,
         Consecutive(s, c), Consecutive(t, c + Len(s))
  PROVE  /\ s \o t \in Seq(Nat) /\ Len(s \o t) = Len(s) + Len(t)
         /\ Consecutive(s \o t, c)
<1>1. s \o t \in Seq(Nat) /\ Len(s \o t) = Len(s) + Len(t)
  OBVIOUS
<1>2. ASSUME NEW i \in 1 .. Len(s) + Len(t) PROVE (s \o t)[i] = c + i
  <2>1. CASE i \in 1 .. Len(s)
    BY <2>1 DEF Consecutive
  <2>2. CASE i \in Len(s) + 1 .. Len(s) + Len(t)
    <3>1. i - Len(s) \in 1 .. Len(t) /\ (s \o t)[i] = t[i - Len(s)]
      BY <2>2
    <3> QED BY <3>1 DEF Consecutive
  <2> QED BY <2>1, <2>2
<1> QED
  BY <1>1, <1>2 DEF Consecutive

LEMMA ConsecutiveDrop ==
  ASSUME NEW s \in Seq(Nat), NEW c \in Nat, Consecutive(s, c),
         NEW n \in 0 .. Len(s)
  PROVE  /\ Drop(s, n) \in Seq(Nat) /\ Len(Drop(s, n)) = Len(s) - n
         /\ Consecutive(Drop(s, n), c + n)
<1>1. /\ Drop(s, n) \in Seq(Nat) /\ Len(Drop(s, n)) = Len(s) - n
      /\ \A i \in 1 .. Len(s) - n : Drop(s, n)[i] = s[n + i]
  BY DEF Drop
<1>2. ASSUME NEW i \in 1 .. Len(s) - n PROVE Drop(s, n)[i] = c + n + i
  <2>1. n + i \in 1 .. Len(s)
    OBVIOUS
  <2> QED BY <1>1, <2>1 DEF Consecutive
<1> QED
  BY <1>1, <1>2 DEF Consecutive

-----------------------------------------------------------------------------
(* How the three lists of send WQEs may change and stay in order.          *)

(* The first sending WQE goes to the end of the waiting list.              *)
LEMMA InOrderToWaiting ==
  ASSUME NEW w \in Seq(Nat), NEW s \in Seq(Nat), NEW u \in Seq(Nat),
         NEW n, NEW c \in Nat, InOrder(w, s, u, n, c), s # <<>>
  PROVE  /\ Append(w, Head(s)) \in Seq(Nat) /\ Tail(s) \in Seq(Nat)
         /\ InOrder(Append(w, Head(s)), Tail(s), u, n, c)
<1> DEFINE v == Append(w, Head(s))
           t == Tail(s)
<1>1. c + Len(w) \in Nat /\ Len(s) \in Nat
  OBVIOUS
<1>2. /\ Head(s) = c + Len(w) + 1 /\ t \in Seq(Nat) /\ Len(t) = Len(s) - 1
      /\ Consecutive(t, c + Len(w) + 1)
  BY <1>1, ConsecutiveTail DEF InOrder
<1>3. v \in Seq(Nat) /\ Len(v) = Len(w) + 1 /\ Consecutive(v, c)
  BY <1>2, ConsecutiveAppend DEF InOrder
<1> HIDE DEF v, t
<1>4. /\ c + Len(v) = c + Len(w) + 1
      /\ c + Len(v) + Len(t) = c + Len(w) + Len(s)
      /\ c + Len(v) + Len(t) + Len(u) = c + Len(w) + Len(s) + Len(u)
  BY <1>1, <1>2, <1>3
<1>5. InOrder(v, t, u, n, c)
  BY <1>2, <1>3, <1>4 DEF InOrder
<1> QED
  BY <1>2, <1>3, <1>5 DEF v, t

(* The first submitted WQE is started.                                     *)
LEMMA InOrderStart ==
  ASSUME NEW w \in Seq(Nat), NEW s \in Seq(Nat), NEW u \in Seq(Nat),
         NEW n, NEW c \in Nat, InOrder(w, s, u, n, c), u # <<>>
  PROVE  /\ Append(s, Head(u)) \in Seq(Nat) /\ Tail(u) \in Seq(Nat)
         /\ InOrder(w, Append(s, Head(u)), Tail(u), n, c)
<1> DEFINE v == Append(s, Head(u))
           t == Tail(u)
<1>1. c + Len(w) \in Nat /\ c + Len(w) + Len(s) \in Nat /\ Len(u) \in Nat
  OBVIOUS
<1>2. /\ Head(u) = c + Len(w) + Len(s) + 1
      /\ t \in Seq(Nat) /\ Len(t) = Len(u) - 1
      /\ Consecutive(t, c + Len(w) + Len(s) + 1)
  BY <1>1, ConsecutiveTail DEF InOrder
<1>3. v \in Seq(Nat) /\ Len(v) = Len(s) + 1 /\ Consecutive(v, c + Len(w))
  BY <1>1, <1>2, ConsecutiveAppend DEF InOrder
<1> HIDE DEF v, t
<1>4. /\ c + Len(w) + Len(v) = c + Len(w) + Len(s) + 1
      /\ c + Len(w) + Len(v) + Len(t) = c + Len(w) + Len(s) + Len(u)
  BY <1>1, <1>2, <1>3
<1>5. InOrder(w, v, t, n, c)
  BY <1>2, <1>3, <1>4 DEF InOrder
<1> QED
  BY <1>2, <1>3, <1>5 DEF v, t

(* All waiting WQEs return to the front of the sending list.               *)
LEMMA InOrderResend ==
  ASSUME NEW w \in Seq(Nat), NEW s \in Seq(Nat), NEW u \in Seq(Nat),
         NEW n, NEW c \in Nat, InOrder(w, s, u, n, c)
  PROVE  /\ w \o s \in Seq(Nat) /\ Len(w \o s) = Len(w) + Len(s)
         /\ Consecutive(w \o s, c)
         /\ InOrder(<<>>, w \o s, u, n, c)
<1> DEFINE v == w \o s
           e == <<>>
<1>1. v \in Seq(Nat) /\ Len(v) = Len(w) + Len(s) /\ Consecutive(v, c)
  BY ConsecutiveConcat DEF InOrder
<1>2. e \in Seq(Nat) /\ Len(e) = 0 /\ Consecutive(e, c)
  BY ConsecutiveEmpty
<1> HIDE DEF v, e
<1>3. /\ c + Len(e) = c
      /\ c + Len(e) + Len(v) = c + Len(w) + Len(s)
      /\ c + Len(e) + Len(v) + Len(u) = c + Len(w) + Len(s) + Len(u)
  BY <1>1, <1>2
<1>4. InOrder(e, v, u, n, c)
  BY <1>1, <1>2, <1>3 DEF InOrder
<1> QED
  BY <1>1, <1>4 DEF v, e

(* The first k WQEs of the waiting list leave it.                          *)
LEMMA InOrderDropWaiting ==
  ASSUME NEW w \in Seq(Nat), NEW s \in Seq(Nat), NEW u \in Seq(Nat),
         NEW n, NEW c \in Nat, InOrder(w, s, u, n, c), NEW k \in 0 .. Len(w)
  PROVE  /\ Drop(w, k) \in Seq(Nat) /\ Len(Drop(w, k)) = Len(w) - k
         /\ InOrder(Drop(w, k), s, u, n, c + k)
<1> DEFINE v == Drop(w, k)
<1>1. v \in Seq(Nat) /\ Len(v) = Len(w) - k /\ Consecutive(v, c + k)
  BY ConsecutiveDrop DEF InOrder
<1> HIDE DEF v
<1>2. /\ c + k + Len(v) = c + Len(w)
      /\ c + k + Len(v) + Len(s) = c + Len(w) + Len(s)
      /\ c + k + Len(v) + Len(s) + Len(u) = c + Len(w) + Len(s) + Len(u)
  BY <1>1
<1>3. InOrder(v, s, u, n, c + k)
  BY <1>1, <1>2 DEF InOrder
<1> QED
  BY <1>1, <1>3 DEF v

(* All waiting and k sending WQEs leave their lists.                       *)
LEMMA InOrderDropSending ==
  ASSUME NEW w \in Seq(Nat), NEW s \in Seq(Nat), NEW u \in Seq(Nat),
         NEW n, NEW c \in Nat, InOrder(w, s, u, n, c), NEW k \in 0 .. Len(s)
  PROVE  /\ Drop(s, k) \in Seq(Nat) /\ Len(Drop(s, k)) = Len(s) - k
         /\ InOrder(<<>>, Drop(s, k), u, n, c + Len(w) + k)
<1> DEFINE v == Drop(s, k)
           e == <<>>
           d == c + Len(w) + k
<1>0. c + Len(w) \in Nat
  OBVIOUS
<1>1. v \in Seq(Nat) /\ Len(v) = Len(s) - k /\ Consecutive(v, d)
  BY <1>0, ConsecutiveDrop DEF InOrder
<1>2. e \in Seq(Nat) /\ Len(e) = 0 /\ Consecutive(e, d)
  BY ConsecutiveEmpty
<1> HIDE DEF v, e
<1>3. /\ d + Len(e) = d
      /\ d + Len(e) + Len(v) = c + Len(w) + Len(s)
      /\ d + Len(e) + Len(v) + Len(u) = c + Len(w) + Len(s) + Len(u)
  BY <1>1, <1>2
<1> HIDE DEF d
<1>4. InOrder(e, v, u, n, d)
  BY <1>1, <1>2, <1>3 DEF InOrder
<1> QED
  BY <1>1, <1>4 DEF v, e, d

(* With nothing waiting, the first sending WQE leaves its list.            *)
LEMMA InOrderFirst ==
  ASSUME NEW s \in Seq(Nat), NEW u \in Seq(Nat), s # <<>>,
         NEW n, NEW c \in Nat, InOrder(<<>>, s, u, n, c)
  PROVE  /\ Head(s) = c + 1 /\ Tail(s) \in Seq(Nat)
         /\ InOrder(<<>>, Tail(s), u, n, c + 1)
<1> DEFINE t == Tail(s)
           e == <<>>
<1>1. e \in Seq(Nat) /\ Len(e) = 0 /\ Consecutive(e, c + 1)
  BY ConsecutiveEmpty
<1>2. Consecutive(s, c + Len(e)) /\ InOrder(e, s, u, n, c)
  BY DEF InOrder
<1> HIDE DEF e
<1>3. c + Len(e) = c
  BY <1>1
<1>4. /\ Head(s) = c + 1 /\ t \in Seq(Nat) /\ Len(t) = Len(s) - 1
      /\ Consecutive(t, c + 1)
  BY <1>2, <1>3, ConsecutiveTail
<1> HIDE DEF t
<1>5. /\ c + 1 + Len(e) = c + 1
      /\ c + 1 + Len(e) + Len(t) = c + Len(e) + Len(s)
      /\ c + 1 + Len(e) + Len(t) + Len(u) = c + Len(e) + Len(s) + Len(u)
  BY <1>1, <1>4
<1>6. InOrder(e, t, u, n, c + 1)
  BY <1>1, <1>2, <1>4, <1>5 DEF InOrder
<1> QED
  BY <1>4, <1>6 DEF e, t

(* A work request is posted.                                               *)
LEMMA InOrderPost ==
  ASSUME NEW w \in Seq(Nat), NEW s \in Seq(Nat), NEW u \in Seq(Nat),
         NEW n, NEW c \in Nat, InOrder(w, s, u, n, c)
  PROVE  /\ Append(u, n + 1) \in Seq(Nat)
         /\ InOrder(w, s, Append(u, n + 1), n + 1, c)
<1> DEFINE v == Append(u, n + 1)
<1>1. /\ c + Len(w) + Len(s) \in Nat /\ Len(u) \in Nat
      /\ n + 1 = c + Len(w) + Len(s) + Len(u) + 1
  BY DEF InOrder
<1>2. /\ v \in Seq(Nat) /\ Len(v) = Len(u) + 1
      /\ Consecutive(v, c + Len(w) + Len(s))
  BY <1>1, ConsecutiveAppend DEF InOrder
<1> HIDE DEF v
<1>3. n + 1 = c + Len(w) + Len(s) + Len(v)
  BY <1>1, <1>2
<1>4. InOrder(w, s, v, n + 1, c)
  BY <1>2, <1>3 DEF InOrder
<1> QED
  BY <1>2, <1>4 DEF v

(* All lists are flushed: together they hold c + 1 .. n.                   *)
LEMMA InOrderFlush ==
  ASSUME NEW w \in Seq(Nat), NEW s \in Seq(Nat), NEW u \in Seq(Nat),
         NEW n, NEW c \in Nat, InOrder(w, s, u, n, c)
  PROVE  /\ w \o s \o u \in Seq(Nat) /\ Len(w \o s \o u) = n - c
         /\ Consecutive(w \o s \o u, c)
         /\ n \in Nat /\ InOrder(<<>>, <<>>, <<>>, n, n)
<1> DEFINE v == w \o s
           x == v \o u
           e == <<>>
<1>1. v \in Seq(Nat) /\ Len(v) = Len(w) + Len(s) /\ Consecutive(v, c)
  BY InOrderResend
<1> HIDE DEF v
<1>2. c + Len(v) = c + Len(w) + Len(s)
  BY <1>1
<1>3. x \in Seq(Nat) /\ Len(x) = Len(v) + Len(u) /\ Consecutive(x, c)
  BY <1>1, <1>2, ConsecutiveConcat DEF InOrder
<1> HIDE DEF x
<1>4. n \in Nat /\ Len(x) = n - c
  BY <1>1, <1>3 DEF InOrder
<1>5. e \in Seq(Nat) /\ Len(e) = 0 /\ Consecutive(e, n)
  BY ConsecutiveEmpty
<1> HIDE DEF e
<1>6. n + Len(e) = n /\ n + Len(e) + Len(e) = n /\ n + Len(e) + Len(e) + Len(e) = n
  BY <1>4, <1>5
<1>7. InOrder(e, e, e, n, n)
  BY <1>5, <1>6 DEF InOrder
<1> QED
  BY <1>3, <1>4, <1>7 DEF x, v, e

(* No list reaches beyond n.                                               *)
LEMMA InOrderBounds ==
  ASSUME NEW w \in Seq(Nat), NEW s \in Seq(Nat), NEW u \in Seq(Nat),
         NEW n, NEW c \in Nat, InOrder(w, s, u, n, c)
  PROVE  /\ \A i \in 1 .. Len(w) + Len(s) :
               (w \o s)[i] = c + i /\ (w \o s)[i] \in 1 .. n
         /\ s # <<>> => Head(s) \in 1 .. n
         /\ u # <<>> => Head(u) \in 1 .. n
         /\ w # <<>> => Head(w) \in 1 .. n
         /\ w \in Seq(1 .. n) /\ s \in Seq(1 .. n) /\ u \in Seq(1 .. n)
<1>1. /\ Len(w) \in Nat /\ Len(s) \in Nat /\ Len(u) \in Nat
      /\ n = c + Len(w) + Len(s) + Len(u)
  BY DEF InOrder
<1>2. ASSUME NEW i \in 1 .. Len(w) + Len(s)
      PROVE  (w \o s)[i] = c + i /\ (w \o s)[i] \in 1 .. n
  <2>1. Consecutive(w \o s, c) /\ Len(w \o s) = Len(w) + Len(s)
    BY InOrderResend
  <2>2. (w \o s)[i] = c + i
    BY <2>1 DEF Consecutive
  <2> QED BY <1>1, <2>2
<1>3. ASSUME NEW i \in 1 .. Len(w) PROVE w[i] \in 1 .. n
  <2>1. w[i] = c + i
    BY DEF InOrder, Consecutive
  <2> QED BY <1>1, <2>1
<1>4. ASSUME NEW i \in 1 .. Len(s) PROVE s[i] \in 1 .. n
  <2>1. s[i] = c + Len(w) + i
    BY DEF InOrder, Consecutive
  <2> QED BY <1>1, <2>1
<1>5. ASSUME NEW i \in 1 .. Len(u) PROVE u[i] \in 1 .. n
  <2>1. u[i] = c + Len(w) + Len(s) + i
    BY DEF InOrder, Consecutive
  <2> QED BY <1>1, <2>1
<1> DEFINE S == 1 .. n
<1> HIDE DEF S
<1>6. w \in Seq(S) /\ s \in Seq(S) /\ u \in Seq(S)
  BY <1>3, <1>4, <1>5, Retype DEF S
<1>7. s # <<>> => Head(s) \in S
  BY <1>6
<1>8. u # <<>> => Head(u) \in S
  BY <1>6
<1>9. w # <<>> => Head(w) \in S
  BY <1>6
<1> QED
  BY <1>2, <1>6, <1>7, <1>8, <1>9 DEF S

(* Lists that hold the numbers n + 1 .. n are empty.                       *)
LEMMA InOrderDone ==
  ASSUME NEW w \in Seq(Nat), NEW s \in Seq(Nat), NEW u \in Seq(Nat),
         NEW n, NEW c \in Nat, InOrder(w, s, u, n, c), n = c
  PROVE  w = <<>> /\ s = <<>> /\ u = <<>>
<1>1. Len(w) = 0 /\ Len(s) = 0 /\ Len(u) = 0
  BY DEF InOrder
<1> QED
  BY <1>1, EmptySeq

-----------------------------------------------------------------------------
(* The queue pairs                                                         *)

(* A queue pair in error has no work request left after number c.          *)
Drained(q, c) == q.state = "ERR" => c = Len(q.wqe)

(* The inductive invariant of the requester: its type, completions in      *)
(* order, and lists that hold the work requests after number c.  Between   *)
(* two steps c is the number of completions; inside a step work requests   *)
(* leave their list before they are completed, and c runs ahead.           *)
Requester(q, c) ==
  q \in ReqType /\ CompletedInOrder(q.cq) /\ OrderedFrom(q, c) /\ Drained(q, c)

ReqInv(q) == Requester(q, Len(q.cq))

(* The constants have the types the handlers count with.                   *)
LEMMA ConstantTypes ==
  /\ WRs \subseteq WrType
  /\ RetryCnt \in Nat /\ RnrRetry \in Nat /\ MaxRdAtomic \in Nat
  /\ MaxDestRdAtomic \in Nat /\ MaxContigReqs \in Nat /\ MaxContigReads \in Nat
  /\ InitPsn \in Int /\ RecvSizes \subseteq Nat
BY RCAssumption, PsnModAssumption

-----------------------------------------------------------------------------
(* The requester's record *)

LEMMA ReqFields ==
  ASSUME NEW q, q \in ReqType
  PROVE  /\ q.waiting \in Seq(Nat) /\ q.sending \in Seq(Nat)
         /\ q.submitted \in Seq(Nat) /\ q.wqe \in Seq(SwqeType)
         /\ q.cq \in Seq([wr : Nat, status : Statuses])
         /\ Len(q.waiting) \in Nat /\ Len(q.sending) \in Nat
         /\ Len(q.submitted) \in Nat /\ Len(q.wqe) \in Nat /\ Len(q.cq) \in Nat
         /\ DOMAIN q.wqe = 1 .. Len(q.wqe)
<1>1. /\ q.waiting \in Seq(Nat) /\ q.sending \in Seq(Nat)
      /\ q.submitted \in Seq(Nat) /\ q.wqe \in Seq(SwqeType)
      /\ q.cq \in Seq([wr : Nat, status : Statuses])
  BY DEF ReqType
<1> QED
  BY <1>1

LEMMA reschedule_reqType ==
  ASSUME NEW q, NEW c \in Nat, Requester(q, c)
  PROVE  Requester(reschedule_req(q), c) /\ reschedule_req(q).cq = q.cq
<1> DEFINE on == /\ q.state = "RTS"
                 /\ q.waiting # <<>> \/ SendDue(q) \/ StartDue(q)
<1>1. on \in BOOLEAN
  OBVIOUS
<1>2. reschedule_req(q) = [q EXCEPT !.on = on]
  BY DEF reschedule_req
<1> HIDE DEF on
<1> QED
  BY <1>1, <1>2 DEF Requester, ReqType, OrderedFrom, CompletedInOrder, Drained

(* Changing WQEs but not their lists. *)
LEMMA WqeUpdate ==
  ASSUME NEW q, NEW c \in Nat, Requester(q, c),
         NEW wqe \in Seq(SwqeType), Len(wqe) = Len(q.wqe)
  PROVE  /\ Requester([q EXCEPT !.wqe = wqe], c)
         /\ [q EXCEPT !.wqe = wqe].cq = q.cq
BY DEF Requester, ReqType, OrderedFrom, CompletedInOrder, Drained

LEMMA WqeSet ==
  ASSUME NEW q, NEW c \in Nat, Requester(q, c), NEW id, NEW e \in SwqeType
  PROVE  /\ Requester([q EXCEPT !.wqe[id] = e], c)
         /\ [q EXCEPT !.wqe[id] = e].cq = q.cq
<1> DEFINE wqe == [q.wqe EXCEPT ![id] = e]
<1>1. q.wqe \in Seq(SwqeType)
  BY ReqFields DEF Requester
<1>2. wqe \in Seq(SwqeType) /\ Len(wqe) = Len(q.wqe)
  BY <1>1, SetElement
<1> HIDE DEF wqe
<1>3. [q EXCEPT !.wqe[id] = e] = [q EXCEPT !.wqe = wqe]
  BY DEF wqe
<1> QED
  BY <1>2, <1>3, WqeUpdate

(* The invariant, unfolded and folded. *)
LEMMA RequesterFacts ==
  ASSUME NEW q, NEW c \in Nat, Requester(q, c)
  PROVE  /\ q \in ReqType /\ CompletedInOrder(q.cq)
         /\ q.waiting \in Seq(Nat) /\ q.sending \in Seq(Nat)
         /\ q.submitted \in Seq(Nat) /\ q.wqe \in Seq(SwqeType)
         /\ Len(q.cq) \in Nat /\ Drained(q, c)
         /\ InOrder(q.waiting, q.sending, q.submitted, Len(q.wqe), c)
<1>1. /\ q \in ReqType /\ CompletedInOrder(q.cq) /\ OrderedFrom(q, c)
      /\ Drained(q, c)
  BY DEF Requester
<1> QED
  BY <1>1, ReqFields DEF OrderedFrom

LEMMA RequesterIntro ==
  ASSUME NEW p, NEW q, NEW c, p \in ReqType, CompletedInOrder(q.cq), p.cq = q.cq,
         InOrder(p.waiting, p.sending, p.submitted, Len(p.wqe), c),
         Drained(q, c), p.state = q.state, Len(p.wqe) = Len(q.wqe)
  PROVE  Requester(p, c)
BY DEF Requester, OrderedFrom, CompletedInOrder, Drained

(* A queue pair in error has empty lists.                                  *)
LEMMA DrainedLists ==
  ASSUME NEW q, NEW c \in Nat, Requester(q, c), q.state = "ERR"
  PROVE  q.waiting = <<>> /\ q.sending = <<>> /\ q.submitted = <<>>
<1>1. /\ q.waiting \in Seq(Nat) /\ q.sending \in Seq(Nat)
      /\ q.submitted \in Seq(Nat) /\ Drained(q, c)
      /\ InOrder(q.waiting, q.sending, q.submitted, Len(q.wqe), c)
  BY RequesterFacts
<1>2. Len(q.wqe) = c
  BY <1>1 DEF Drained
<1> QED
  BY <1>1, <1>2, InOrderDone

(* Every list names WQEs that exist.                                       *)
LEMMA ListsExist ==
  ASSUME NEW q, NEW c \in Nat, Requester(q, c)
  PROVE  /\ ListsOK(q)
         /\ q.sending # <<>> => Head(q.sending) \in DOMAIN q.wqe
         /\ q.submitted # <<>> => Head(q.submitted) \in DOMAIN q.wqe
         /\ q.waiting # <<>> => Head(q.waiting) \in DOMAIN q.wqe
         /\ Started(q) \in Seq(Nat) /\ Len(Started(q)) \in Nat
         /\ Len(Started(q)) = Len(q.waiting) + Len(q.sending)
         /\ \A i \in 1 .. Len(Started(q)) :
               Started(q)[i] = c + i /\ Started(q)[i] \in DOMAIN q.wqe
<1>1. /\ q.waiting \in Seq(Nat) /\ q.sending \in Seq(Nat)
      /\ q.submitted \in Seq(Nat) /\ DOMAIN q.wqe = 1 .. Len(q.wqe)
      /\ InOrder(q.waiting, q.sending, q.submitted, Len(q.wqe), c)
  BY RequesterFacts, ReqFields
<1>2. /\ q.sending # <<>> => Head(q.sending) \in DOMAIN q.wqe
      /\ q.submitted # <<>> => Head(q.submitted) \in DOMAIN q.wqe
      /\ q.waiting # <<>> => Head(q.waiting) \in DOMAIN q.wqe
      /\ ListsOK(q)
  BY <1>1, InOrderBounds DEF ListsOK
<1>3. /\ Started(q) \in Seq(Nat)
      /\ Len(Started(q)) = Len(q.waiting) + Len(q.sending)
  BY <1>1, InOrderResend DEF Started
<1>4. \A i \in 1 .. Len(q.waiting) + Len(q.sending) :
        Started(q)[i] = c + i /\ Started(q)[i] \in DOMAIN q.wqe
  <2> DEFINE all == q.waiting \o q.sending
             m   == Len(q.waiting) + Len(q.sending)
  <2>1. \A i \in 1 .. m : all[i] = c + i /\ all[i] \in 1 .. Len(q.wqe)
    BY <1>1, InOrderBounds
  <2>2. Started(q) = all
    BY DEF Started
  <2> HIDE DEF all, m
  <2>3. \A i \in 1 .. m : Started(q)[i] = c + i /\ Started(q)[i] \in DOMAIN q.wqe
    BY <1>1, <2>1, <2>2
  <2> QED BY <2>3 DEF m
<1>5. Len(Started(q)) \in Nat
  BY <1>3, LenProperties
<1> QED
  BY <1>2, <1>3, <1>4, <1>5

LEMMA FirstWqe ==
  ASSUME NEW q, NEW c \in Nat, Requester(q, c)
  PROVE  /\ \A id \in DOMAIN q.wqe : q.wqe[id] \in SwqeType
         /\ q.sending # <<>> => q.wqe[Head(q.sending)] \in SwqeType
         /\ q.submitted # <<>> => q.wqe[Head(q.submitted)] \in SwqeType
         /\ q.waiting # <<>> => q.wqe[Head(q.waiting)] \in SwqeType
<1>1. q.wqe \in Seq(SwqeType)
  BY RequesterFacts
<1>2. \A id \in DOMAIN q.wqe : q.wqe[id] \in SwqeType
  BY <1>1
<1> QED
  BY <1>2, ListsExist

LEMMA ToWaitingType ==
  ASSUME NEW q, NEW c \in Nat, Requester(q, c), q.sending # <<>>
  PROVE  Requester(ToWaiting(q), c) /\ ToWaiting(q).cq = q.cq
<1> DEFINE w == Append(q.waiting, Head(q.sending))
           s == Tail(q.sending)
           p == [q EXCEPT !.waiting = w, !.sending = s]
<1>1. /\ q \in ReqType /\ CompletedInOrder(q.cq) /\ w \in Seq(Nat) /\ s \in Seq(Nat)
      /\ Drained(q, c)
      /\ InOrder(w, s, q.submitted, Len(q.wqe), c)
  BY RequesterFacts, InOrderToWaiting
<1>2. ToWaiting(q) = p
  BY DEF ToWaiting
<1> HIDE DEF w, s
<1>3. /\ p \in ReqType /\ p.cq = q.cq /\ p.waiting = w /\ p.sending = s
      /\ p.submitted = q.submitted /\ p.wqe = q.wqe /\ p.state = q.state
  BY <1>1 DEF ReqType
<1> HIDE DEF p
<1> QED
  BY <1>1, <1>2, <1>3, RequesterIntro

LEMMA DropStartedType ==
  ASSUME NEW q, NEW c \in Nat, Requester(q, c),
         NEW n \in 0 .. Len(Started(q))
  PROVE  /\ Requester(DropStarted(q, n), c + n)
         /\ DropStarted(q, n).cq = q.cq /\ DropStarted(q, n).wqe = q.wqe
         /\ Len(Started(DropStarted(q, n))) = Len(Started(q)) - n
<1> DEFINE wl == Len(q.waiting)
           sl == Len(q.sending)
<1>1. /\ q \in ReqType /\ CompletedInOrder(q.cq)
      /\ q.waiting \in Seq(Nat) /\ q.sending \in Seq(Nat)
      /\ q.submitted \in Seq(Nat)
      /\ InOrder(q.waiting, q.sending, q.submitted, Len(q.wqe), c)
      /\ wl \in Nat /\ sl \in Nat
  BY RequesterFacts, ReqFields
<1>2. Len(Started(q)) = wl + sl
  BY ListsExist
<1>d. Drained(q, c + n)
  <2>1. SUFFICES ASSUME q.state = "ERR" PROVE c + n = Len(q.wqe)
    BY DEF Drained
  <2>2. q.waiting = <<>> /\ q.sending = <<>> /\ Drained(q, c)
    BY <2>1, DrainedLists, RequesterFacts
  <2>3. wl = 0 /\ sl = 0 /\ c = Len(q.wqe)
    BY <2>1, <2>2 DEF Drained
  <2> HIDE DEF wl, sl
  <2> QED BY <1>2, <2>3
<1>3. CASE n <= wl
  <2> DEFINE w == Drop(q.waiting, n)
             p == [q EXCEPT !.waiting = w]
  <2>1. n \in 0 .. wl
    <3> HIDE DEF wl, sl
    <3> QED BY <1>1, <1>2, <1>3
  <2>2. /\ w \in Seq(Nat) /\ Len(w) = wl - n
        /\ InOrder(w, q.sending, q.submitted, Len(q.wqe), c + n)
    BY <1>1, <2>1, InOrderDropWaiting
  <2>3. DropStarted(q, n) = p
    BY <1>3 DEF DropStarted
  <2> HIDE DEF w
  <2>4. /\ p \in ReqType /\ p.cq = q.cq /\ p.waiting = w
        /\ p.sending = q.sending /\ p.submitted = q.submitted
        /\ p.wqe = q.wqe /\ p.state = q.state
    BY <1>1, <2>2 DEF ReqType
  <2> HIDE DEF p
  <2>5. Requester(p, c + n)
    BY <1>1, <1>d, <2>2, <2>4, RequesterIntro
  <2>6. c + n \in Nat
    OBVIOUS
  <2>7. Len(Started(p)) = Len(w) + sl
    BY <2>4, <2>5, <2>6, ListsExist
  <2> HIDE DEF wl, sl
  <2>8. Len(Started(p)) = Len(Started(q)) - n
    BY <1>1, <1>2, <2>1, <2>2, <2>7
  <2> QED BY <2>3, <2>4, <2>5, <2>8
<1>4. CASE ~ (n <= wl)
  <2> DEFINE k == n - wl
             s == Drop(q.sending, k)
             p == [q EXCEPT !.waiting = <<>>, !.sending = s]
  <2>1. k \in 0 .. sl /\ c + wl + k = c + n
    <3> HIDE DEF wl, sl
    <3> QED BY <1>1, <1>2, <1>4
  <2>2. DropStarted(q, n) = p
    BY <1>4 DEF DropStarted
  <2> HIDE DEF k
  <2>3. /\ s \in Seq(Nat) /\ Len(s) = sl - k
        /\ InOrder(<<>>, s, q.submitted, Len(q.wqe), c + wl + k)
    BY <1>1, <2>1, InOrderDropSending
  <2> HIDE DEF s
  <2>4. /\ p \in ReqType /\ p.cq = q.cq /\ p.waiting = <<>>
        /\ p.sending = s /\ p.submitted = q.submitted
        /\ p.wqe = q.wqe /\ p.state = q.state
    <3>1. <<>> \in Seq(Nat)
      OBVIOUS
    <3> DEFINE e == <<>>
    <3> HIDE DEF e
    <3>2. e \in Seq(Nat) /\ p = [q EXCEPT !.waiting = e, !.sending = s]
      BY <3>1 DEF e
    <3> HIDE DEF p
    <3>3. /\ p \in ReqType /\ p.cq = q.cq /\ p.waiting = e
          /\ p.sending = s /\ p.submitted = q.submitted
          /\ p.wqe = q.wqe /\ p.state = q.state
      BY <1>1, <2>3, <3>2 DEF ReqType
    <3> QED BY <3>3 DEF e
  <2> HIDE DEF p
  <2>5. Requester(p, c + n)
    BY <1>1, <1>d, <2>1, <2>3, <2>4, RequesterIntro
  <2>6. c + n \in Nat
    OBVIOUS
  <2>7. Len(Started(p)) = Len(<<>>) + Len(s)
    BY <2>4, <2>5, <2>6, ListsExist
  <2>8. Len(Started(p)) = Len(Started(q)) - n
    <3>1. k = n - wl /\ Len(<<>>) = 0
      BY DEF k
    <3> HIDE DEF wl, sl
    <3> QED BY <1>1, <1>2, <2>1, <2>3, <2>7, <3>1
  <2> QED BY <2>2, <2>4, <2>5, <2>8
<1> QED
  BY <1>1, <1>3, <1>4

-----------------------------------------------------------------------------
(* Completions *)

SendWc == [wr : Nat, status : Statuses]

(* Completing the next n work requests keeps the completions in order.     *)
LEMMA CompleteInOrder ==
  ASSUME NEW cq \in Seq(SendWc), CompletedInOrder(cq), NEW status \in Statuses,
         NEW ids \in Seq(Nat), Consecutive(ids, Len(cq)),
         NEW n \in 0 .. Len(ids)
  PROVE  LET wcs == [i \in 1 .. n |-> [wr |-> ids[i], status |-> status]]
         IN  /\ cq \o wcs \in Seq(SendWc) /\ Len(cq \o wcs) = Len(cq) + n
             /\ CompletedInOrder(cq \o wcs)
<1> DEFINE wcs == [i \in 1 .. n |-> [wr |-> ids[i], status |-> status]]
<1>1. Len(cq) \in Nat /\ Len(ids) \in Nat /\ n \in Nat
  OBVIOUS
<1>2. \A i \in 1 .. n : ids[i] \in Nat /\ ids[i] = Len(cq) + i
  BY <1>1 DEF Consecutive
<1>3. wcs \in [1 .. n -> SendWc]
  BY <1>2 DEF SendWc
<1>4. wcs \in Seq(SendWc) /\ Len(wcs) = n
  BY <1>1, <1>3, SeqDef
<1>5. \A i \in 1 .. n : wcs[i].wr = Len(cq) + i
  BY <1>2
<1> HIDE DEF wcs
<1>6. cq \o wcs \in Seq(SendWc) /\ Len(cq \o wcs) = Len(cq) + n
  BY <1>4
<1>7. ASSUME NEW i \in 1 .. Len(cq) + n PROVE (cq \o wcs)[i].wr = i
  <2>1. CASE i \in 1 .. Len(cq)
    <3>1. (cq \o wcs)[i] = cq[i]
      BY <1>4, <2>1
    <3> QED BY <2>1, <3>1 DEF CompletedInOrder
  <2>2. CASE i \in Len(cq) + 1 .. Len(cq) + n
    <3> DEFINE j == i - Len(cq)
    <3>1. j \in 1 .. n /\ (cq \o wcs)[i] = wcs[j]
      BY <1>1, <1>4, <2>2
    <3>2. wcs[j].wr = Len(cq) + j
      <4> HIDE DEF j
      <4> QED BY <1>5, <3>1
    <3>3. Len(cq) + j = i
      BY <1>1
    <3> QED BY <3>1, <3>2, <3>3
  <2>3. i \in 1 .. Len(cq) \/ i \in Len(cq) + 1 .. Len(cq) + n
    BY <1>1
  <2> QED BY <2>1, <2>2, <2>3
<1> QED
  BY <1>6, <1>7 DEF CompletedInOrder, wcs

LEMMA insert_send_wcType ==
  ASSUME NEW q, NEW c \in Nat, Requester(q, c), NEW id, id = Len(q.cq) + 1,
         NEW status \in Statuses
  PROVE  /\ Requester(insert_send_wc(q, id, status), c)
         /\ Len(insert_send_wc(q, id, status).cq) = id
<1> DEFINE cq == Append(q.cq, [wr |-> id, status |-> status])
           p  == [q EXCEPT !.cq = cq]
<1>1. /\ q \in ReqType /\ CompletedInOrder(q.cq) /\ q.cq \in Seq(SendWc)
      /\ Len(q.cq) \in Nat /\ Drained(q, c)
      /\ InOrder(q.waiting, q.sending, q.submitted, Len(q.wqe), c)
  BY RequesterFacts, ReqFields DEF SendWc
<1>2. id \in Nat /\ [wr |-> id, status |-> status] \in SendWc
  BY <1>1 DEF SendWc
<1>3. cq \in Seq(SendWc) /\ Len(cq) = id
  BY <1>1, <1>2
<1>4. CompletedInOrder(cq)
  <2>1. ASSUME NEW i \in 1 .. id PROVE cq[i].wr = i
    <3> DEFINE l == q.cq
    <3>1. l \in Seq(SendWc) /\ CompletedInOrder(l) /\ id = Len(l) + 1
          /\ cq = Append(l, [wr |-> id, status |-> status])
      BY <1>1
    <3> HIDE DEF l, cq
    <3>2. CASE i = id
      BY <1>2, <3>1, <3>2
    <3>3. CASE i \in 1 .. Len(l)
      <4>1. cq[i] = l[i]
        BY <1>2, <3>1, <3>3
      <4> QED BY <3>1, <3>3, <4>1 DEF CompletedInOrder
    <3> QED BY <3>1, <3>2, <3>3
  <2> QED BY <1>3, <2>1 DEF CompletedInOrder
<1>5. insert_send_wc(q, id, status) = p
  BY DEF insert_send_wc
<1> HIDE DEF cq
<1>6. /\ p \in ReqType /\ p.cq = cq /\ p.waiting = q.waiting
      /\ p.sending = q.sending /\ p.submitted = q.submitted /\ p.wqe = q.wqe
      /\ p.state = q.state
  BY <1>1, <1>3 DEF ReqType, SendWc
<1> HIDE DEF p
<1> QED
  BY <1>1, <1>3, <1>4, <1>5, <1>6 DEF Requester, OrderedFrom, Drained

LEMMA flush_reqType ==
  ASSUME NEW q, ReqInv(q)
  PROVE  ReqInv(flush_req(q))
<1> DEFINE left == Started(q) \o q.submitted
           wcs == [i \in 1 .. Len(left) |->
                     [wr |-> left[i], status |-> "WR_FLUSH_ERR"]]
           cq  == q.cq \o wcs
           n   == Len(q.wqe)
           c   == Len(q.cq)
           e   == <<>>
           z   == 0
           p1  == [q EXCEPT !.state = "ERR", !.waiting = e, !.sending = e,
                            !.submitted = e, !.nr_rd_atomic = z, !.cq = cq]
           p2  == reschedule_req(p1)
           p3  == [p2 EXCEPT !.nr_contig_requests = z, !.nr_contig_read_acks = z]
<1>1. /\ q \in ReqType /\ CompletedInOrder(q.cq) /\ q.cq \in Seq(SendWc)
      /\ c \in Nat /\ q.waiting \in Seq(Nat) /\ q.sending \in Seq(Nat)
      /\ q.submitted \in Seq(Nat) /\ n \in Nat
      /\ InOrder(q.waiting, q.sending, q.submitted, n, c)
  BY RequesterFacts, ReqFields DEF SendWc, ReqInv, Requester
<1>2. flush_req(q) = p3
  BY DEF flush_req
<1>3. left = q.waiting \o q.sending \o q.submitted
  BY DEF Started
<1> HIDE DEF n, c, left
<1>4. /\ left \in Seq(Nat) /\ Len(left) = n - c
      /\ Consecutive(left, c) /\ InOrder(e, e, e, n, n)
  <2> DEFINE w == q.waiting
             s == q.sending
             u == q.submitted
  <2>1. /\ w \in Seq(Nat) /\ s \in Seq(Nat) /\ u \in Seq(Nat)
        /\ InOrder(w, s, u, n, c) /\ left = w \o s \o u
    BY <1>1, <1>3
  <2> HIDE DEF w, s, u
  <2>2. /\ w \o s \o u \in Seq(Nat) /\ Len(w \o s \o u) = n - c
        /\ Consecutive(w \o s \o u, c) /\ InOrder(<<>>, <<>>, <<>>, n, n)
    BY <1>1, <2>1, InOrderFlush
  <2> QED BY <2>1, <2>2
<1>5. Len(left) \in Nat /\ c + Len(left) = n /\ Len(left) \in 0 .. Len(left)
  BY <1>1, <1>4
<1>6. "WR_FLUSH_ERR" \in Statuses
  BY DEF Statuses
<1>7. cq \in Seq(SendWc) /\ Len(cq) = c + Len(left) /\ CompletedInOrder(cq)
  BY <1>1, <1>4, <1>5, <1>6, CompleteInOrder DEF c
<1>8. e \in Seq(Nat) /\ z \in Nat /\ z \in Int
  OBVIOUS
<1> HIDE DEF wcs, cq, e, z
<1>9. p1 \in ReqType
  BY <1>1, <1>7, <1>8 DEF ReqType, SendWc
<1>10. /\ p1.cq = cq /\ p1.waiting = e /\ p1.sending = e
       /\ p1.submitted = e /\ p1.wqe = q.wqe
  BY <1>1 DEF ReqType
<1> HIDE DEF p1
<1>11. Requester(p1, n)
  BY <1>4, <1>7, <1>9, <1>10 DEF Requester, OrderedFrom, Drained, n
<1>12. Requester(p2, n) /\ p2.cq = cq
  BY <1>1, <1>10, <1>11, reschedule_reqType
<1> HIDE DEF p2
<1>13. /\ p2 \in ReqType /\ Drained(p2, n)
       /\ InOrder(p2.waiting, p2.sending, p2.submitted, Len(p2.wqe), n)
  BY <1>1, <1>12, RequesterFacts
<1>14. /\ p3 \in ReqType /\ p3.cq = p2.cq /\ p3.waiting = p2.waiting
       /\ p3.sending = p2.sending /\ p3.submitted = p2.submitted
       /\ p3.wqe = p2.wqe /\ p3.state = p2.state
  BY <1>8, <1>13 DEF ReqType
<1> HIDE DEF p3
<1>15. Requester(p3, n) /\ Len(p3.cq) = n
  BY <1>5, <1>7, <1>12, <1>13, <1>14, RequesterIntro
<1> QED
  BY <1>2, <1>15 DEF ReqInv

(* A work request that has left its list fails and takes the QP with it.   *)
LEMMA CompletionErrorType ==
  ASSUME NEW q, Requester(q, Len(q.cq) + 1), NEW id, id = Len(q.cq) + 1,
         id \in DOMAIN q.wqe
  PROVE  ReqInv(CompletionError(q, id))
<1>1. Len(q.cq) \in Nat /\ q.wqe \in Seq(SwqeType)
  BY ReqFields DEF Requester
<1>2. q.wqe[id] \in SwqeType
  BY <1>1
<1>3. q.wqe[id].status \in Statuses
  BY <1>2 DEF SwqeType
<1> DEFINE p == insert_send_wc(q, id, q.wqe[id].status)
<1>4. id \in Nat
  BY <1>1
<1>5. Requester(p, id) /\ Len(p.cq) = id
  BY <1>3, <1>4, insert_send_wcType
<1> HIDE DEF p
<1>6. ReqInv(flush_req(p))
  BY <1>5, flush_reqType DEF ReqInv
<1> QED
  BY <1>6 DEF CompletionError, p

-----------------------------------------------------------------------------
(* Sending and retrying *)

LEMMA SwqeFields ==
  ASSUME NEW e \in SwqeType
  PROVE  /\ e.wr \in WrType /\ e.wr.pkts \in Int /\ e.wr.op \in WrOpcodes
         /\ e.based_psn \in Int /\ e.expected_psn \in Int
         /\ e.sent_packets \in Int /\ e.ack_packets \in Int
         /\ e.retry_cnt \in Int /\ e.rnr_retry \in Int /\ e.status \in Statuses
<1>1. /\ e.wr \in WRs
      /\ e.based_psn \in Int /\ e.expected_psn \in Int
      /\ e.sent_packets \in Int /\ e.ack_packets \in Int
      /\ e.retry_cnt \in Int /\ e.rnr_retry \in Int /\ e.status \in Statuses
  BY DEF SwqeType
<1>2. e.wr \in WrType
  BY <1>1, ConstantTypes
<1> QED
  BY <1>1, <1>2 DEF WrType

LEMMA CancelStartedType ==
  ASSUME NEW q, NEW c \in Nat, Requester(q, c)
  PROVE  /\ Requester(CancelStarted(q), c) /\ CancelStarted(q).cq = q.cq
         /\ CancelStarted(q).waiting = q.waiting
         /\ CancelStarted(q).sending = q.sending
<1> DEFINE wqe == [i \in DOMAIN q.wqe |->
                     IF InList(Started(q), i) THEN Cancel(q.wqe[i])
                     ELSE q.wqe[i]]
<1>1. /\ q \in ReqType /\ q.wqe \in Seq(SwqeType) /\ Len(q.wqe) \in Nat
      /\ DOMAIN q.wqe = 1 .. Len(q.wqe)
  BY RequesterFacts, ReqFields
<1>2. ASSUME NEW e \in SwqeType PROVE Cancel(e) \in SwqeType
  BY DEF Cancel, SwqeType
<1>3. wqe \in Seq(SwqeType) /\ Len(wqe) = Len(q.wqe)
  <2>1. \A i \in 1 .. Len(q.wqe) : q.wqe[i] \in SwqeType
    BY <1>1
  <2>2. wqe \in [1 .. Len(q.wqe) -> SwqeType]
    BY <1>1, <1>2, <2>1
  <2> HIDE DEF wqe
  <2> QED BY <1>1, <2>2, SeqDef
<1>4. CancelStarted(q) = [q EXCEPT !.wqe = wqe]
  BY DEF CancelStarted
<1> HIDE DEF wqe
<1>5. /\ [q EXCEPT !.wqe = wqe].waiting = q.waiting
      /\ [q EXCEPT !.wqe = wqe].sending = q.sending
  BY <1>1 DEF ReqType
<1> QED
  BY <1>3, <1>4, <1>5, WqeUpdate

LEMMA ResendType ==
  ASSUME NEW q, NEW c \in Nat, Requester(q, c)
  PROVE  Requester(Resend(q), c) /\ Resend(q).cq = q.cq
<1> DEFINE r == CancelStarted(q)
           s == r.waiting \o r.sending
           e == <<>>
           p == [r EXCEPT !.waiting = e, !.sending = s]
<1>1. /\ Requester(r, c) /\ r.cq = q.cq
      /\ r.waiting = q.waiting /\ r.sending = q.sending
  BY CancelStartedType
<1>2. Resend(q) = p
  BY <1>1 DEF Resend, Started
<1> HIDE DEF r
<1>3. /\ r \in ReqType /\ CompletedInOrder(r.cq) /\ s \in Seq(Nat)
      /\ Drained(r, c)
      /\ InOrder(e, s, r.submitted, Len(r.wqe), c)
  BY <1>1, RequesterFacts, InOrderResend
<1>4. e \in Seq(Nat)
  OBVIOUS
<1> HIDE DEF s, e
<1>5. /\ p \in ReqType /\ p.cq = r.cq /\ p.waiting = e /\ p.sending = s
      /\ p.submitted = r.submitted /\ p.wqe = r.wqe /\ p.state = r.state
  BY <1>3, <1>4 DEF ReqType
<1> HIDE DEF p
<1> QED
  BY <1>1, <1>2, <1>3, <1>5, RequesterIntro

LEMMA LocalAckTimeoutType ==
  ASSUME NEW q, NEW c \in Nat, Requester(q, c), q.waiting # <<>>
  PROVE  Requester(LocalAckTimeout(q), c) /\ LocalAckTimeout(q).cq = q.cq
<1> DEFINE id == Head(q.waiting)
           k  == q.wqe[id].retry_cnt - 1
           e  == [q.wqe[id] EXCEPT !.retry_cnt = k]
           p  == [q EXCEPT !.wqe[id] = e]
<1>1. q.wqe[id] \in SwqeType
  BY FirstWqe
<1>2. e \in SwqeType
  <2>1. k \in Int
    BY <1>1, SwqeFields
  <2> HIDE DEF k, id
  <2> QED BY <1>1, <2>1 DEF SwqeType
<1>3. Requester(p, c) /\ p.cq = q.cq
  <2> HIDE DEF e, id
  <2> QED BY <1>2, WqeSet
<1>4. LocalAckTimeout(q) = Resend(p)
  BY DEF LocalAckTimeout
<1> HIDE DEF p
<1> QED
  BY <1>3, <1>4, ResendType

LEMMA process_new_send_wrType ==
  ASSUME NEW q, NEW c \in Nat, Requester(q, c), q.submitted # <<>>
  PROVE  /\ Requester(process_new_send_wr(q), c)
         /\ process_new_send_wr(q).cq = q.cq
<1> DEFINE id == Head(q.submitted)
           w  == q.wqe[id].wr
           m  == q.expected_psn + NumOfPsns(w)
           nr == IF pib_is_wr_opcode_rd_atomic(w.op) THEN q.nr_rd_atomic + 1
                 ELSE q.nr_rd_atomic
           z  == 0
           e  == [q.wqe[id] EXCEPT !.based_psn = q.expected_psn,
                                   !.expected_psn = m,
                                   !.ack_packets = z, !.sent_packets = z,
                                   !.retry_cnt = RetryCnt,
                                   !.rnr_retry = RnrRetry]
           u  == Tail(q.submitted)
           s  == Append(q.sending, id)
           r  == [q EXCEPT !.wqe[id] = e]
           p  == [r EXCEPT !.submitted = u, !.sending = s,
                           !.nr_rd_atomic = nr, !.expected_psn = m]
<1>1. /\ q.wqe[id] \in SwqeType /\ q \in ReqType /\ CompletedInOrder(q.cq)
      /\ q.nr_rd_atomic \in Int /\ q.expected_psn \in Int
  <2>1. q.wqe[id] \in SwqeType /\ q \in ReqType /\ CompletedInOrder(q.cq)
    BY RequesterFacts, FirstWqe
  <2>2. q.nr_rd_atomic \in Int /\ q.expected_psn \in Int
    BY <2>1 DEF ReqType
  <2> QED BY <2>1, <2>2
<1>2. w.pkts \in Int
  BY <1>1, SwqeFields
<1>3. m \in Int /\ nr \in Int /\ z \in Int
  BY <1>1, <1>2 DEF NumOfPsns
<1>4. process_new_send_wr(q) = p
  BY <1>1 DEF process_new_send_wr, ReqType
<1>5. /\ s \in Seq(Nat) /\ u \in Seq(Nat)
      /\ InOrder(q.waiting, s, u, Len(q.wqe), c)
  BY RequesterFacts, InOrderStart
<1> HIDE DEF id, w, m, nr, z, u, s
<1>6. e \in SwqeType
  <2>1. RetryCnt \in Int /\ RnrRetry \in Int
    BY ConstantTypes
  <2> QED BY <1>1, <1>3, <2>1 DEF SwqeType
<1> HIDE DEF e
<1>7. /\ r \in ReqType /\ Len(r.wqe) = Len(q.wqe) /\ r.cq = q.cq
      /\ r.waiting = q.waiting /\ Drained(r, c)
  <2>1. Requester(r, c)
    BY <1>6, WqeSet
  <2>2. q.wqe \in Seq(SwqeType)
    BY <1>1, ReqFields
  <2>3. Len([q.wqe EXCEPT ![id] = e]) = Len(q.wqe)
    BY <1>6, <2>2, SetElement
  <2> QED BY <1>1, <2>1, <2>3 DEF ReqType, Requester
<1> HIDE DEF r
<1>8. /\ p \in ReqType /\ p.cq = r.cq /\ p.waiting = r.waiting
      /\ p.sending = s /\ p.submitted = u /\ p.wqe = r.wqe
      /\ p.state = r.state
  BY <1>3, <1>5, <1>7 DEF ReqType
<1> HIDE DEF p
<1> QED
  BY <1>1, <1>4, <1>5, <1>7, <1>8, RequesterIntro

(* The opcode of every packet of every work request is one of a request.   *)
LEMMA RequestOpcodeType ==
  ASSUME NEW op \in WrOpcodes, NEW all, NEW sent
  PROVE  RequestOpcode(op, all, sent) \in RequestOpcodes
<1> DEFINE pos == Position(all, sent)
<1>1. pos \in {"ONLY", "FIRST", "MIDDLE", "LAST"}
  <2>1. CASE all = 1
    BY <2>1 DEF Position
  <2>2. CASE all # 1 /\ sent = 0
    BY <2>2 DEF Position
  <2>3. CASE all # 1 /\ sent # 0 /\ all = sent + 1
    BY <2>3 DEF Position
  <2>4. CASE all # 1 /\ sent # 0 /\ all # sent + 1
    BY <2>4 DEF Position
  <2> QED BY <2>1, <2>2, <2>3, <2>4
<1> HIDE DEF pos
<1> USE DEF RequestOpcode, RequestOpcodes, SendOpcodes, WriteOpcodes,
            AtomicOpcodes, WrOpcodes
<1>2. CASE op = "READ"
  BY <1>2
<1>3. CASE op = "CAS"
  BY <1>3
<1>4. CASE op = "FADD"
  BY <1>4
<1>5. CASE op = "SEND"
  BY <1>1, <1>5 DEF pos
<1>6. CASE op = "SEND_INV"
  BY <1>1, <1>6 DEF pos
<1>7. CASE op = "WRITE"
  BY <1>1, <1>7 DEF pos
<1>8. CASE op = "WRITE_IMM"
  BY <1>1, <1>8 DEF pos
<1> QED
  BY <1>2, <1>3, <1>4, <1>5, <1>6, <1>7, <1>8

LEMMA RequestPacketType ==
  ASSUME NEW q, NEW id \in Nat, q.wqe[id] \in SwqeType
  PROVE  RequestPacket(q, id) \in RequestType
<1> DEFINE e == q.wqe[id]
           op == RequestOpcode(e.wr.op, e.wr.pkts, e.sent_packets)
           psn == Masked(e.based_psn + e.sent_packets)
           dmalen == IF e.wr.op = "READ" THEN e.wr.pkts - e.sent_packets
                     ELSE e.wr.pkts
           rkey == e.wr.fault # "remote"
<1>1. /\ e.wr.op \in WrOpcodes /\ e.based_psn \in Int
      /\ e.sent_packets \in Int /\ e.wr.pkts \in Int
  BY SwqeFields
<1>2. op \in RequestOpcodes
  BY <1>1, RequestOpcodeType
<1>3. psn \in Int
  <2>1. e.based_psn + e.sent_packets \in Int
    BY <1>1
  <2>2. psn \in 0 .. PsnMod - 1
    <3> HIDE DEF e
    <3> QED BY <2>1, MaskedType
  <2> QED BY <2>2, PsnModAssumption
<1>4. dmalen \in Int
  BY <1>1
<1>5. rkey \in BOOLEAN
  OBVIOUS
<1>6. RequestPacket(q, id) = [op |-> op, psn |-> psn, wr |-> id,
          k |-> e.sent_packets, dmalen |-> dmalen, rkey |-> rkey]
  BY DEF RequestPacket
<1> HIDE DEF e, op, psn, dmalen, rkey
<1> QED
  BY <1>1, <1>2, <1>3, <1>4, <1>5, <1>6 DEF RequestType

LEMMA SetStatusType ==
  ASSUME NEW q, NEW c \in Nat, Requester(q, c), NEW id \in DOMAIN q.wqe,
         NEW status \in Statuses
  PROVE  /\ Requester(SetStatus(q, id, status), c)
         /\ SetStatus(q, id, status).cq = q.cq
         /\ SetStatus(q, id, status).waiting = q.waiting
         /\ SetStatus(q, id, status).sending = q.sending
<1> DEFINE e == [q.wqe[id] EXCEPT !.status = status]
           p == [q EXCEPT !.wqe[id] = e]
<1>1. q.wqe[id] \in SwqeType /\ q \in ReqType
  BY FirstWqe, RequesterFacts
<1>2. e \in SwqeType
  BY <1>1 DEF SwqeType
<1>3. SetStatus(q, id, status) = p
  BY DEF SetStatus
<1> HIDE DEF e
<1>4. Requester(p, c) /\ p.cq = q.cq
  BY <1>2, WqeSet
<1>5. p.waiting = q.waiting /\ p.sending = q.sending
  BY <1>1 DEF ReqType
<1> HIDE DEF p
<1> QED
  BY <1>3, <1>4, <1>5

LEMMA TransmitType ==
  ASSUME NEW q, NEW c \in Nat, Requester(q, c), q.sending # <<>>,
         NEW id \in DOMAIN q.wqe
  PROVE  Requester(Transmit(q, id), c) /\ Transmit(q, id).cq = q.cq
<1> DEFINE e   == q.wqe[id]
           pkt == RequestPacket(q, id)
           tx  == <<pkt>>
           k   == IF e.wr.op = "READ" THEN e.sent_packets
                  ELSE e.sent_packets + 1
           f   == [e EXCEPT !.sent_packets = k]
           n   == IF e.wr.op = "READ" THEN q.nr_contig_requests
                  ELSE IF WithReth(pkt.op) THEN 1 ELSE q.nr_contig_requests + 1
           r   == [q EXCEPT !.wqe[id] = f]
           q1  == [r EXCEPT !.tx = tx, !.nr_contig_requests = n]
<1>1. id \in Nat /\ e \in SwqeType /\ q \in ReqType
  <2>1. q \in ReqType /\ e \in SwqeType
    BY RequesterFacts, FirstWqe
  <2>2. DOMAIN q.wqe = 1 .. Len(q.wqe) /\ Len(q.wqe) \in Nat
    BY <2>1, ReqFields
  <2> QED BY <2>1, <2>2
<1>2. e.sent_packets \in Int /\ k \in Int
  <2>1. e.sent_packets \in Int
    BY <1>1, SwqeFields
  <2> HIDE DEF e
  <2> QED BY <2>1
<1>3. q.nr_contig_requests \in Nat
  BY <1>1 DEF ReqType
<1>4. n \in Nat
  <2> HIDE DEF e, pkt
  <2> QED BY <1>3
<1>5. tx \in Seq(RequestType)
  <2>1. pkt \in RequestType
    BY <1>1, RequestPacketType
  <2> HIDE DEF pkt
  <2> QED BY <2>1
<1>6. \/ Transmit(q, id) = q1
      \/ Transmit(q, id) = ToWaiting(q1)
  <2> DEFINE p == [q EXCEPT
                     !.tx = tx,
                     !.wqe[id].sent_packets =
                        IF e.wr.op = "READ" THEN @ ELSE @ + 1,
                     !.nr_contig_requests =
                        IF e.wr.op = "READ" THEN @
                        ELSE IF WithReth(pkt.op) THEN 1 ELSE @ + 1]
  <2>1. \/ Transmit(q, id) = p
        \/ Transmit(q, id) = ToWaiting(p)
    <3>1. Transmit(q, id) = IF e.wr.op # "READ" /\ e.sent_packets + 1 < e.wr.pkts
                            THEN p ELSE ToWaiting(p)
      BY DEF Transmit
    <3> HIDE DEF p
    <3> QED BY <3>1
  <2>2. p = [q EXCEPT !.tx = tx, !.wqe[id].sent_packets = k,
                      !.nr_contig_requests = n]
    OBVIOUS
  <2>3. p = q1
    <3> HIDE DEF tx, k, n, p
    <3> QED BY <1>1, <2>2 DEF ReqType
  <2> QED BY <2>1, <2>3
<1> HIDE DEF k, n, tx, pkt
<1>7. f \in SwqeType
  <2> HIDE DEF e
  <2> QED BY <1>1, <1>2 DEF SwqeType
<1> HIDE DEF e, f
<1>8. Requester(r, c) /\ r.cq = q.cq
  BY <1>7, WqeSet
<1>9. r.sending = q.sending
  BY <1>1 DEF ReqType
<1> HIDE DEF r
<1>10. Requester(q1, c) /\ q1.cq = r.cq /\ q1.sending = r.sending
  <2>1. /\ r \in ReqType /\ CompletedInOrder(r.cq) /\ Drained(r, c)
        /\ InOrder(r.waiting, r.sending, r.submitted, Len(r.wqe), c)
    BY <1>8, RequesterFacts
  <2>2. /\ q1 \in ReqType /\ q1.cq = r.cq /\ q1.waiting = r.waiting
        /\ q1.sending = r.sending /\ q1.submitted = r.submitted
        /\ q1.wqe = r.wqe /\ q1.state = r.state
    BY <1>4, <1>5, <2>1 DEF ReqType
  <2> HIDE DEF q1
  <2> QED BY <2>1, <2>2, RequesterIntro
<1> HIDE DEF q1
<1> QED
  BY <1>6, <1>8, <1>9, <1>10, ToWaitingType

LEMMA pib_process_rc_qp_requestType ==
  ASSUME NEW q, NEW c \in Nat, Requester(q, c), q.sending # <<>>,
         NEW id \in DOMAIN q.wqe
  PROVE  /\ Requester(pib_process_rc_qp_request(q, id), c)
         /\ pib_process_rc_qp_request(q, id).cq = q.cq
<1>1. /\ "RETRY_EXC_ERR" \in Statuses /\ "RNR_RETRY_EXC_ERR" \in Statuses
      /\ "LOC_PROT_ERR" \in Statuses
  BY DEF Statuses
<1>2. /\ Requester(SetStatus(q, id, "RETRY_EXC_ERR"), c)
      /\ SetStatus(q, id, "RETRY_EXC_ERR").cq = q.cq
      /\ Requester(SetStatus(q, id, "RNR_RETRY_EXC_ERR"), c)
      /\ SetStatus(q, id, "RNR_RETRY_EXC_ERR").cq = q.cq
      /\ Requester(SetStatus(q, id, "LOC_PROT_ERR"), c)
      /\ SetStatus(q, id, "LOC_PROT_ERR").cq = q.cq
  BY <1>1, SetStatusType
<1>3. Requester(Transmit(q, id), c) /\ Transmit(q, id).cq = q.cq
  BY TransmitType
<1> QED
  BY <1>2, <1>3 DEF pib_process_rc_qp_request

(* The first sending WQE is failed for good or served.  It is failed only  *)
(* when nothing is waiting, so that completions stay in order.             *)
LEMMA process_send_wrType ==
  ASSUME NEW q, ReqInv(q), q.sending # <<>>,
         q.wqe[Head(q.sending)].status # "SUCCESS" => q.waiting = <<>>
  PROVE  ReqInv(process_send_wr(q))
<1> DEFINE id == Head(q.sending)
           s  == Tail(q.sending)
           c  == Len(q.cq)
           p  == [q EXCEPT !.sending = s]
<1>0. c \in Nat
  BY ReqFields DEF ReqInv, Requester
<1>1. Requester(q, c) /\ id \in DOMAIN q.wqe
  BY <1>0, ListsExist DEF ReqInv
<1>2. CASE q.wqe[id].status = "SUCCESS"
  <2>1. process_send_wr(q) = pib_process_rc_qp_request(q, id)
    BY <1>2 DEF process_send_wr
  <2>2. /\ Requester(pib_process_rc_qp_request(q, id), c)
        /\ pib_process_rc_qp_request(q, id).cq = q.cq
    <3> HIDE DEF id, c
    <3> QED BY <1>0, <1>1, pib_process_rc_qp_requestType
  <2> QED BY <2>1, <2>2 DEF ReqInv
<1>3. CASE q.wqe[id].status # "SUCCESS"
  <2>1. q.waiting = <<>>
    BY <1>3
  <2>2. process_send_wr(q) = CompletionError(p, id)
    BY <1>3 DEF process_send_wr
  <2>3. /\ q \in ReqType /\ CompletedInOrder(q.cq)
        /\ q.sending \in Seq(Nat) /\ q.submitted \in Seq(Nat)
        /\ InOrder(<<>>, q.sending, q.submitted, Len(q.wqe), c)
    BY <1>0, <1>1, <2>1, RequesterFacts
  <2>4. id = c + 1 /\ s \in Seq(Nat) /\ InOrder(<<>>, s, q.submitted, Len(q.wqe), c + 1)
    <3> DEFINE t == q.sending
    <3>1. t \in Seq(Nat) /\ t # <<>> /\ id = Head(t) /\ s = Tail(t)
          /\ InOrder(<<>>, t, q.submitted, Len(q.wqe), c)
      BY <2>3
    <3> HIDE DEF t, id, s, c
    <3> QED BY <1>0, <2>3, <3>1, InOrderFirst
  <2> HIDE DEF id, s, c
  <2>5. /\ p \in ReqType /\ p.cq = q.cq /\ p.waiting = q.waiting
        /\ p.sending = s /\ p.submitted = q.submitted /\ p.wqe = q.wqe
        /\ p.state = q.state
    BY <2>3, <2>4 DEF ReqType
  <2> HIDE DEF p
  <2>d. Drained(q, c + 1)
    BY <1>0, <1>1, DrainedLists DEF Drained
  <2>6. Requester(p, c + 1)
    BY <2>1, <2>3, <2>4, <2>5, <2>d, RequesterIntro
  <2>7. id \in DOMAIN p.wqe /\ Len(p.cq) = c
    BY <1>1, <2>5 DEF c
  <2>8. ReqInv(CompletionError(p, id))
    BY <2>4, <2>6, <2>7, CompletionErrorType
  <2> QED BY <2>2, <2>8
<1> QED
  BY <1>2, <1>3

LEMMA StartNextType ==
  ASSUME NEW q, ReqInv(q)
  PROVE  ReqInv(StartNext(q))
<1>0. Len(q.cq) \in Nat
  BY ReqFields DEF ReqInv, Requester
<1>1. CASE q.sending = <<>> /\ MayStart(q)
  <2>1. q.submitted # <<>>
    BY <1>1 DEF MayStart
  <2>2. /\ Requester(process_new_send_wr(q), Len(q.cq))
        /\ process_new_send_wr(q).cq = q.cq
    BY <1>0, <2>1, process_new_send_wrType DEF ReqInv
  <2>3. StartNext(q) = process_new_send_wr(q)
    BY <1>1 DEF StartNext
  <2> QED BY <2>2, <2>3 DEF ReqInv
<1>2. CASE ~ (q.sending = <<>> /\ MayStart(q))
  BY <1>2 DEF StartNext
<1> QED
  BY <1>1, <1>2

LEMMA SendFirstType ==
  ASSUME NEW q, ReqInv(q)
  PROVE  ReqInv(SendFirst(q))
<1>1. CASE q.sending = <<>> \/ HeldBack(q)
  BY <1>1 DEF SendFirst
<1>2. CASE ~ (q.sending = <<>> \/ HeldBack(q))
  <2>1. /\ q.sending # <<>>
        /\ q.wqe[Head(q.sending)].status # "SUCCESS" => q.waiting = <<>>
    BY <1>2 DEF HeldBack
  <2>2. SendFirst(q) = process_send_wr(q)
    BY <1>2 DEF SendFirst
  <2> QED BY <2>1, <2>2, process_send_wrType
<1> QED
  BY <1>1, <1>2

-----------------------------------------------------------------------------
(* The requester's answers *)

LEMMA PostponeType ==
  ASSUME NEW q, NEW c \in Nat, Requester(q, c)
  PROVE  /\ Requester(postpone_local_ack_timeout(q), c)
         /\ postpone_local_ack_timeout(q).cq = q.cq
<1> DEFINE wqe == [i \in DOMAIN q.wqe |->
                     IF InList(q.waiting, i)
                     THEN [q.wqe[i] EXCEPT !.retry_cnt = RetryCnt]
                     ELSE q.wqe[i]]
<1>1. /\ q \in ReqType /\ q.wqe \in Seq(SwqeType) /\ Len(q.wqe) \in Nat
      /\ DOMAIN q.wqe = 1 .. Len(q.wqe)
  BY RequesterFacts, ReqFields
<1>2. ASSUME NEW e \in SwqeType PROVE [e EXCEPT !.retry_cnt = RetryCnt] \in SwqeType
  <2>1. RetryCnt \in Int
    BY ConstantTypes
  <2> QED BY <2>1 DEF SwqeType
<1>3. wqe \in Seq(SwqeType) /\ Len(wqe) = Len(q.wqe)
  <2>1. \A i \in 1 .. Len(q.wqe) : q.wqe[i] \in SwqeType
    BY <1>1
  <2>2. wqe \in [1 .. Len(q.wqe) -> SwqeType]
    BY <1>1, <1>2, <2>1
  <2> HIDE DEF wqe
  <2> QED BY <1>1, <2>2, SeqDef
<1>4. postpone_local_ack_timeout(q) = [q EXCEPT !.wqe = wqe]
  BY DEF postpone_local_ack_timeout
<1> HIDE DEF wqe
<1> QED
  BY <1>3, <1>4, WqeUpdate

(* The place of a matching WQE is a place in the lists.                    *)
LEMMA MatchExists ==
  ASSUME NEW q, NEW c \in Nat, Requester(q, c), NEW psn,
         match_send_wqe(q, psn) # {}
  PROVE  LET i == Min(match_send_wqe(q, psn))
         IN  /\ i \in 1 .. Len(Started(q)) /\ Started(q)[i] = c + i
             /\ Started(q)[i] \in DOMAIN q.wqe
<1> DEFINE hits == match_send_wqe(q, psn)
           all  == Started(q)
<1>1. /\ all \in Seq(Nat) /\ Len(all) \in Nat
      /\ \A i \in 1 .. Len(all) : all[i] = c + i /\ all[i] \in DOMAIN q.wqe
  BY ListsExist
<1>2. hits \subseteq 1 .. Len(all)
  BY <1>1 DEF match_send_wqe
<1> HIDE DEF hits, all
<1>3. hits \subseteq Nat /\ hits # {}
  BY <1>1, <1>2 DEF hits
<1>4. Min(hits) \in hits
  BY <1>3, MinIsElement
<1> QED
  BY <1>1, <1>2, <1>4 DEF hits, all

LEMMA set_send_wqe_to_errorType ==
  ASSUME NEW q, NEW c \in Nat, Requester(q, c), NEW psn, NEW status \in Statuses
  PROVE  /\ Requester(set_send_wqe_to_error(q, psn, status), c)
         /\ set_send_wqe_to_error(q, psn, status).cq = q.cq
<1> DEFINE hits == match_send_wqe(q, psn)
           id   == Started(q)[Min(hits)]
<1>1. CASE hits = {}
  BY <1>1 DEF set_send_wqe_to_error
<1>2. CASE hits # {}
  <2>1. id \in DOMAIN q.wqe
    BY <1>2, MatchExists
  <2>2. set_send_wqe_to_error(q, psn, status) = SetStatus(q, id, status)
    BY <1>2 DEF set_send_wqe_to_error
  <2> HIDE DEF id, hits
  <2> QED BY <2>1, <2>2, SetStatusType
<1> QED
  BY <1>1, <1>2

LEMMA CompleteStartedType ==
  ASSUME NEW q, ReqInv(q), NEW n \in 0 .. Len(Started(q))
  PROVE  /\ ReqInv(CompleteStarted(q, n))
         /\ Len(CompleteStarted(q, n).cq) = Len(q.cq) + n
         /\ CompleteStarted(q, n).wqe = q.wqe
         /\ Len(Started(CompleteStarted(q, n))) = Len(Started(q)) - n
<1> DEFINE all == Started(q)
           wcs == [i \in 1 .. n |-> [wr |-> all[i], status |-> "SUCCESS"]]
           c   == Len(q.cq)
           r   == DropStarted(q, n)
           cq  == q.cq \o wcs
           psn == IF n = 0 THEN r.psn ELSE Masked(q.wqe[all[n]].expected_psn)
           p   == [r EXCEPT !.cq = cq, !.psn = psn]
<1>1. /\ q \in ReqType /\ CompletedInOrder(q.cq) /\ q.cq \in Seq(SendWc)
      /\ c \in Nat /\ Requester(q, c)
  BY ReqFields DEF SendWc, ReqInv, Requester
<1>2. /\ Requester(r, c + n) /\ r.cq = q.cq /\ r.wqe = q.wqe
      /\ Len(Started(r)) = Len(all) - n
  BY <1>1, DropStartedType
<1>3. /\ all \in Seq(Nat) /\ Len(all) \in Nat
      /\ \A i \in 1 .. Len(all) : all[i] = c + i /\ all[i] \in DOMAIN q.wqe
  BY <1>1, ListsExist
<1>4. CompleteStarted(q, n) = p
  BY <1>2 DEF CompleteStarted
<1> HIDE DEF all, r
<1>5. Consecutive(all, c) /\ n \in Nat
  BY <1>3 DEF Consecutive, all
<1>6. "SUCCESS" \in Statuses
  BY DEF Statuses
<1>7. cq \in Seq(SendWc) /\ Len(cq) = c + n /\ CompletedInOrder(cq)
  BY <1>1, <1>3, <1>5, <1>6, CompleteInOrder DEF all
<1>8. r \in ReqType
  BY <1>2 DEF Requester
<1>9. psn \in Int
  <2>1. r.psn \in Int
    BY <1>8 DEF ReqType
  <2>2. CASE n # 0
    <3>1. n \in 1 .. Len(all)
      BY <1>3, <1>5, <2>2 DEF all
    <3>2. all[n] \in DOMAIN q.wqe
      BY <1>3, <3>1
    <3>3. q.wqe[all[n]].expected_psn \in Int
      BY <1>1, <3>2, FirstWqe, SwqeFields
    <3> DEFINE x == q.wqe[all[n]].expected_psn
    <3> HIDE DEF x
    <3>4. Masked(x) \in 0 .. PsnMod - 1
      BY <3>3, MaskedType DEF x
    <3>5. Masked(x) \in Int
      BY <3>4, PsnModAssumption
    <3> QED BY <2>2, <3>5 DEF x
  <2> QED BY <2>1, <2>2
<1> HIDE DEF wcs, cq, psn
<1>10. /\ p \in ReqType /\ p.cq = cq /\ p.waiting = r.waiting
       /\ p.sending = r.sending /\ p.submitted = r.submitted /\ p.wqe = r.wqe
       /\ p.state = r.state
  BY <1>7, <1>8, <1>9 DEF ReqType, SendWc
<1> HIDE DEF p
<1>11. Requester(p, c + n)
  BY <1>2, <1>7, <1>10 DEF Requester, OrderedFrom, Drained
<1>12. Started(p) = Started(r)
  BY <1>10 DEF Started
<1> QED
  BY <1>2, <1>4, <1>7, <1>10, <1>11, <1>12 DEF ReqInv, all

(* The oldest started work request fails.                                  *)
LEMMA FailFirst ==
  ASSUME NEW q, ReqInv(q), Len(Started(q)) >= 1, NEW id, id = Len(q.cq) + 1
  PROVE  ReqInv(CompletionError(DropStarted(q, 1), id))
<1> DEFINE c == Len(q.cq)
           p == DropStarted(q, 1)
<1>1. c \in Nat /\ Requester(q, c) /\ Len(Started(q)) \in Nat
  BY ReqFields, ListsExist DEF ReqInv, Requester
<1>2. 1 \in 0 .. Len(Started(q)) /\ 1 \in 1 .. Len(Started(q))
  BY <1>1
<1>3. Requester(p, c + 1) /\ p.cq = q.cq /\ p.wqe = q.wqe
  BY <1>1, <1>2, DropStartedType
<1>4. id \in DOMAIN q.wqe
  BY <1>1, <1>2, ListsExist
<1> HIDE DEF p
<1>5. ReqInv(CompletionError(p, id))
  BY <1>3, <1>4, CompletionErrorType
<1> QED
  BY <1>5 DEF p

LEMMA receive_ACK_responseType ==
  ASSUME NEW q, ReqInv(q), NEW psn \in Int
  PROVE  ReqInv(receive_ACK_response(q, psn))
<1> DEFINE all == Started(q)
           out == [i \in DOMAIN all |-> process_acknowledge(q.wqe[all[i]], psn)]
           cut == {i \in DOMAIN all : out[i] # "COMPLETE"}
           n   == IF cut = {} THEN Len(all) ELSE Min(cut) - 1
           q1  == CompleteStarted(q, n)
           id  == all[n + 1]
           c   == Len(q.cq)
           v   == get_psn_diff(psn, q.wqe[id].based_psn) + 1
           q2  == [q1 EXCEPT !.wqe[id].ack_packets = v]
           q3  == SetStatus(q1, id, "BAD_RESP_ERR")
<1>1. /\ c \in Nat /\ Requester(q, c) /\ all \in Seq(Nat) /\ Len(all) \in Nat
      /\ \A i \in 1 .. Len(all) : all[i] = c + i /\ all[i] \in DOMAIN q.wqe
  BY ReqFields, ListsExist DEF ReqInv, Requester
<1>2. \/ cut = {} /\ receive_ACK_response(q, psn) = postpone_local_ack_timeout(q1)
      \/ cut # {} /\ \/ receive_ACK_response(q, psn) = postpone_local_ack_timeout(q1)
                     \/ receive_ACK_response(q, psn) = postpone_local_ack_timeout(q2)
                     \/ receive_ACK_response(q, psn)
                          = CompletionError(DropStarted(q1, 1), id)
                     \/ receive_ACK_response(q, psn)
                          = CompletionError(DropStarted(q3, 1), id)
  <2> HIDE DEF q1, q2, q3, id
  <2>1. receive_ACK_response(q, psn) =
          IF cut = {} THEN postpone_local_ack_timeout(q1)
          ELSE CASE out[n + 1] = "ERROR" -> CompletionError(DropStarted(q1, 1), id)
                 [] out[n + 1] = "BAD_RESP" ->
                      CompletionError(DropStarted(q3, 1), id)
                 [] out[n + 1] = "CONTINUE" -> postpone_local_ack_timeout(q2)
                 [] OTHER -> postpone_local_ack_timeout(q1)
    BY DEF receive_ACK_response, q1, q2, q3, id
  <2> DEFINE o == out[n + 1]
             empty == cut = {}
  <2> HIDE DEF o, empty, all, out, cut, n
  <2>2. receive_ACK_response(q, psn) =
          IF empty THEN postpone_local_ack_timeout(q1)
          ELSE CASE o = "ERROR" -> CompletionError(DropStarted(q1, 1), id)
                 [] o = "BAD_RESP" -> CompletionError(DropStarted(q3, 1), id)
                 [] o = "CONTINUE" -> postpone_local_ack_timeout(q2)
                 [] OTHER -> postpone_local_ack_timeout(q1)
    BY <2>1 DEF o, empty
  <2>3. CASE o \notin {"ERROR", "BAD_RESP", "CONTINUE"}
    BY <2>2, <2>3 DEF empty
  <2>4. CASE o = "ERROR"
    BY <2>2, <2>4 DEF empty
  <2>5. CASE o = "BAD_RESP"
    BY <2>2, <2>5 DEF empty
  <2>6. CASE o = "CONTINUE"
    BY <2>2, <2>6 DEF empty
  <2> QED BY <2>3, <2>4, <2>5, <2>6
<1>3. n \in 0 .. Len(all) /\ (cut # {} => n + 1 \in 1 .. Len(all))
  <2>1. cut \subseteq 1 .. Len(all)
    BY <1>1
  <2>2. cut # {} => Min(cut) \in cut
    <3>1. cut \subseteq Nat
      BY <1>1, <2>1
    <3> HIDE DEF cut
    <3> QED BY <3>1, MinIsElement
  <2> HIDE DEF cut, all
  <2> QED BY <1>1, <2>1, <2>2
<1> HIDE DEF cut, out, n
<1>4. /\ ReqInv(q1) /\ Len(q1.cq) = c + n /\ q1.wqe = q.wqe
      /\ Len(Started(q1)) = Len(all) - n
  BY <1>3, CompleteStartedType
<1> HIDE DEF q1
<1>5. c + n \in Nat /\ Requester(q1, c + n)
  BY <1>1, <1>3, <1>4 DEF ReqInv
<1>6. ReqInv(postpone_local_ack_timeout(q1))
  BY <1>4, <1>5, PostponeType DEF ReqInv
<1>7. ASSUME cut # {}
      PROVE  /\ ReqInv(postpone_local_ack_timeout(q2))
             /\ ReqInv(CompletionError(DropStarted(q1, 1), id))
             /\ ReqInv(CompletionError(DropStarted(q3, 1), id))
  <2>1. id = c + (n + 1) /\ id \in DOMAIN q1.wqe
    BY <1>1, <1>3, <1>4, <1>7
  <2> HIDE DEF id
  <2>2. q1.wqe[id] \in SwqeType
    BY <1>5, <2>1, FirstWqe
  <2>3. id = Len(q1.cq) + 1 /\ Len(Started(q1)) >= 1
    <3> DEFINE L == Len(q1.cq)
               S == Len(Started(q1))
               A == Len(all)
    <3> HIDE DEF L, S, A, c, all
    <3>1. id = L + 1 /\ S >= 1
      BY <1>1, <1>3, <1>4, <1>7, <2>1 DEF L, S, A
    <3> QED BY <3>1 DEF L, S
  <2>4. ReqInv(CompletionError(DropStarted(q1, 1), id))
    BY <1>4, <2>3, FailFirst
  <2>5. /\ Requester(q3, c + n) /\ q3.cq = q1.cq /\ q3.waiting = q1.waiting
        /\ q3.sending = q1.sending
    <3>1. "BAD_RESP_ERR" \in Statuses
      BY DEF Statuses
    <3> QED BY <1>5, <2>1, <3>1, SetStatusType
  <2> HIDE DEF q3
  <2>6. ReqInv(q3) /\ Started(q3) = Started(q1)
    BY <1>4, <2>5 DEF ReqInv, Started
  <2>7. ReqInv(CompletionError(DropStarted(q3, 1), id))
    BY <2>3, <2>5, <2>6, FailFirst
  <2>8. v \in Int
    <3>1. q.wqe[id].based_psn \in Int
      BY <1>4, <2>2, SwqeFields
    <3> DEFINE b == q.wqe[id].based_psn
    <3> HIDE DEF b
    <3>2. get_psn_diff(psn, b) \in Int
      BY <3>1, PsnDiffType DEF b
    <3> QED BY <3>2 DEF b
  <2> HIDE DEF v
  <2> DEFINE e == [q1.wqe[id] EXCEPT !.ack_packets = v]
  <2>9. e \in SwqeType
    BY <2>2, <2>8 DEF SwqeType
  <2>10. q2 = [q1 EXCEPT !.wqe[id] = e]
    OBVIOUS
  <2> HIDE DEF e, q2
  <2>11. Requester(q2, c + n) /\ q2.cq = q1.cq
    BY <1>5, <2>9, <2>10, WqeSet
  <2>12. ReqInv(postpone_local_ack_timeout(q2))
    BY <1>4, <1>5, <2>11, PostponeType DEF ReqInv
  <2> QED BY <2>4, <2>7, <2>12
<1> HIDE DEF q2, q3, id
<1> QED
  BY <1>2, <1>6, <1>7

LEMMA CompleteRdAtomicType ==
  ASSUME NEW q, ReqInv(q), Len(Started(q)) >= 1
  PROVE  ReqInv(CompleteRdAtomic(q))
<1> DEFINE r == CompleteStarted(q, 1)
           k == r.nr_rd_atomic - 1
           p == [r EXCEPT !.nr_rd_atomic = k]
<1>1. Len(q.cq) \in Nat /\ Len(Started(q)) \in Nat
  BY ReqFields, ListsExist DEF ReqInv, Requester
<1>2. ReqInv(r)
  <2>1. 1 \in 0 .. Len(Started(q))
    BY <1>1
  <2> QED BY <2>1, CompleteStartedType
<1>3. CompleteRdAtomic(q) = postpone_local_ack_timeout(p)
  BY DEF CompleteRdAtomic
<1> HIDE DEF r
<1>4. /\ r \in ReqType /\ Len(r.cq) \in Nat /\ r.nr_rd_atomic \in Int
      /\ Requester(r, Len(r.cq))
  <2>1. r \in ReqType /\ Requester(r, Len(r.cq))
    BY <1>2 DEF ReqInv, Requester
  <2> QED BY <2>1, ReqFields DEF ReqType
<1>5. k \in Int
  BY <1>4
<1> HIDE DEF k
<1>6. /\ p \in ReqType /\ p.cq = r.cq /\ p.waiting = r.waiting
      /\ p.sending = r.sending /\ p.submitted = r.submitted /\ p.wqe = r.wqe
      /\ p.state = r.state
  BY <1>4, <1>5 DEF ReqType
<1> HIDE DEF p
<1>7. Requester(p, Len(p.cq))
  BY <1>4, <1>6 DEF Requester, OrderedFrom, Drained
<1>8. /\ Requester(postpone_local_ack_timeout(p), Len(p.cq))
      /\ postpone_local_ack_timeout(p).cq = p.cq
  BY <1>4, <1>6, <1>7, PostponeType
<1> QED
  BY <1>3, <1>8 DEF ReqInv

LEMMA CnpNotifyType ==
  ASSUME NEW q, ReqInv(q)
  PROVE  /\ ReqInv(process_cnp_notify_request(q))
         /\ Started(process_cnp_notify_request(q)) = Started(q)
<1> DEFINE tx == <<CNP>>
           z  == 0
           k  == q.nr_contig_read_acks + 1
           p1 == [q EXCEPT !.tx = tx, !.nr_contig_read_acks = z]
           p2 == [q EXCEPT !.nr_contig_read_acks = k]
<1>1. q \in ReqType /\ Requester(q, Len(q.cq))
  BY DEF ReqInv, Requester
<1>2. tx \in Seq(RequestType)
  <2>1. CNP \in RequestType
    BY DEF CNP, RequestType
  <2> QED BY <2>1
<1>3. q.nr_contig_read_acks \in Nat
  BY <1>1 DEF ReqType
<1>4. z \in Nat /\ k \in Nat
  BY <1>3
<1>5. process_cnp_notify_request(q) = p1 \/ process_cnp_notify_request(q) = p2
  BY DEF process_cnp_notify_request
<1> HIDE DEF tx, z, k
<1>6. /\ p1 \in ReqType /\ p1.cq = q.cq /\ p1.waiting = q.waiting
      /\ p1.sending = q.sending /\ p1.submitted = q.submitted /\ p1.wqe = q.wqe
      /\ p1.state = q.state
  BY <1>1, <1>2, <1>4 DEF ReqType
<1>7. /\ p2 \in ReqType /\ p2.cq = q.cq /\ p2.waiting = q.waiting
      /\ p2.sending = q.sending /\ p2.submitted = q.submitted /\ p2.wqe = q.wqe
      /\ p2.state = q.state
  BY <1>1, <1>4 DEF ReqType
<1> HIDE DEF p1, p2
<1>8. ReqInv(p1) /\ Started(p1) = Started(q)
  BY <1>1, <1>6 DEF ReqInv, Requester, OrderedFrom, Drained, Started
<1>9. ReqInv(p2) /\ Started(p2) = Started(q)
  BY <1>1, <1>7 DEF ReqInv, Requester, OrderedFrom, Drained, Started
<1> QED
  BY <1>5, <1>8, <1>9

(* Between two steps, changing one WQE keeps the invariant and the lists.  *)
LEMMA WqeSetInv ==
  ASSUME NEW q, ReqInv(q), NEW id, NEW e \in SwqeType
  PROVE  /\ ReqInv([q EXCEPT !.wqe[id] = e])
         /\ Started([q EXCEPT !.wqe[id] = e]) = Started(q)
<1> DEFINE p == [q EXCEPT !.wqe[id] = e]
<1>1. q \in ReqType /\ Len(q.cq) \in Nat /\ Requester(q, Len(q.cq))
  BY ReqFields DEF ReqInv, Requester
<1>2. Requester(p, Len(q.cq)) /\ p.cq = q.cq
  BY <1>1, WqeSet
<1>3. p.waiting = q.waiting /\ p.sending = q.sending
  BY <1>1 DEF ReqType
<1> HIDE DEF p
<1>4. ReqInv(p) /\ Started(p) = Started(q)
  BY <1>2, <1>3 DEF ReqInv, Started
<1> QED
  BY <1>4 DEF p

LEMMA SetStatusInv ==
  ASSUME NEW q, ReqInv(q), NEW id \in DOMAIN q.wqe, NEW status \in Statuses
  PROVE  ReqInv(SetStatus(q, id, status))
<1>1. Len(q.cq) \in Nat /\ Requester(q, Len(q.cq))
  BY ReqFields DEF ReqInv, Requester
<1> QED
  BY <1>1, SetStatusType DEF ReqInv

LEMMA receive_RDMA_READ_responseType ==
  ASSUME NEW q, ReqInv(q), NEW p \in ResponseType
  PROVE  ReqInv(receive_RDMA_READ_response(q, p))
<1> DEFINE hits == match_send_wqe(q, p.psn)
           id   == Started(q)[Min(hits)]
           e    == q.wqe[id]
           skew == p.op = "READ_MIDDLE"
           d    == [wr |-> p.wr, k |-> p.k, skew |-> skew]
           data == Append(e.data, d)
           s    == e.sent_packets + 1
           a    == e.ack_packets + 1
           f    == [e EXCEPT !.sent_packets = s, !.ack_packets = a, !.data = data]
           r    == [q EXCEPT !.wqe[id] = f]
           q1   == process_cnp_notify_request(r)
<1>1. Len(q.cq) \in Nat /\ Requester(q, Len(q.cq))
  BY ReqFields DEF ReqInv, Requester
<1>2. \/ receive_RDMA_READ_response(q, p) = q
      \/ hits # {} /\ \/ receive_RDMA_READ_response(q, p)
                           = SetStatus(q, id, "BAD_RESP_ERR")
                      \/ receive_RDMA_READ_response(q, p)
                           = SetStatus(q, id, "LOC_PROT_ERR")
                      \/ receive_RDMA_READ_response(q, p) = q1
                      \/ receive_RDMA_READ_response(q, p) = CompleteRdAtomic(q1)
  <2>2. receive_RDMA_READ_response(q, p) =
      IF hits = {} THEN q
      ELSE IF e.wr.op # "READ" THEN SetStatus(q, id, "BAD_RESP_ERR")
      ELSE IF \/ Min(hits) # 1
              \/ get_psn_diff(e.based_psn + e.sent_packets, p.psn) # 0
              \/ get_psn_diff(e.based_psn + e.ack_packets, p.psn) # 0
           THEN q
      ELSE IF e.wr.fault = "local" THEN SetStatus(q, id, "LOC_PROT_ERR")
      ELSE IF e.sent_packets + 1 < e.wr.pkts THEN q1
      ELSE CompleteRdAtomic(q1)
    BY Zenon DEF receive_RDMA_READ_response
  <2> HIDE DEF hits, id, e, q1
  <2> QED BY <2>2
<1>3. ASSUME hits # {}
      PROVE  /\ ReqInv(SetStatus(q, id, "BAD_RESP_ERR"))
             /\ ReqInv(SetStatus(q, id, "LOC_PROT_ERR"))
             /\ ReqInv(q1) /\ ReqInv(CompleteRdAtomic(q1))
  <2>1. id \in DOMAIN q.wqe /\ Min(hits) \in 1 .. Len(Started(q))
    BY <1>1, <1>3, MatchExists
  <2>2. Len(Started(q)) \in Nat
    BY <1>1, ListsExist
  <2>3. e \in SwqeType
    BY <1>1, <2>1, FirstWqe
  <2>4. "BAD_RESP_ERR" \in Statuses /\ "LOC_PROT_ERR" \in Statuses
    BY DEF Statuses
  <2>5. /\ ReqInv(SetStatus(q, id, "BAD_RESP_ERR"))
        /\ ReqInv(SetStatus(q, id, "LOC_PROT_ERR"))
    <3> HIDE DEF id
    <3> QED BY <2>1, <2>4, SetStatusInv
  <2>6. s \in Int /\ a \in Int
    <3>1. e.sent_packets \in Int /\ e.ack_packets \in Int
      BY <2>3, SwqeFields
    <3> HIDE DEF e
    <3> QED BY <3>1
  <2>7. data \in Seq([wr : Nat, k : Int, skew : BOOLEAN])
    <3>1. e.data \in Seq([wr : Nat, k : Int, skew : BOOLEAN])
      <4> HIDE DEF e
      <4> QED BY <2>3 DEF SwqeType
    <3>2. d \in [wr : Nat, k : Int, skew : BOOLEAN]
      <4>1. p.wr \in Nat /\ p.k \in Int
        BY DEF ResponseType
      <4>2. skew \in BOOLEAN
        OBVIOUS
      <4> HIDE DEF skew
      <4> QED BY <4>1, <4>2
    <3> HIDE DEF d, e
    <3> QED BY <3>1, <3>2
  <2> HIDE DEF s, a, data
  <2>8. f \in SwqeType
    <3> HIDE DEF e
    <3> QED BY <2>3, <2>6, <2>7 DEF SwqeType
  <2> HIDE DEF f
  <2>9. ReqInv(r) /\ Started(r) = Started(q)
    BY <2>8, WqeSetInv
  <2> HIDE DEF r
  <2>10. ReqInv(q1) /\ Started(q1) = Started(q)
    BY <2>9, CnpNotifyType
  <2>11. Len(Started(q1)) >= 1
    <3> DEFINE L == Len(Started(q))
               m == Min(hits)
    <3> HIDE DEF L, m, hits
    <3>1. L >= 1
      BY <2>1, <2>2 DEF L, m
    <3> QED BY <2>10, <3>1 DEF L
  <2> HIDE DEF q1, id
  <2> QED BY <2>5, <2>10, <2>11, CompleteRdAtomicType
<1> HIDE DEF hits, id, q1
<1> QED
  BY <1>2, <1>3

LEMMA receive_Atomic_responseType ==
  ASSUME NEW q, ReqInv(q), NEW p \in ResponseType
  PROVE  ReqInv(receive_Atomic_response(q, p))
<1> DEFINE hits == match_send_wqe(q, p.psn)
           id   == Started(q)[Min(hits)]
           e    == q.wqe[id]
           res  == p.res
           f    == [e EXCEPT !.res = res]
           q1   == [q EXCEPT !.wqe[id] = f]
<1>1. Len(q.cq) \in Nat /\ Requester(q, Len(q.cq))
  BY ReqFields DEF ReqInv, Requester
<1>2. \/ receive_Atomic_response(q, p) = q
      \/ hits # {} /\ \/ receive_Atomic_response(q, p)
                           = SetStatus(q, id, "BAD_RESP_ERR")
                      \/ receive_Atomic_response(q, p)
                           = SetStatus(q, id, "LOC_PROT_ERR")
                      \/ receive_Atomic_response(q, p) = CompleteRdAtomic(q1)
  <2>1. [q EXCEPT !.wqe[id].res = p.res] = q1
    OBVIOUS
  <2>2. receive_Atomic_response(q, p) =
      IF hits = {} THEN q
      ELSE IF e.wr.op \notin {"CAS", "FADD"} THEN SetStatus(q, id, "BAD_RESP_ERR")
      ELSE IF Min(hits) # 1 \/ get_psn_diff(e.based_psn, p.psn) # 0 THEN q
      ELSE IF e.wr.fault = "local" THEN SetStatus(q, id, "LOC_PROT_ERR")
      ELSE CompleteRdAtomic(q1)
    <3> HIDE DEF q1, hits
    <3> QED BY <2>1 DEF receive_Atomic_response, hits
  <2> HIDE DEF hits, id, e, q1
  <2> QED BY <2>2
<1>3. ASSUME hits # {}
      PROVE  /\ ReqInv(SetStatus(q, id, "BAD_RESP_ERR"))
             /\ ReqInv(SetStatus(q, id, "LOC_PROT_ERR"))
             /\ ReqInv(CompleteRdAtomic(q1))
  <2>1. id \in DOMAIN q.wqe /\ Min(hits) \in 1 .. Len(Started(q))
    BY <1>1, <1>3, MatchExists
  <2>2. Len(Started(q)) \in Nat
    BY <1>1, ListsExist
  <2>3. e \in SwqeType
    BY <1>1, <2>1, FirstWqe
  <2>4. "BAD_RESP_ERR" \in Statuses /\ "LOC_PROT_ERR" \in Statuses
    BY DEF Statuses
  <2>5. /\ ReqInv(SetStatus(q, id, "BAD_RESP_ERR"))
        /\ ReqInv(SetStatus(q, id, "LOC_PROT_ERR"))
    <3> HIDE DEF id
    <3> QED BY <2>1, <2>4, SetStatusInv
  <2>6. res \in Int
    BY DEF ResponseType
  <2>7. f \in SwqeType
    <3> HIDE DEF e, res
    <3> QED BY <2>3, <2>6 DEF SwqeType
  <2> HIDE DEF f
  <2>8. ReqInv(q1) /\ Started(q1) = Started(q)
    BY <2>7, WqeSetInv
  <2>9. Len(Started(q1)) >= 1
    <3> DEFINE L == Len(Started(q))
               m == Min(hits)
    <3> HIDE DEF L, m, hits, q1
    <3>1. L >= 1
      BY <2>1, <2>2 DEF L, m
    <3> QED BY <2>8, <3>1 DEF L
  <2> HIDE DEF q1, id
  <2> QED BY <2>5, <2>8, <2>9, CompleteRdAtomicType
<1> HIDE DEF hits, id, q1
<1> QED
  BY <1>2, <1>3

LEMMA CountRnrType ==
  ASSUME NEW q, NEW c \in Nat, Requester(q, c)
  PROVE  Requester(CountRnr(q), c) /\ CountRnr(q).cq = q.cq
<1> DEFINE id == Head(q.sending)
           k  == q.wqe[id].rnr_retry - 1
           e  == [q.wqe[id] EXCEPT !.rnr_retry = k]
           p  == [q EXCEPT !.wqe[id] = e]
<1>1. CountRnr(q) = q \/ (q.sending # <<>> /\ CountRnr(q) = p)
  BY DEF CountRnr
<1>2. ASSUME q.sending # <<>> PROVE Requester(p, c) /\ p.cq = q.cq
  <2>1. q.wqe[id] \in SwqeType
    BY <1>2, FirstWqe
  <2>2. e \in SwqeType
    <3>1. k \in Int
      BY <2>1, SwqeFields
    <3> HIDE DEF k, id
    <3> QED BY <2>1, <3>1 DEF SwqeType
  <2> HIDE DEF e, id
  <2> QED BY <2>2, WqeSet
<1> HIDE DEF p
<1> QED
  BY <1>1, <1>2

LEMMA receive_responseType ==
  ASSUME NEW q0, ReqInv(q0), NEW p \in ResponseType
  PROVE  ReqInv(receive_response(q0, p))
<1> DEFINE z == 0
           q == [q0 EXCEPT !.nr_contig_requests = z]
           s == NakStatus[p.synd]
           n == IF p.synd \in DOMAIN NakStatus
                THEN set_send_wqe_to_error(q, p.psn, s) ELSE q
           c == Len(q0.cq)
<1>1. q0 \in ReqType /\ c \in Nat /\ Requester(q0, c) /\ z \in Nat
  BY ReqFields DEF ReqInv, Requester
<1>2. \/ receive_response(q0, p) = CountRnr(Resend(q))
      \/ receive_response(q0, p) = Resend(q)
      \/ receive_response(q0, p) = receive_ACK_response(n, p.psn)
      \/ receive_response(q0, p) = receive_Atomic_response(n, p)
      \/ receive_response(q0, p) = receive_RDMA_READ_response(n, p)
  <2>1. receive_response(q0, p) =
          CASE p.synd = "RNR"     -> CountRnr(Resend(q))
            [] p.synd = "PSN_SEQ" -> Resend(q)
            [] p.synd \notin {"RNR", "PSN_SEQ"} /\ p.op = "ACK" ->
                 receive_ACK_response(n, p.psn)
            [] p.synd \notin {"RNR", "PSN_SEQ"} /\ p.op = "ATOMIC_ACK" ->
                 receive_Atomic_response(n, p)
            [] OTHER -> receive_RDMA_READ_response(n, p)
    BY Zenon DEF receive_response
  <2> HIDE DEF q, n
  <2>2. CASE p.synd = "RNR"
    BY <2>1, <2>2
  <2>3. CASE p.synd = "PSN_SEQ"
    BY <2>1, <2>3
  <2>4. CASE p.synd \notin {"RNR", "PSN_SEQ"} /\ p.op = "ACK"
    BY <2>1, <2>4
  <2>5. CASE p.synd \notin {"RNR", "PSN_SEQ"} /\ p.op = "ATOMIC_ACK"
    BY <2>1, <2>5
  <2>6. CASE p.synd \notin {"RNR", "PSN_SEQ"} /\ p.op \notin {"ACK", "ATOMIC_ACK"}
    BY <2>1, <2>6
  <2> QED BY <2>2, <2>3, <2>4, <2>5, <2>6
<1> HIDE DEF z
<1>3. /\ q \in ReqType /\ q.cq = q0.cq /\ q.waiting = q0.waiting
      /\ q.sending = q0.sending /\ q.submitted = q0.submitted
      /\ q.wqe = q0.wqe /\ q.state = q0.state
  BY <1>1 DEF ReqType
<1> HIDE DEF q
<1>4. Requester(q, c) /\ q.cq = q0.cq
  BY <1>1, <1>3 DEF Requester, OrderedFrom, Drained
<1>5. ReqInv(Resend(q)) /\ ReqInv(CountRnr(Resend(q)))
  BY <1>1, <1>4, ResendType, CountRnrType DEF ReqInv
<1>6. ReqInv(n)
  <2>1. CASE p.synd \in DOMAIN NakStatus
    <3>1. s \in Statuses
      BY <2>1 DEF NakStatus, Statuses
    <3> HIDE DEF s
    <3>2. n = set_send_wqe_to_error(q, p.psn, s)
      BY <2>1
    <3> QED BY <1>1, <1>4, <3>1, <3>2, set_send_wqe_to_errorType DEF ReqInv
  <2>2. CASE p.synd \notin DOMAIN NakStatus
    BY <1>4, <2>2 DEF ReqInv
  <2> QED BY <2>1, <2>2
<1>7. p.psn \in Int
  BY DEF ResponseType
<1> HIDE DEF n
<1>8. /\ ReqInv(receive_ACK_response(n, p.psn))
      /\ ReqInv(receive_Atomic_response(n, p))
      /\ ReqInv(receive_RDMA_READ_response(n, p))
  BY <1>6, <1>7, receive_ACK_responseType, receive_Atomic_responseType,
     receive_RDMA_READ_responseType
<1> QED
  BY <1>2, <1>5, <1>8

-----------------------------------------------------------------------------
(* The requester's steps *)

LEMMA NewSwqeType ==
  ASSUME NEW w \in WRs
  PROVE  NewSwqe(w) \in SwqeType
<1> DEFINE z == 0
           e == <<>>
<1>1. z \in Int /\ e \in Seq([wr : Nat, k : Int, skew : BOOLEAN])
  OBVIOUS
<1>2. "SUCCESS" \in Statuses
  BY DEF Statuses
<1>3. NewSwqe(w) = [wr |-> w, based_psn |-> z, expected_psn |-> z,
         sent_packets |-> z, ack_packets |-> z, retry_cnt |-> z,
         rnr_retry |-> z, status |-> "SUCCESS", data |-> e, res |-> z]
  BY DEF NewSwqe
<1> HIDE DEF z, e
<1> QED
  BY <1>1, <1>2, <1>3 DEF SwqeType

LEMMA post_sendType ==
  ASSUME NEW q, ReqInv(q), NEW w \in WRs
  PROVE  ReqInv(post_send(q, w)) /\ post_send(q, w).tx = q.tx
<1> DEFINE n   == Len(q.wqe)
           c   == Len(q.cq)
           id  == n + 1
           wqe == Append(q.wqe, NewSwqe(w))
           q1  == [q EXCEPT !.wqe = wqe]
           u   == Append(q.submitted, id)
           q2  == [q1 EXCEPT !.submitted = u]
           q3  == reschedule_req(q2)
           z   == 0
           q4  == [q3 EXCEPT !.nr_contig_requests = z, !.nr_contig_read_acks = z]
<1>1. /\ q \in ReqType /\ CompletedInOrder(q.cq) /\ Requester(q, c)
      /\ c \in Nat /\ n \in Nat /\ Drained(q, c)
      /\ q.waiting \in Seq(Nat) /\ q.sending \in Seq(Nat)
      /\ q.submitted \in Seq(Nat) /\ q.wqe \in Seq(SwqeType)
      /\ InOrder(q.waiting, q.sending, q.submitted, n, c)
  BY RequesterFacts, ReqFields DEF ReqInv, Requester
<1>2. post_send(q, w) = IF q.state = "ERR"
                        THEN insert_send_wc(q1, id, "WR_FLUSH_ERR") ELSE q4
  BY DEF post_send
<1>3. wqe \in Seq(SwqeType) /\ Len(wqe) = id
  <2> DEFINE l == q.wqe
             e == NewSwqe(w)
  <2> HIDE DEF l, e
  <2>1. e \in SwqeType
    BY NewSwqeType DEF e
  <2>2. l \in Seq(SwqeType)
    BY <1>1 DEF l
  <2>3. Append(l, e) \in Seq(SwqeType) /\ Len(Append(l, e)) = Len(l) + 1
    BY <2>1, <2>2
  <2> QED BY <2>3 DEF l, e
<1>4. z \in Nat
  OBVIOUS
<1> HIDE DEF wqe, z, n, c
<1>5. /\ q1 \in ReqType /\ q1.cq = q.cq /\ q1.waiting = q.waiting
      /\ q1.sending = q.sending /\ q1.submitted = q.submitted
      /\ q1.wqe = wqe /\ q1.state = q.state /\ q1.tx = q.tx
  BY <1>1, <1>3 DEF ReqType
<1> HIDE DEF q1
<1>6. CASE q.state = "ERR"
  <2>1. c = n /\ q.waiting = <<>> /\ q.sending = <<>> /\ q.submitted = <<>>
    BY <1>1, <1>6, DrainedLists DEF Drained, n
  <2>2. id \in Nat /\ InOrder(<<>>, <<>>, <<>>, id, id)
    <3> HIDE DEF id
    <3>1. id \in Nat
      BY <1>1 DEF id
    <3> DEFINE e == <<>>
    <3>2. Len(e) = 0 /\ \A x : Consecutive(e, x)
      BY ConsecutiveEmpty
    <3> HIDE DEF e
    <3>3. InOrder(e, e, e, id, id)
      BY <3>1, <3>2 DEF InOrder
    <3> QED BY <3>1, <3>3 DEF e
  <2>3. Requester(q1, id)
    BY <1>1, <1>3, <1>5, <2>1, <2>2 DEF Requester, OrderedFrom, Drained
  <2>4. id = Len(q1.cq) + 1
    BY <1>5, <2>1 DEF c
  <2>5. "WR_FLUSH_ERR" \in Statuses
    BY DEF Statuses
  <2> DEFINE p == insert_send_wc(q1, id, "WR_FLUSH_ERR")
  <2>6. Requester(p, id) /\ Len(p.cq) = id
    BY <2>2, <2>3, <2>4, <2>5, insert_send_wcType
  <2>7. p.tx = q.tx
    BY <1>5 DEF insert_send_wc, ReqType
  <2> HIDE DEF p
  <2>8. ReqInv(p)
    BY <2>6 DEF ReqInv
  <2>9. post_send(q, w) = p
    BY <1>2, <1>6 DEF p
  <2> QED BY <2>7, <2>8, <2>9
<1>7. CASE q.state # "ERR"
  <2>1. u \in Seq(Nat) /\ InOrder(q.waiting, q.sending, u, id, c)
    <3> DEFINE l == q.submitted
    <3> HIDE DEF l
    <3>1. Append(l, n + 1) \in Seq(Nat) /\ InOrder(q.waiting, q.sending, Append(l, n + 1), n + 1, c)
      BY <1>1, InOrderPost DEF l
    <3> QED BY <3>1 DEF l
  <2> HIDE DEF u, id
  <2>2. /\ q2 \in ReqType /\ q2.cq = q.cq /\ q2.waiting = q.waiting
        /\ q2.sending = q.sending /\ q2.submitted = u
        /\ q2.wqe = wqe /\ q2.state = q.state /\ q2.tx = q.tx
    BY <1>5, <2>1 DEF ReqType
  <2> HIDE DEF q2
  <2>3. Requester(q2, c)
    BY <1>1, <1>3, <1>7, <2>1, <2>2 DEF Requester, OrderedFrom, Drained
  <2>4. Requester(q3, c) /\ q3.cq = q.cq
    BY <1>1, <2>2, <2>3, reschedule_reqType
  <2>5. q3.tx = q.tx
    BY <2>2 DEF reschedule_req, ReqType
  <2> HIDE DEF q3
  <2>6. /\ q4 \in ReqType /\ q4.cq = q3.cq /\ q4.waiting = q3.waiting
        /\ q4.sending = q3.sending /\ q4.submitted = q3.submitted
        /\ q4.wqe = q3.wqe /\ q4.state = q3.state /\ q4.tx = q3.tx
    <3>1. q3 \in ReqType
      BY <2>4 DEF Requester
    <3> QED BY <1>4, <3>1 DEF ReqType
  <2> HIDE DEF q4
  <2>7. ReqInv(q4)
    BY <2>4, <2>6 DEF Requester, OrderedFrom, Drained, ReqInv, c
  <2>8. post_send(q, w) = q4
    BY <1>2, <1>7
  <2> QED BY <2>5, <2>6, <2>7, <2>8
<1> QED
  BY <1>6, <1>7

(* A step of the requester's thread.                                       *)
LEMMA RequesterStepType ==
  ASSUME NEW q, ReqInv(q), toRsp \in Seq(RequestType), RequesterStep(q)
  PROVE  ReqInv(req') /\ req'.tx = <<>> /\ toRsp' \in Seq(RequestType)
<1> DEFINE r == reschedule_req(q)
           e == <<>>
           p == [r EXCEPT !.tx = e]
<1>1. req' = p /\ toRsp' = toRsp \o q.tx
  BY DEF RequesterStep
<1>2. q \in ReqType /\ Len(q.cq) \in Nat /\ Requester(q, Len(q.cq))
  BY ReqFields DEF ReqInv, Requester
<1>3. q.tx \in Seq(RequestType)
  BY <1>2 DEF ReqType
<1>4. toRsp' \in Seq(RequestType)
  BY <1>1, <1>3
<1>5. Requester(r, Len(q.cq)) /\ r.cq = q.cq
  BY <1>2, reschedule_reqType
<1>6. e \in Seq(RequestType)
  OBVIOUS
<1> HIDE DEF r, e
<1>7. /\ p \in ReqType /\ p.cq = r.cq /\ p.waiting = r.waiting
      /\ p.sending = r.sending /\ p.submitted = r.submitted /\ p.wqe = r.wqe
      /\ p.state = r.state /\ p.tx = e
  <2>1. r \in ReqType
    BY <1>5 DEF Requester
  <2> QED BY <1>6, <2>1 DEF ReqType
<1> HIDE DEF p
<1>8. ReqInv(p)
  BY <1>5, <1>7 DEF Requester, OrderedFrom, Drained, ReqInv
<1> QED
  BY <1>1, <1>4, <1>7, <1>8 DEF e

-----------------------------------------------------------------------------
(* The responder's record *)

RwqeType == [id : Nat, size : Nat]

RecvWc == [wr : Nat, status : Statuses, data : Seq(Nat \X Int)]

LEMMA RspFields ==
  ASSUME NEW r \in RspType
  PROVE  /\ r.psn \in Int /\ r.data \in Seq(Nat \X Int) /\ r.write_dmalen \in Int
         /\ r.rq \in Seq(RwqeType) /\ r.posted \in Nat
         /\ r.acks \in Seq(AckType) /\ r.nr_rd_atomic \in Int
         /\ r.nr_contig_read_acks \in Nat /\ r.cq \in Seq(RecvWc)
         /\ r.word \in Int /\ r.log \in Seq(Nat \X Int)
         /\ r.tx \in Seq(ResponseType)
BY DEF RspType, RecvWc, RwqeType

LEMMA reschedule_rspType ==
  ASSUME NEW r \in RspType
  PROVE  reschedule_rsp(r) \in RspType /\ reschedule_rsp(r).acks = r.acks
<1> DEFINE on == /\ r.state = "RTS" /\ r.acks # <<>>
                 /\ r.nr_contig_read_acks < MaxContigReads
<1>1. on \in BOOLEAN
  OBVIOUS
<1>2. reschedule_rsp(r) = [r EXCEPT !.on = on]
  BY DEF reschedule_rsp
<1> HIDE DEF on
<1> QED
  BY <1>1, <1>2, ZenonT(30) DEF RspType

LEMMA insert_recv_wcType ==
  ASSUME NEW r \in RspType, NEW id \in Nat, NEW status \in Statuses,
         NEW data \in Seq(Nat \X Int)
  PROVE  /\ insert_recv_wc(r, id, status, data) \in RspType
         /\ insert_recv_wc(r, id, status, data).rq = r.rq
<1> DEFINE c  == [wr |-> id, status |-> status, data |-> data]
           cq == Append(r.cq, c)
<1>1. c \in RecvWc /\ r.cq \in Seq(RecvWc)
  BY RspFields DEF RecvWc
<1>2. cq \in Seq(RecvWc)
  <2> HIDE DEF c
  <2> QED BY <1>1
<1>3. insert_recv_wc(r, id, status, data) = [r EXCEPT !.cq = cq]
  BY DEF insert_recv_wc
<1> HIDE DEF cq
<1> QED
  BY <1>2, <1>3, ZenonT(30) DEF RspType, RecvWc

LEMMA flush_rspType ==
  ASSUME NEW r \in RspType
  PROVE  flush_rsp(r) \in RspType
<1> DEFINE e   == <<>>
           z   == 0
           wcs == [i \in DOMAIN r.rq |->
                     [wr |-> r.rq[i].id, status |-> "WR_FLUSH_ERR", data |-> e]]
           cq  == r.cq \o wcs
           r1  == [r EXCEPT !.state = "ERR", !.rq = e, !.acks = e,
                            !.nr_rd_atomic = z, !.cq = cq]
           r2  == reschedule_rsp(r1)
           r3  == [r2 EXCEPT !.nr_contig_read_acks = z]
<1>1. /\ e \in Seq(RwqeType) /\ e \in Seq(AckType)
      /\ e \in Seq(Nat \X Int) /\ z \in Int /\ z \in Nat
  OBVIOUS
<1>2. flush_rsp(r) = r3
  BY DEF flush_rsp
<1> HIDE DEF e, z
<1>3. wcs \in Seq(RecvWc)
  <2> DEFINE l == r.rq
             W(i) == [wr |-> l[i].id, status |-> "WR_FLUSH_ERR", data |-> e]
  <2>1. l \in Seq(RwqeType)
    BY RspFields
  <2>2. wcs = [i \in 1 .. Len(l) |-> W(i)]
    <3>1. DOMAIN l = 1 .. Len(l)
      <4> HIDE DEF l
      <4> QED BY <2>1
    <3> QED BY <3>1
  <2> HIDE DEF l, wcs
  <2>3. ASSUME NEW i \in 1 .. Len(l) PROVE W(i) \in RecvWc
    <3>1. l[i] \in RwqeType
      BY <2>1
    <3>3. l[i].id \in Nat
      BY <3>1 DEF RwqeType
    <3>2. "WR_FLUSH_ERR" \in Statuses
      BY DEF Statuses
    <3> QED BY <1>1, <3>3, <3>2 DEF RecvWc
  <2> HIDE DEF W
  <2>4. Len(l) \in Nat /\ wcs \in [1 .. Len(l) -> RecvWc]
    BY <2>1, <2>2, <2>3
  <2> QED BY <2>4, SeqDef
<1>4. cq \in Seq(RecvWc)
  <2>1. r.cq \in Seq(RecvWc)
    BY RspFields
  <2> HIDE DEF wcs
  <2> QED BY <1>3, <2>1
<1> HIDE DEF cq, wcs
<1>5. r1 \in RspType
  BY <1>1, <1>4, ZenonT(30) DEF RspType, RecvWc, RwqeType
<1> HIDE DEF r1
<1>6. r2 \in RspType
  BY <1>5, reschedule_rspType
<1> HIDE DEF r2
<1>7. r3 \in RspType
  BY <1>1, <1>6, ZenonT(30) DEF RspType
<1> QED
  BY <1>2, <1>7

LEMMA HeadRq ==
  ASSUME NEW r \in RspType, r.rq # <<>>
  PROVE  Head(r.rq).id \in Nat /\ Tail(r.rq) \in Seq(RwqeType)
<1> DEFINE l == r.rq
<1>1. l \in Seq(RwqeType) /\ l # <<>>
  BY RspFields
<1> HIDE DEF l
<1>2. Head(l) \in RwqeType /\ Tail(l) \in Seq(RwqeType)
  BY <1>1
<1>3. Head(l).id \in Nat
  BY <1>2 DEF RwqeType
<1> QED
  BY <1>2, <1>3 DEF l

(* The head receive WQE completes, with success or in error.               *)
LEMMA TakeRwqeType ==
  ASSUME NEW r \in RspType, r.rq # <<>>, NEW status \in Statuses,
         NEW data \in Seq(Nat \X Int)
  PROVE  [insert_recv_wc(r, Head(r.rq).id, status, data)
            EXCEPT !.rq = Tail(@)] \in RspType
<1> DEFINE p == insert_recv_wc(r, Head(r.rq).id, status, data)
           t == Tail(r.rq)
<1>1. Head(r.rq).id \in Nat /\ t \in Seq(RwqeType)
  BY HeadRq
<1>2. p \in RspType /\ p.rq = r.rq
  BY <1>1, insert_recv_wcType
<1> HIDE DEF p
<1>3. [p EXCEPT !.rq = Tail(@)] = [p EXCEPT !.rq = t]
  BY <1>2
<1> HIDE DEF t
<1>4. [p EXCEPT !.rq = t] \in RspType
  BY <1>1, <1>2, ZenonT(30) DEF RspType, RwqeType
<1> QED
  BY <1>3, <1>4 DEF p

LEMMA FailRwqeType ==
  ASSUME NEW r \in RspType, r.rq # <<>>, NEW status \in Statuses
  PROVE  FailRwqe(r, status) \in RspType
<1> DEFINE e == <<>>
<1>1. e \in Seq(Nat \X Int)
  OBVIOUS
<1>2. FailRwqe(r, status) = [insert_recv_wc(r, Head(r.rq).id, status, e)
                              EXCEPT !.rq = Tail(@)]
  BY DEF FailRwqe
<1> HIDE DEF e
<1> QED
  BY <1>1, <1>2, TakeRwqeType

LEMMA CompleteRwqeType ==
  ASSUME NEW r \in RspType, r.rq # <<>>
  PROVE  CompleteRwqe(r) \in RspType
<1>1. r.data \in Seq(Nat \X Int) /\ "SUCCESS" \in Statuses
  BY RspFields DEF Statuses
<1> QED
  BY <1>1, TakeRwqeType DEF CompleteRwqe

LEMMA insert_async_qp_errorType ==
  ASSUME NEW r \in RspType
  PROVE  /\ flush_rsp(abort_active_rwqe(r)) \in RspType
         /\ insert_async_qp_error(r) \in RspType
<1>1. abort_active_rwqe(r) \in RspType
  <2>1. "GENERAL_ERR" \in Statuses
    BY DEF Statuses
  <2>2. CASE r.rq = <<>> \/ r.data = <<>>
    BY <2>2 DEF abort_active_rwqe
  <2>3. CASE ~ (r.rq = <<>> \/ r.data = <<>>)
    BY <2>1, <2>3, FailRwqeType DEF abort_active_rwqe
  <2> QED BY <2>2, <2>3
<1> QED
  BY <1>1, flush_rspType DEF insert_async_qp_error

LEMMA CompletionErrorRspType ==
  ASSUME NEW r \in RspType, r.rq # <<>>, NEW status \in Statuses
  PROVE  CompletionErrorRsp(r, status) \in RspType
BY FailRwqeType, flush_rspType DEF CompletionErrorRsp

-----------------------------------------------------------------------------
(* The list of acknowledges *)

LEMMA NewAckType ==
  ASSUME NEW type \in {"NORMAL", "READ", "ATOMIC"}, NEW psn \in Int,
         NEW expected_psn \in Int
  PROVE  NewAck(type, psn, expected_psn) \in AckType
<1> DEFINE z == 0
<1>1. z \in Int /\ z \in Nat /\ "ACK" \in Syndromes
  BY DEF Syndromes
<1>2. NewAck(type, psn, expected_psn) =
        [type |-> type, psn |-> psn, expected_psn |-> expected_psn,
         synd |-> "ACK", wr |-> z, k |-> z, size |-> z, offset |-> z, res |-> z]
  BY DEF NewAck
<1> HIDE DEF z
<1> QED
  BY <1>1, <1>2 DEF AckType

LEMMA push_acknowledgeType ==
  ASSUME NEW r \in RspType, NEW psn \in Int, NEW synd \in Syndromes
  PROVE  /\ push_acknowledge(r, psn, synd) \in RspType
         /\ push_acknowledge(r, psn, synd).rq = r.rq
<1> DEFINE n  == Len(r.acks)
           a  == NewAck("NORMAL", psn, psn + 1)
           b  == [a EXCEPT !.synd = synd]
           k1 == [r.acks EXCEPT ![n] = a]
           k2 == Append(r.acks, b)
           c  == IF synd = "ACK" THEN r.nr_contig_read_acks ELSE 0
           r1 == [r EXCEPT !.acks = k1]
           r2 == [r EXCEPT !.acks = k2, !.nr_contig_read_acks = c]
<1>1. \/ push_acknowledge(r, psn, synd) = r
      \/ push_acknowledge(r, psn, synd) = r1
      \/ push_acknowledge(r, psn, synd) = r2
  BY DEF push_acknowledge
<1>2. a \in AckType
  <2>1. psn + 1 \in Int
    OBVIOUS
  <2> QED BY <2>1, NewAckType
<1> HIDE DEF a
<1>3. b \in AckType
  BY <1>2 DEF AckType
<1> HIDE DEF b
<1>4. r.acks \in Seq(AckType) /\ r.nr_contig_read_acks \in Nat
  BY RspFields
<1>5. k1 \in Seq(AckType)
  BY <1>2, <1>4, SetElement
<1>6. k2 \in Seq(AckType) /\ c \in Nat
  BY <1>3, <1>4
<1> HIDE DEF k1, k2, c
<1>7. r1 \in RspType /\ r1.rq = r.rq
  BY <1>5 DEF RspType
<1>8. r2 \in RspType /\ r2.rq = r.rq
  BY <1>6 DEF RspType
<1> HIDE DEF r1, r2
<1> QED
  BY <1>1, <1>7, <1>8

LEMMA RefuseType ==
  ASSUME NEW r \in RspType, NEW psn \in Int, NEW synd \in Syndromes
  PROVE  Refuse(r, psn, synd) \in RspType
BY push_acknowledgeType, insert_async_qp_errorType DEF Refuse

LEMMA RemoveOverlappedType ==
  ASSUME NEW r \in RspType, NEW psn, NEW expected_psn
  PROVE  remove_overlapped_rdma_read_acknowledge(r, psn, expected_psn) \in RspType
<1> DEFINE gone == Overlapped(r, psn, expected_psn)
           T == {i \in gone : IsRdAtomicAck(r.acks[i])}
           k == Without(r.acks, gone)
           n == r.nr_rd_atomic - Cardinality(T)
           p == [r EXCEPT !.acks = k, !.nr_rd_atomic = n]
<1>1. r.acks \in Seq(AckType) /\ r.nr_rd_atomic \in Int
  BY RspFields
<1>2. k \in Seq(AckType)
  <2> HIDE DEF gone
  <2> QED BY <1>1, WithoutType
<1>3. Cardinality(T) \in Nat
  <2> DEFINE l == r.acks
  <2>1. DOMAIN l = 1 .. Len(l) /\ Len(l) \in Nat
    <3> HIDE DEF l
    <3> QED BY <1>1 DEF l
  <2>2. T \subseteq 1 .. Len(l)
    BY <2>1 DEF Overlapped
  <2> HIDE DEF T, l
  <2>3. IsFiniteSet(1 .. Len(l))
    BY <2>1, FS_Interval
  <2>4. IsFiniteSet(T)
    BY <2>2, <2>3, FS_Subset
  <2> QED BY <2>4, FS_CardinalityType
<1>4. remove_overlapped_rdma_read_acknowledge(r, psn, expected_psn) = p
  BY DEF remove_overlapped_rdma_read_acknowledge
<1>5. n \in Int
  <2> HIDE DEF T
  <2> QED BY <1>1, <1>3
<1> HIDE DEF k, n
<1>6. p \in RspType
  BY <1>2, <1>5 DEF RspType
<1> QED
  BY <1>4, <1>6

LEMMA push_atomic_acknowledgeType ==
  ASSUME NEW r \in RspType, NEW psn \in Int, NEW res \in Int
  PROVE  push_atomic_acknowledge(r, psn, res) \in RspType
<1> DEFINE a == NewAck("ATOMIC", psn, psn + 1)
           b == [a EXCEPT !.res = res]
           k == Append(r.acks, b)
           n == r.nr_rd_atomic + 1
           p == [r EXCEPT !.acks = k, !.nr_rd_atomic = n]
<1>1. push_atomic_acknowledge(r, psn, res) = p
  BY DEF push_atomic_acknowledge
<1>2. a \in AckType
  <2>1. psn + 1 \in Int
    OBVIOUS
  <2> QED BY <2>1, NewAckType
<1> HIDE DEF a
<1>3. b \in AckType
  BY <1>2 DEF AckType
<1> HIDE DEF b
<1>4. r.acks \in Seq(AckType) /\ r.nr_rd_atomic \in Int
  BY RspFields
<1>5. k \in Seq(AckType) /\ n \in Int
  BY <1>3, <1>4
<1> HIDE DEF k, n
<1>6. p \in RspType
  BY <1>5 DEF RspType
<1> QED
  BY <1>1, <1>6

LEMMA push_rdma_read_acknowledgeType ==
  ASSUME NEW r \in RspType, NEW p \in RequestType, NEW expected_psn \in Int
  PROVE  push_rdma_read_acknowledge(r, p, expected_psn) \in RspType
<1> DEFINE a == NewAck("READ", p.psn, expected_psn)
           b == [a EXCEPT !.wr = p.wr, !.k = p.k, !.size = p.dmalen]
           k == Append(r.acks, b)
           n == r.nr_rd_atomic + 1
           x == [r EXCEPT !.acks = k, !.nr_rd_atomic = n]
<1>1. push_rdma_read_acknowledge(r, p, expected_psn) = x
  BY DEF push_rdma_read_acknowledge
<1>2. p.psn \in Int /\ p.wr \in Nat /\ p.k \in Int /\ p.dmalen \in Int
  BY DEF RequestType
<1>3. a \in AckType
  BY <1>2, NewAckType
<1> HIDE DEF a
<1>4. b \in AckType
  BY <1>2, <1>3 DEF AckType
<1> HIDE DEF b
<1>5. r.acks \in Seq(AckType) /\ r.nr_rd_atomic \in Int
  BY RspFields
<1>6. k \in Seq(AckType) /\ n \in Int
  BY <1>4, <1>5
<1> HIDE DEF k, n
<1>7. x \in RspType
  BY <1>6 DEF RspType
<1> QED
  BY <1>1, <1>7

-----------------------------------------------------------------------------
(* Requests *)

LEMMA RequestFields ==
  ASSUME NEW p \in RequestType
  PROVE  /\ p.op \in RequestOpcodes \cup {"CNP"} /\ p.psn \in Int
         /\ p.wr \in Nat /\ p.k \in Int /\ p.dmalen \in Int /\ p.rkey \in BOOLEAN
BY DEF RequestType

LEMMA SyndromeNames ==
  {"ACK", "RNR", "PSN_SEQ", "INV_REQ", "REM_ACCESS", "REM_OP"} \subseteq Syndromes
BY DEF Syndromes

PacketId == Nat \X Int

(* A packet joins the current message.                                     *)
LEMMA ArriveType ==
  ASSUME NEW r \in RspType, NEW p \in RequestType
  PROVE  /\ [r EXCEPT !.data = Append(@, <<p.wr, p.k>>)] \in RspType
         /\ [r EXCEPT !.data = Append(@, <<p.wr, p.k>>)].rq = r.rq
<1> DEFINE x == <<p.wr, p.k>>
           d == Append(r.data, x)
<1>1. x \in PacketId
  BY RequestFields DEF PacketId
<1>2. r.data \in Seq(PacketId)
  BY RspFields DEF PacketId
<1>3. d \in Seq(PacketId)
  <2> HIDE DEF x
  <2> QED BY <1>1, <1>2
<1>4. [r EXCEPT !.data = Append(@, <<p.wr, p.k>>)] = [r EXCEPT !.data = d]
  OBVIOUS
<1> HIDE DEF d
<1>5. [r EXCEPT !.data = d] \in RspType /\ [r EXCEPT !.data = d].rq = r.rq
  BY <1>3 DEF RspType, PacketId
<1> QED
  BY <1>4, <1>5

LEMMA AcceptType ==
  ASSUME NEW r \in RspType, NEW p \in RequestType, p.op \in RequestOpcodes,
         NEW n \in Int
  PROVE  Accept(r, p, n) \in RspType
<1> DEFINE x == <<p.wr, p.k>>
           l == Append(r.log, x)
           m == r.psn + n
<1>1. x \in PacketId
  BY RequestFields DEF PacketId
<1>2. r.log \in Seq(PacketId) /\ r.psn \in Int
  BY RspFields DEF PacketId
<1>3. l \in Seq(PacketId) /\ m \in Int
  <2> HIDE DEF x
  <2> QED BY <1>1, <1>2
<1>4. Accept(r, p, n) = [r EXCEPT !.psn = m, !.last_OpCode = p.op, !.log = l]
  BY DEF Accept
<1> HIDE DEF l, m
<1> QED
  BY <1>3, <1>4, ZenonT(30) DEF RspType, PacketId

LEMMA receive_SEND_packetType ==
  ASSUME NEW r \in RspType, NEW p \in RequestType, p.op \in RequestOpcodes
  PROVE  receive_SEND_packet(r, p) \in RspType
<1> DEFINE r1 == [r EXCEPT !.data = Append(@, <<p.wr, p.k>>)]
           r2 == IF IsFinit(p.op) THEN CompleteRwqe(r1) ELSE r1
           nak == push_acknowledge(r, p.psn, "REM_OP")
<1>1. p.psn \in Int /\ {"ACK", "RNR", "REM_OP"} \subseteq Syndromes
  BY RequestFields, SyndromeNames
<1>2. r1 \in RspType /\ r1.rq = r.rq
  BY ArriveType
<1>3. /\ nak \in RspType /\ nak.rq = r.rq
      /\ push_acknowledge(r, p.psn, "RNR") \in RspType
  BY <1>1, push_acknowledgeType
<1>4. \/ receive_SEND_packet(r, p) = push_acknowledge(r, p.psn, "RNR")
      \/ r.rq # <<>> /\
           \/ receive_SEND_packet(r, p) = CompletionErrorRsp(nak, "LOC_PROT_ERR")
           \/ receive_SEND_packet(r, p) = CompletionErrorRsp(r, "MW_BIND_ERR")
           \/ receive_SEND_packet(r, p)
                = Accept(push_acknowledge(r2, p.psn, "ACK"), p, 1)
  <2>1. receive_SEND_packet(r, p) =
          IF r.rq = <<>> THEN push_acknowledge(r, p.psn, "RNR")
          ELSE IF Head(r.rq).size < Len(r.data) + 1
               THEN CompletionErrorRsp(nak, "LOC_PROT_ERR")
          ELSE IF WithInv(p.op) THEN CompletionErrorRsp(r, "MW_BIND_ERR")
          ELSE Accept(push_acknowledge(r2, p.psn, "ACK"), p, 1)
    BY Zenon DEF receive_SEND_packet
  <2> HIDE DEF r2, nak
  <2> QED BY <2>1
<1>5. ASSUME r.rq # <<>>
      PROVE  /\ CompletionErrorRsp(nak, "LOC_PROT_ERR") \in RspType
             /\ CompletionErrorRsp(r, "MW_BIND_ERR") \in RspType
             /\ Accept(push_acknowledge(r2, p.psn, "ACK"), p, 1) \in RspType
  <2> HIDE DEF r1, nak
  <2>1. "LOC_PROT_ERR" \in Statuses /\ "MW_BIND_ERR" \in Statuses
    BY DEF Statuses
  <2>2. /\ CompletionErrorRsp(nak, "LOC_PROT_ERR") \in RspType
        /\ CompletionErrorRsp(r, "MW_BIND_ERR") \in RspType
    BY <1>3, <1>5, <2>1, CompletionErrorRspType
  <2>3. r2 \in RspType
    BY <1>2, <1>5, CompleteRwqeType
  <2> HIDE DEF r2
  <2>4. push_acknowledge(r2, p.psn, "ACK") \in RspType
    BY <1>1, <2>3, push_acknowledgeType
  <2>5. Accept(push_acknowledge(r2, p.psn, "ACK"), p, 1) \in RspType
    BY <2>4, AcceptType
  <2> QED BY <2>2, <2>5
<1> HIDE DEF r2, nak
<1> QED
  BY <1>3, <1>4, <1>5

LEMMA receive_SEND_requestType ==
  ASSUME NEW r \in RspType, NEW p \in RequestType, p.op \in RequestOpcodes
  PROVE  receive_SEND_request(r, p) \in RspType
<1> DEFINE e  == <<>>
           r1 == [r EXCEPT !.data = e]
<1>1. e \in Seq(PacketId)
  OBVIOUS
<1>2. \/ receive_SEND_request(r, p) = receive_SEND_packet(r1, p)
      \/ receive_SEND_request(r, p) = receive_SEND_packet(r, p)
  BY DEF receive_SEND_request
<1> HIDE DEF e
<1>3. r1 \in RspType
  BY <1>1 DEF RspType, PacketId
<1> HIDE DEF r1
<1> QED
  BY <1>2, <1>3, receive_SEND_packetType

LEMMA receive_RDMA_WRITE_requestType ==
  ASSUME NEW r0 \in RspType, NEW p \in RequestType, p.op \in RequestOpcodes
  PROVE  receive_RDMA_WRITE_request(r0, p) \in RspType
<1> DEFINE e  == <<>>
           ri == [r0 EXCEPT !.data = e, !.write_rkey = p.rkey,
                            !.write_dmalen = p.dmalen]
           r  == IF IsInit(p.op) THEN ri ELSE r0
           r1 == [r EXCEPT !.data = Append(@, <<p.wr, p.k>>)]
           r2 == IF WithImm(p.op) THEN CompleteRwqe(r1) ELSE r1
           nak == push_acknowledge(r, p.psn, "REM_ACCESS")
           res == receive_RDMA_WRITE_request(r0, p)
<1>1. /\ p.psn \in Int /\ p.rkey \in BOOLEAN /\ p.dmalen \in Int
      /\ {"ACK", "RNR", "INV_REQ", "REM_ACCESS"} \subseteq Syndromes
      /\ "LOC_PROT_ERR" \in Statuses
  BY RequestFields, SyndromeNames DEF Statuses
<1>2. \/ res = push_acknowledge(r, p.psn, "RNR")
      \/ res = Refuse(r, p.psn, "INV_REQ")
      \/ WithImm(p.op) /\ r.rq # <<>> /\ res = CompletionErrorRsp(nak, "LOC_PROT_ERR")
      \/ res = flush_rsp(abort_active_rwqe(nak))
      \/ /\ WithImm(p.op) => r.rq # <<>>
         /\ res = Accept(push_acknowledge(r2, p.psn, "ACK"), p, 1)
  <2>1. res =
      IF WithImm(p.op) /\ r.rq = <<>> THEN push_acknowledge(r, p.psn, "RNR")
      ELSE IF \/ r.write_dmalen < Len(r.data) + 1
              \/ IsFinit(p.op) /\ r.write_dmalen # Len(r.data) + 1
           THEN Refuse(r, p.psn, "INV_REQ")
      ELSE IF ~(r.write_rkey /\ r.mr)
           THEN IF WithImm(p.op) THEN CompletionErrorRsp(nak, "LOC_PROT_ERR")
                ELSE flush_rsp(abort_active_rwqe(nak))
      ELSE Accept(push_acknowledge(r2, p.psn, "ACK"), p, 1)
    BY Zenon DEF receive_RDMA_WRITE_request
  <2> HIDE DEF r, r1, r2, nak, res
  <2>2. CASE WithImm(p.op) /\ r.rq = <<>>
    BY <2>1, <2>2
  <2>3. CASE ~(WithImm(p.op) /\ r.rq = <<>>)
    BY <2>1, <2>3
  <2> QED BY <2>2, <2>3
<1>3. e \in Seq(PacketId)
  OBVIOUS
<1> HIDE DEF e
<1>4. ri \in RspType
  BY <1>1, <1>3 DEF RspType, PacketId
<1> HIDE DEF ri
<1>5. r \in RspType
  BY <1>4
<1> HIDE DEF r
<1>6. r1 \in RspType /\ r1.rq = r.rq
  BY <1>5, ArriveType
<1>7. /\ nak \in RspType /\ nak.rq = r.rq
      /\ push_acknowledge(r, p.psn, "RNR") \in RspType
  BY <1>1, <1>5, push_acknowledgeType
<1>8. Refuse(r, p.psn, "INV_REQ") \in RspType
  BY <1>1, <1>5, RefuseType
<1> HIDE DEF r1, nak
<1>9. flush_rsp(abort_active_rwqe(nak)) \in RspType
  BY <1>7, insert_async_qp_errorType
<1>10. r.rq # <<>> => CompletionErrorRsp(nak, "LOC_PROT_ERR") \in RspType
  BY <1>1, <1>7, CompletionErrorRspType
<1>11. ASSUME WithImm(p.op) => r.rq # <<>>
       PROVE  Accept(push_acknowledge(r2, p.psn, "ACK"), p, 1) \in RspType
  <2>1. r2 \in RspType
    BY <1>6, <1>11, CompleteRwqeType
  <2> HIDE DEF r2
  <2>2. push_acknowledge(r2, p.psn, "ACK") \in RspType
    BY <1>1, <2>1, push_acknowledgeType
  <2> QED BY <2>2, AcceptType
<1> HIDE DEF r2, res
<1>12. res \in RspType
  BY <1>2, <1>7, <1>8, <1>9, <1>10, <1>11
<1> QED
  BY <1>12 DEF res

SlotType ==
  [op : RequestOpcodes, psn : Int, expected_psn : Int, wr : Nat, k : Int,
   dmalen : Int, res : Int]

LEMMA RememberSlotType ==
  ASSUME NEW r \in RspType, NEW p \in RequestType, p.op \in RequestOpcodes,
         NEW n \in Int, NEW res \in Int
  PROVE  /\ RememberSlot(r, p, n, res) \in RspType
         /\ RememberSlot(r, p, n, res).word = r.word
<1> DEFINE m    == r.psn + n
           slot == [op |-> p.op, psn |-> r.psn, expected_psn |-> m,
                    wr |-> p.wr, k |-> p.k, dmalen |-> p.dmalen, res |-> res]
           all  == <<slot>> \o r.slots
           l    == IF Len(all) <= MaxDestRdAtomic THEN all
                   ELSE SubSeq(all, 1, MaxDestRdAtomic)
<1>1. r.psn \in Int /\ p.wr \in Nat /\ p.k \in Int /\ p.dmalen \in Int
  BY RspFields, RequestFields
<1>2. r.slots \in Seq(SlotType)
  BY DEF RspType, SlotType
<1>3. m \in Int
  BY <1>1
<1> HIDE DEF m
<1>4. slot \in SlotType
  BY <1>1, <1>3 DEF SlotType
<1>5. RememberSlot(r, p, n, res) = [r EXCEPT !.slots = l]
  BY DEF RememberSlot, m
<1> HIDE DEF slot
<1>6. all \in Seq(SlotType)
  BY <1>2, <1>4
<1> HIDE DEF all
<1>7. l \in Seq(SlotType)
  <2>1. CASE Len(all) <= MaxDestRdAtomic
    BY <1>6, <2>1
  <2>2. CASE ~(Len(all) <= MaxDestRdAtomic)
    <3>1. MaxDestRdAtomic \in Nat /\ Len(all) \in Nat
      BY <1>6, ConstantTypes
    <3>2. SubSeq(all, 1, MaxDestRdAtomic) \in Seq(SlotType)
      <4>1. MaxDestRdAtomic \in 0 .. Len(all) /\ MaxDestRdAtomic <= Len(all)
        BY <2>2, <3>1
      <4>2. \A i \in 1 .. MaxDestRdAtomic : all[i] \in SlotType
        BY <1>6, <3>1, <4>1
      <4> QED BY <1>6, <3>1, <4>1, <4>2
    <3> QED BY <2>2, <3>2
  <2> QED BY <2>1, <2>2
<1> HIDE DEF l
<1> QED
  BY <1>5, <1>7, ZenonT(30) DEF RspType, SlotType

LEMMA receive_Atomic_requestType ==
  ASSUME NEW r \in RspType, NEW p \in RequestType, p.op \in RequestOpcodes
  PROVE  receive_Atomic_request(r, p) \in RspType
<1> DEFINE direction == IF IB_OPCODE_RC[p.op] = IB_WR_ATOMIC_CMP_AND_SWP
                        THEN "CAS" ELSE "FETCHADD"
           s  == RememberSlot(r, p, 1, r.word)
           w  == mr_copy_data_sub(s.word, direction, CompareAdd(p.op))
           r1 == [s EXCEPT !.word = w]
<1>1. r.word \in Int /\ p.psn \in Int /\ {"INV_REQ", "REM_ACCESS"} \subseteq Syndromes
  BY RspFields, RequestFields, SyndromeNames
<1>2. \/ receive_Atomic_request(r, p) = Refuse(r, p.psn, "INV_REQ")
      \/ receive_Atomic_request(r, p) = Refuse(r, p.psn, "REM_ACCESS")
      \/ receive_Atomic_request(r, p)
           = Accept(push_atomic_acknowledge(r1, p.psn, r.word), p, 1)
  <2>1. receive_Atomic_request(r, p) =
          IF MaxDestRdAtomic <= r.nr_rd_atomic THEN Refuse(r, p.psn, "INV_REQ")
          ELSE IF ~(p.rkey /\ r.mr) THEN Refuse(r, p.psn, "REM_ACCESS")
          ELSE Accept(push_atomic_acknowledge(r1, p.psn, r.word), p, 1)
    BY Zenon DEF receive_Atomic_request
  <2> HIDE DEF r1
  <2> QED BY <2>1
<1> HIDE DEF direction
<1>3. s \in RspType /\ s.word = r.word
  BY <1>1, RememberSlotType
<1>4. w \in Int
  <2> DEFINE x == s.word
             y == CompareAdd(p.op)
  <2>1. x \in Int /\ y \in Int
    BY <1>1, <1>3 DEF CompareAdd
  <2> HIDE DEF x, y
  <2>2. mr_copy_data_sub(x, direction, y) \in Int
    BY <2>1 DEF mr_copy_data_sub, Swap
  <2> QED BY <2>2 DEF x, y
<1> HIDE DEF s, w
<1>5. r1 \in RspType
  BY <1>3, <1>4, ZenonT(30) DEF RspType
<1> HIDE DEF r1
<1>6. push_atomic_acknowledge(r1, p.psn, r.word) \in RspType
  BY <1>1, <1>5, push_atomic_acknowledgeType
<1>7. Accept(push_atomic_acknowledge(r1, p.psn, r.word), p, 1) \in RspType
  BY <1>6, AcceptType
<1> QED
  BY <1>1, <1>2, <1>7, RefuseType

LEMMA AnswerReadType ==
  ASSUME NEW r \in RspType, NEW p \in RequestType, NEW expected_psn \in Int
  PROVE  AnswerRead(r, p, expected_psn) \in RspType
<1> DEFINE z == 0
           a == push_rdma_read_acknowledge(
                  remove_overlapped_rdma_read_acknowledge(r, p.psn, expected_psn),
                  p, expected_psn)
<1>1. AnswerRead(r, p, expected_psn) = [a EXCEPT !.nr_contig_read_acks = z]
  BY DEF AnswerRead
<1>2. a \in RspType
  BY RemoveOverlappedType, push_rdma_read_acknowledgeType
<1>3. z \in Nat
  OBVIOUS
<1> HIDE DEF z, a
<1> QED
  BY <1>1, <1>2, <1>3, ZenonT(30) DEF RspType

LEMMA receive_new_RDMA_READ_requestType ==
  ASSUME NEW r \in RspType, NEW p \in RequestType, p.op \in RequestOpcodes
  PROVE  receive_new_RDMA_READ_request(r, p) \in RspType
<1> DEFINE x == r.psn + p.dmalen
           s == RememberSlot(r, p, p.dmalen, 0)
<1>1. /\ r.psn \in Int /\ p.psn \in Int /\ p.dmalen \in Int
      /\ {"INV_REQ", "REM_ACCESS"} \subseteq Syndromes
  BY RspFields, RequestFields, SyndromeNames
<1>2. x \in Int
  BY <1>1
<1>3. s \in RspType
  BY <1>1, RememberSlotType
<1>4. \/ receive_new_RDMA_READ_request(r, p) = Refuse(r, p.psn, "REM_ACCESS")
      \/ receive_new_RDMA_READ_request(r, p) = Refuse(r, p.psn, "INV_REQ")
      \/ receive_new_RDMA_READ_request(r, p) = Accept(AnswerRead(s, p, x), p, p.dmalen)
  BY DEF receive_new_RDMA_READ_request
<1> HIDE DEF x, s
<1>5. Accept(AnswerRead(s, p, x), p, p.dmalen) \in RspType
  BY <1>1, <1>2, <1>3, AnswerReadType, AcceptType
<1> QED
  BY <1>1, <1>4, <1>5, RefuseType

LEMMA receive_retried_RDMA_READ_requestType ==
  ASSUME NEW r \in RspType, NEW p \in RequestType, NEW slot \in SlotType
  PROVE  receive_retried_RDMA_READ_request(r, p, slot) \in RspType
<1> DEFINE offset == get_psn_diff(p.psn, slot.psn)
           r1 == remove_overlapped_rdma_read_acknowledge(r, p.psn,
                                                         slot.expected_psn)
           res == receive_retried_RDMA_READ_request(r, p, slot)
<1>1. /\ p.psn \in Int /\ slot.expected_psn \in Int
      /\ {"INV_REQ", "REM_ACCESS"} \subseteq Syndromes
  BY RequestFields, SyndromeNames DEF SlotType
<1>2. \/ res = Refuse(r, p.psn, "REM_ACCESS")
      \/ res = Refuse(r, p.psn, "INV_REQ")
      \/ res = Refuse(r1, p.psn, "INV_REQ")
      \/ res = AnswerRead(r, p, slot.expected_psn)
  <2>1. res =
      IF ~(p.rkey /\ r.mr) THEN Refuse(r, p.psn, "REM_ACCESS")
      ELSE IF \/ slot.wr # p.wr \/ slot.k + offset # p.k
              \/ slot.dmalen - offset # p.dmalen
           THEN Refuse(r, p.psn, "INV_REQ")
      ELSE IF MaxDestRdAtomic <= r1.nr_rd_atomic THEN Refuse(r1, p.psn, "INV_REQ")
      ELSE AnswerRead(r, p, slot.expected_psn)
    BY Zenon DEF receive_retried_RDMA_READ_request
  <2> HIDE DEF offset, r1, res
  <2> QED BY <2>1
<1>3. r1 \in RspType
  BY RemoveOverlappedType
<1> HIDE DEF r1, res
<1>4. /\ Refuse(r, p.psn, "REM_ACCESS") \in RspType
      /\ Refuse(r, p.psn, "INV_REQ") \in RspType
      /\ Refuse(r1, p.psn, "INV_REQ") \in RspType
  BY <1>1, <1>3, RefuseType
<1>5. AnswerRead(r, p, slot.expected_psn) \in RspType
  BY <1>1, AnswerReadType
<1>6. res \in RspType
  BY <1>2, <1>4, <1>5
<1> QED
  BY <1>6 DEF res

LEMMA receive_duplicateType ==
  ASSUME NEW r \in RspType, NEW p \in RequestType
  PROVE  receive_duplicate(r, p) \in RspType
<1> DEFINE hits == {i \in DOMAIN r.slots :
                      /\ r.slots[i].op = p.op
                      /\ InPsnRange(p.psn, r.slots[i].psn,
                                    r.slots[i].expected_psn)}
           slot == r.slots[Min(hits)]
<1>1. p.psn \in Int /\ {"ACK", "INV_REQ"} \subseteq Syndromes
  BY RequestFields, SyndromeNames
<1>2. \/ receive_duplicate(r, p) = push_acknowledge(r, p.psn, "ACK")
      \/ receive_duplicate(r, p) = Refuse(r, p.psn, "INV_REQ")
      \/ hits # {} /\
           \/ receive_duplicate(r, p) = receive_retried_RDMA_READ_request(r, p, slot)
           \/ receive_duplicate(r, p) = receive_retried_Atomic_request(r, p, slot)
  <2>1. receive_duplicate(r, p) =
      IF p.op \notin AtomicOpcodes \cup {"READ_REQUEST"}
      THEN push_acknowledge(r, p.psn, "ACK")
      ELSE IF hits = {} THEN Refuse(r, p.psn, "INV_REQ")
      ELSE IF p.op = "READ_REQUEST"
           THEN receive_retried_RDMA_READ_request(r, p, slot)
      ELSE receive_retried_Atomic_request(r, p, slot)
    BY Zenon DEF receive_duplicate
  <2> HIDE DEF hits, slot
  <2> QED BY <2>1
<1>3. ASSUME hits # {} PROVE slot \in SlotType
  <2> DEFINE l == r.slots
  <2>1. l \in Seq(SlotType)
    BY DEF RspType, SlotType
  <2>2. DOMAIN l = 1 .. Len(l) /\ Len(l) \in Nat
    <3> HIDE DEF l
    <3> QED BY <2>1
  <2>3. hits \subseteq 1 .. Len(l)
    BY <2>2
  <2> HIDE DEF l, hits
  <2>4. hits \subseteq Nat
    BY <2>2, <2>3
  <2>5. Min(hits) \in 1 .. Len(l)
    BY <1>3, <2>3, <2>4, MinIsElement
  <2>6. l[Min(hits)] \in SlotType
    BY <2>1, <2>5
  <2> QED BY <2>6 DEF l
<1> HIDE DEF hits, slot
<1>4. ASSUME hits # {}
      PROVE  /\ receive_retried_RDMA_READ_request(r, p, slot) \in RspType
             /\ receive_retried_Atomic_request(r, p, slot) \in RspType
  <2>1. slot \in SlotType
    BY <1>3, <1>4
  <2>2. slot.res \in Int
    BY <2>1 DEF SlotType
  <2>3. receive_retried_RDMA_READ_request(r, p, slot) \in RspType
    BY <2>1, receive_retried_RDMA_READ_requestType
  <2>4. receive_retried_Atomic_request(r, p, slot) \in RspType
    BY <1>1, <2>2, push_atomic_acknowledgeType DEF receive_retried_Atomic_request
  <2> QED BY <2>3, <2>4
<1>5. /\ push_acknowledge(r, p.psn, "ACK") \in RspType
      /\ Refuse(r, p.psn, "INV_REQ") \in RspType
  BY <1>1, push_acknowledgeType, RefuseType
<1> QED
  BY <1>2, <1>4, <1>5

LEMMA receive_requestType ==
  ASSUME NEW r \in RspType, NEW p \in RequestType, p.op \in RequestOpcodes
  PROVE  receive_request(r, p) \in RspType
<1>1. p.psn \in Int /\ {"PSN_SEQ", "INV_REQ"} \subseteq Syndromes
  BY RequestFields, SyndromeNames
<1>2. receive_new_request(r, p) \in RspType
  <2>1. \/ receive_new_request(r, p) = Refuse(r, p.psn, "INV_REQ")
        \/ receive_new_request(r, p) = receive_SEND_request(r, p)
        \/ receive_new_request(r, p) = receive_RDMA_WRITE_request(r, p)
        \/ receive_new_request(r, p) = receive_new_RDMA_READ_request(r, p)
        \/ receive_new_request(r, p) = receive_Atomic_request(r, p)
    <3> DEFINE ok == pib_opcode_is_in_order_sequence(p.op, r.last_OpCode)
               new == CASE p.op \in SendOpcodes  -> receive_SEND_request(r, p)
                        [] p.op \in WriteOpcodes -> receive_RDMA_WRITE_request(r, p)
                        [] p.op = "READ_REQUEST" -> receive_new_RDMA_READ_request(r, p)
                        [] OTHER -> receive_Atomic_request(r, p)
    <3>1. receive_new_request(r, p) = IF ~ok THEN Refuse(r, p.psn, "INV_REQ") ELSE new
      BY Zenon DEF receive_new_request
    <3>2. \/ new = receive_SEND_request(r, p)
          \/ new = receive_RDMA_WRITE_request(r, p)
          \/ new = receive_new_RDMA_READ_request(r, p)
          \/ new = receive_Atomic_request(r, p)
      <4> DEFINE S == p.op \in SendOpcodes
                 W == p.op \in WriteOpcodes
                 R == p.op = "READ_REQUEST"
      <4>1. CASE S /\ ~W /\ ~R
        BY <4>1
      <4>2. CASE W /\ ~S /\ ~R
        BY <4>2
      <4>3. CASE R /\ ~S /\ ~W
        BY <4>3
      <4>4. CASE ~S /\ ~W /\ ~R
        BY <4>4
      <4>5. /\ ~(S /\ W) /\ ~(S /\ R) /\ ~(W /\ R)
        BY DEF SendOpcodes, WriteOpcodes
      <4> QED BY <4>1, <4>2, <4>3, <4>4, <4>5
    <3> HIDE DEF ok, new
    <3> QED BY <3>1, <3>2
  <2> QED
    BY <1>1, <2>1, RefuseType, receive_SEND_requestType,
       receive_RDMA_WRITE_requestType, receive_new_RDMA_READ_requestType,
       receive_Atomic_requestType
<1>3. \/ receive_request(r, p) = push_acknowledge(r, p.psn, "PSN_SEQ")
      \/ receive_request(r, p) = receive_duplicate(r, p)
      \/ receive_request(r, p) = receive_new_request(r, p)
  <2> DEFINE d == get_psn_diff(p.psn, r.psn)
  <2>1. d \in Int
    <3>1. r.psn \in Int
      BY RspFields
    <3> QED BY <1>1, <3>1, PsnDiffType
  <2>2. receive_request(r, p) =
          CASE d > 0 -> push_acknowledge(r, p.psn, "PSN_SEQ")
            [] d < 0 -> receive_duplicate(r, p)
            [] OTHER -> receive_new_request(r, p)
    BY Zenon DEF receive_request
  <2> HIDE DEF d
  <2>3. CASE d > 0
    BY <2>1, <2>2, <2>3
  <2>4. CASE d < 0
    BY <2>1, <2>2, <2>4
  <2>5. CASE ~(d > 0) /\ ~(d < 0)
    BY <2>1, <2>2, <2>5
  <2> QED BY <2>3, <2>4, <2>5
<1> QED
  BY <1>1, <1>2, <1>3, push_acknowledgeType, receive_duplicateType

-----------------------------------------------------------------------------
(* Acknowledge packets and the responder's steps *)

LEMMA HeadAck ==
  ASSUME NEW r \in RspType, r.acks # <<>>
  PROVE  /\ Head(r.acks) \in AckType /\ Tail(r.acks) \in Seq(AckType)
         /\ r.acks[1] = Head(r.acks)
<1> DEFINE l == r.acks
<1>1. l \in Seq(AckType) /\ l # <<>>
  BY RspFields
<1> HIDE DEF l
<1>2. Head(l) \in AckType /\ Tail(l) \in Seq(AckType) /\ l[1] = Head(l)
  BY <1>1
<1> QED
  BY <1>2 DEF l

ResponseOpcodes ==
  {"ACK", "ATOMIC_ACK", "READ_ONLY", "READ_FIRST", "READ_MIDDLE", "READ_LAST"}

LEMMA AckResponseType ==
  ASSUME NEW op \in ResponseOpcodes, NEW psn \in Int, NEW synd \in Syndromes,
         NEW a \in AckType
  PROVE  <<Response(op, psn, synd, a)>> \in Seq(ResponseType)
<1> DEFINE m == Masked(psn)
           k == a.k + a.offset
           x == Response(op, psn, synd, a)
<1>1. a.wr \in Nat /\ a.k \in Int /\ a.offset \in Int /\ a.res \in Int
  BY DEF AckType
<1>2. m \in Int /\ k \in Int
  <2>1. m \in 0 .. PsnMod - 1
    BY MaskedType
  <2> QED BY <1>1, <2>1, PsnModAssumption
<1>3. x = [op |-> op, psn |-> m, synd |-> synd, wr |-> a.wr, k |-> k,
           res |-> a.res]
  BY DEF Response
<1> HIDE DEF m, k, x
<1>4. x \in ResponseType
  BY <1>1, <1>2, <1>3 DEF ResponseType, ResponseOpcodes
<1>5. <<x>> \in Seq(ResponseType)
  BY <1>4
<1> QED
  BY <1>5 DEF x

LEMMA generate_RDMA_READ_responseType ==
  ASSUME NEW r \in RspType, r.acks # <<>>
  PROVE  generate_RDMA_READ_response(r) \in RspType
<1> DEFINE a  == Head(r.acks)
           o  == a.offset + 1
           b  == [a EXCEPT !.offset = o]
           tx == <<Response(ReadOpcode(a), a.psn + a.offset, "ACK", a)>>
           n  == r.nr_contig_read_acks + 1
           k  == [r.acks EXCEPT ![1] = b]
           r1 == [r EXCEPT !.tx = tx, !.nr_contig_read_acks = n, !.acks = k]
           t  == Tail(k)
           m  == r.nr_rd_atomic - 1
           r2 == [r1 EXCEPT !.acks = t, !.nr_rd_atomic = m]
<1>1. a \in AckType /\ r.acks[1] = a /\ r.acks \in Seq(AckType)
  BY HeadAck, RspFields
<1>2. a.psn \in Int /\ a.offset \in Int /\ a.expected_psn \in Int
  BY <1>1 DEF AckType
<1>3. o \in Int /\ a.psn + a.offset \in Int
  BY <1>2
<1>4. b \in AckType
  <2> HIDE DEF a, o
  <2> QED BY <1>1, <1>3 DEF AckType
<1>5. tx \in Seq(ResponseType)
  <2>1. ReadOpcode(a) \in ResponseOpcodes
    BY DEF ReadOpcode, ResponseOpcodes
  <2>2. "ACK" \in Syndromes
    BY SyndromeNames
  <2> QED BY <1>1, <1>3, <2>1, <2>2, AckResponseType
<1>6. n \in Nat /\ m \in Int
  BY RspFields
<1>7. k \in Seq(AckType) /\ k # <<>>
  <2> DEFINE l == r.acks
  <2>1. l \in Seq(AckType) /\ Len(l) \in Nat /\ Len(l) # 0
    <3>1. l \in Seq(AckType) /\ l # <<>>
      BY <1>1
    <3> HIDE DEF l
    <3> QED BY <3>1
  <2>2. [l EXCEPT ![1] = b] \in Seq(AckType) /\ Len([l EXCEPT ![1] = b]) = Len(l)
    <3> HIDE DEF l, b
    <3> QED BY <1>4, <2>1, SetElement
  <2> HIDE DEF k, l
  <2>3. k \in Seq(AckType) /\ Len(k) # 0
    BY <2>1, <2>2 DEF k, l
  <2> QED BY <2>3
<1>8. t \in Seq(AckType)
  <2> HIDE DEF k
  <2> QED BY <1>7
<1>9. \/ generate_RDMA_READ_response(r) = r
      \/ generate_RDMA_READ_response(r) = r1
      \/ generate_RDMA_READ_response(r) = r2
  <2> DEFINE s1 == [r EXCEPT !.tx = tx, !.nr_contig_read_acks = @ + 1,
                             !.acks[1].offset = @ + 1]
  <2>1. generate_RDMA_READ_response(r) =
          IF MaxContigReads < r.nr_contig_read_acks \/ ~r.mr THEN r
          ELSE IF a.offset + 1 < a.size THEN s1
          ELSE [s1 EXCEPT !.acks = Tail(@), !.nr_rd_atomic = @ - 1]
    BY Zenon DEF generate_RDMA_READ_response
  <2>2. s1 = r1
    <3> DEFINE u == r.acks[1].offset + 1
    <3>1. u = o
      BY <1>1
    <3>2. r.acks[1] = a
      BY <1>1
    <3> HIDE DEF a, tx
    <3> QED BY <3>1, <3>2
  <2>3. r1.acks = k /\ r1.nr_rd_atomic = r.nr_rd_atomic
    <3> HIDE DEF tx, n, k
    <3> QED BY DEF RspType
  <2> HIDE DEF s1, r1, a, k
  <2>4. [s1 EXCEPT !.acks = Tail(@), !.nr_rd_atomic = @ - 1] = r2
    BY <2>2, <2>3
  <2> HIDE DEF r2
  <2> QED BY <2>1, <2>2, <2>4
<1> HIDE DEF a, tx, n, k, t, m
<1>10. r1 \in RspType
  BY <1>5, <1>6, <1>7, ZenonT(30) DEF RspType
<1> HIDE DEF r1
<1>11. r2 \in RspType
  BY <1>6, <1>8, <1>10, ZenonT(30) DEF RspType
<1> HIDE DEF r2
<1> QED
  BY <1>9, <1>10, <1>11

LEMMA AcknowledgeType ==
  ASSUME NEW r \in RspType, r.acks # <<>>
  PROVE  pib_generate_rc_qp_acknowledge(r) \in RspType
<1> DEFINE a   == Head(r.acks)
           tx1 == <<Response("ATOMIC_ACK", a.psn, "ACK", a)>>
           tx2 == <<Response("ACK", a.psn, a.synd, a)>>
           t   == Tail(r.acks)
           m   == r.nr_rd_atomic - 1
           r1  == [r EXCEPT !.tx = tx1, !.acks = t, !.nr_rd_atomic = m]
           r2  == [r EXCEPT !.tx = tx2, !.acks = t]
<1>1. a \in AckType /\ t \in Seq(AckType)
  BY HeadAck
<1>2. a.psn \in Int /\ a.synd \in Syndromes /\ "ACK" \in Syndromes
  BY <1>1, SyndromeNames DEF AckType
<1>3. tx1 \in Seq(ResponseType) /\ tx2 \in Seq(ResponseType)
  <2>1. {"ATOMIC_ACK", "ACK"} \subseteq ResponseOpcodes
    BY DEF ResponseOpcodes
  <2> QED BY <1>1, <1>2, <2>1, AckResponseType
<1>4. m \in Int
  BY RspFields
<1>5. \/ pib_generate_rc_qp_acknowledge(r) = generate_RDMA_READ_response(r)
      \/ pib_generate_rc_qp_acknowledge(r) = r1
      \/ pib_generate_rc_qp_acknowledge(r) = r2
  <2>1. pib_generate_rc_qp_acknowledge(r) =
          CASE a.type = "READ" -> generate_RDMA_READ_response(r)
            [] a.type = "ATOMIC" -> r1
            [] OTHER -> r2
    BY DEF pib_generate_rc_qp_acknowledge
  <2> HIDE DEF a, r1, r2
  <2>2. CASE a.type = "READ"
    BY <2>1, <2>2
  <2>3. CASE a.type = "ATOMIC"
    BY <2>1, <2>3
  <2>4. CASE a.type # "READ" /\ a.type # "ATOMIC"
    BY <2>1, <2>4
  <2> QED BY <2>2, <2>3, <2>4
<1> HIDE DEF tx1, tx2, t, m
<1>6. r1 \in RspType /\ r2 \in RspType
  BY <1>1, <1>3, <1>4, ZenonT(30) DEF RspType
<1> HIDE DEF r1, r2
<1> QED
  BY <1>5, <1>6, generate_RDMA_READ_responseType

LEMMA receive_packetType ==
  ASSUME NEW r \in RspType, NEW p \in RequestType
  PROVE  receive_packet(r, p) \in RspType
<1>1. receive_cnp_notify(r) \in RspType
  <2> DEFINE z == 0
  <2>1. z \in Nat /\ receive_cnp_notify(r) = [r EXCEPT !.nr_contig_read_acks = z]
    BY DEF receive_cnp_notify
  <2> HIDE DEF z
  <2> QED BY <2>1, ZenonT(30) DEF RspType
<1>2. p.op = "CNP" \/ p.op \in RequestOpcodes
  BY RequestFields
<1> QED
  BY <1>1, <1>2, receive_requestType DEF receive_packet

LEMMA post_recvType ==
  ASSUME NEW r \in RspType, NEW size \in RecvSizes
  PROVE  /\ post_recv(r, size) \in RspType /\ post_recv(r, size).tx = r.tx
         /\ post_recv(r, size).on = r.on /\ post_recv(r, size).acks = r.acks
<1> DEFINE id == r.posted + 1
           r1 == [r EXCEPT !.posted = id]
           e  == <<>>
           w  == [id |-> id, size |-> size]
           l  == Append(r.rq, w)
           r2 == [r1 EXCEPT !.rq = l]
           r3 == insert_recv_wc(r1, id, "WR_FLUSH_ERR", e)
<1>1. id \in Nat
  BY RspFields
<1>2. e \in Seq(Nat \X Int) /\ "WR_FLUSH_ERR" \in Statuses
  BY DEF Statuses
<1>3. r1.rq = r.rq
  BY DEF RspType
<1>4. post_recv(r, size) = r2 \/ post_recv(r, size) = r3
  <2> HIDE DEF r1
  <2> QED BY <1>3 DEF post_recv, r1
<1>5. l \in Seq(RwqeType)
  <2>1. w \in RwqeType
    BY <1>1, ConstantTypes DEF RwqeType
  <2>2. r.rq \in Seq(RwqeType)
    BY RspFields
  <2> HIDE DEF w
  <2> QED BY <2>1, <2>2
<1> HIDE DEF id, l, e
<1>6. r1 \in RspType /\ r1.tx = r.tx /\ r1.on = r.on /\ r1.acks = r.acks
  BY <1>1, ZenonT(30) DEF RspType
<1> HIDE DEF r1
<1>7. r2 \in RspType /\ r2.tx = r1.tx /\ r2.on = r1.on /\ r2.acks = r1.acks
  BY <1>5, <1>6, ZenonT(30) DEF RspType, RwqeType
<1>8. r3 \in RspType
  BY <1>1, <1>2, <1>6, insert_recv_wcType
<1>9. r3.tx = r1.tx /\ r3.on = r1.on /\ r3.acks = r1.acks
  BY <1>6 DEF insert_recv_wc, RspType
<1> HIDE DEF r2, r3
<1> QED
  BY <1>4, <1>6, <1>7, <1>8, <1>9

(* A step of the responder's thread.                                       *)
LEMMA ResponderStepType ==
  ASSUME NEW r \in RspType, toReq \in Seq(ResponseType), ResponderStep(r)
  PROVE  /\ rsp' \in RspType /\ rsp'.tx = <<>>
         /\ rsp'.on => rsp'.acks # <<>>
         /\ toReq' \in Seq(ResponseType)
<1> DEFINE s == reschedule_rsp(r)
           e == <<>>
           p == [s EXCEPT !.tx = e]
<1>1. rsp' = p /\ toReq' = toReq \o r.tx
  BY DEF ResponderStep
<1>2. r.tx \in Seq(ResponseType)
  BY RspFields
<1>3. toReq' \in Seq(ResponseType)
  BY <1>1, <1>2
<1>4. s \in RspType /\ s.acks = r.acks
  BY reschedule_rspType
<1>5. s.on => r.acks # <<>>
  BY DEF reschedule_rsp, RspType
<1>6. e \in Seq(ResponseType)
  OBVIOUS
<1> HIDE DEF s, e
<1>7. p \in RspType /\ p.on = s.on /\ p.acks = s.acks /\ p.tx = e
  BY <1>4, <1>6, ZenonT(30) DEF RspType
<1> HIDE DEF p
<1> QED
  BY <1>1, <1>3, <1>4, <1>5, <1>7 DEF e

-----------------------------------------------------------------------------
(* The inductive invariant of the connection.  A responder that is in the  *)
(* scheduling tree has an acknowledge to send; its pass reads the head.    *)
IInv ==
  /\ ReqInv(req) /\ req.tx = <<>>
  /\ rsp \in RspType /\ rsp.tx = <<>>
  /\ rsp.on => rsp.acks # <<>>
  /\ toRsp \in Seq(RequestType) /\ toReq \in Seq(ResponseType)
  /\ faults \in Nat

LEMMA InitIInv == Init => IInv
<1> SUFFICES ASSUME Init PROVE IInv
  OBVIOUS
<1>1. /\ req.tx = <<>> /\ rsp.tx = <<>> /\ ~rsp.on
      /\ toRsp \in Seq(RequestType) /\ toReq \in Seq(ResponseType)
      /\ faults \in Nat
  BY DEF Init
<1>2. ReqInv(req)
  <2> DEFINE e == <<>>
             z == 0
  <2>1. /\ e \in Seq(Nat) /\ e \in Seq(SwqeType) /\ e \in Seq(RequestType)
        /\ e \in Seq(SendWc) /\ Len(e) = z /\ z \in Nat /\ z \in Int
    OBVIOUS
  <2>2. InitPsn \in Int
    BY ConstantTypes
  <2>3. CompletedInOrder(e) /\ InOrder(e, e, e, Len(e), z)
    <3>1. Len(e) = 0 /\ \A x : Consecutive(e, x)
      BY ConsecutiveEmpty
    <3> QED BY <3>1 DEF CompletedInOrder, InOrder
  <2>4. req = [state |-> "RTS", submitted |-> e, sending |-> e,
               waiting |-> e, wqe |-> e, psn |-> InitPsn,
               expected_psn |-> InitPsn, nr_rd_atomic |-> z,
               nr_contig_requests |-> z, nr_contig_read_acks |-> z,
               on |-> FALSE, cq |-> e, tx |-> e]
    BY DEF Init
  <2> HIDE DEF e, z
  <2>5. req \in ReqType
    BY <2>1, <2>2, <2>4 DEF ReqType, SendWc
  <2>6. /\ req.cq = e /\ req.waiting = e /\ req.sending = e /\ req.submitted = e
        /\ req.wqe = e /\ req.state = "RTS"
    BY <2>4
  <2> QED
    BY <2>1, <2>3, <2>5, <2>6 DEF ReqInv, Requester, OrderedFrom, Drained
<1>3. rsp \in RspType
  <2> DEFINE e  == <<>>
             z  == 0
             rq == [i \in DOMAIN Preposted |-> [id |-> i, size |-> Preposted[i]]]
             n  == Len(Preposted)
  <2>1. /\ e \in Seq(Nat \X Int) /\ e \in Seq(AckType) /\ e \in Seq(SlotType)
        /\ e \in Seq(RecvWc) /\ e \in Seq(ResponseType)
        /\ z \in Nat /\ z \in Int
    OBVIOUS
  <2>2. InitPsn \in Int /\ "SEND_ONLY" \in RequestOpcodes
    BY ConstantTypes DEF RequestOpcodes, SendOpcodes
  <2>3. n \in Nat /\ rq \in Seq(RwqeType)
    <3>1. Preposted \in Seq(RecvSizes) /\ RecvSizes \subseteq Nat
      BY RCAssumption
    <3>2. /\ n \in Nat /\ DOMAIN Preposted = 1 .. n
          /\ \A i \in 1 .. n : Preposted[i] \in RecvSizes
      BY <3>1
    <3>3. ASSUME NEW i \in 1 .. n PROVE [id |-> i, size |-> Preposted[i]] \in RwqeType
      <4>1. i \in Nat /\ Preposted[i] \in Nat
        <5> HIDE DEF n
        <5>1. Preposted[i] \in RecvSizes
          BY <3>2
        <5>2. i \in Nat
          BY <3>2
        <5> QED BY <3>1, <5>1, <5>2
      <4> QED BY <4>1 DEF RwqeType
    <3> HIDE DEF n
    <3>4. rq \in [1 .. n -> RwqeType]
      BY <3>2, <3>3
    <3> HIDE DEF rq
    <3> QED BY <3>2, <3>4, SeqDef
  <2>4. rsp = [state |-> "RTS", psn |-> InitPsn, last_OpCode |-> "SEND_ONLY",
            data |-> e, write_rkey |-> FALSE, write_dmalen |-> z,
            rq |-> rq, posted |-> n, acks |-> e, slots |-> e,
            nr_rd_atomic |-> z, nr_contig_read_acks |-> z, on |-> FALSE,
            cq |-> e, word |-> z, log |-> e, mr |-> TRUE, tx |-> e]
    BY DEF Init
  <2> HIDE DEF e, z, rq, n
  <2> QED
    BY <2>1, <2>2, <2>3, <2>4 DEF RspType, RwqeType, RecvWc, SlotType
<1> QED
  BY <1>1, <1>2, <1>3 DEF IInv

(* A datagram that is delivered, lost, repeated or delayed leaves a        *)
(* sequence of datagrams.                                                  *)
LEMMA WireType ==
  ASSUME NEW S, NEW wire \in Seq(S), wire # <<>>
  PROVE  /\ Head(wire) \in S /\ Tail(wire) \in Seq(S)
         /\ Disturbed(wire) \subseteq Seq(S)
<1>1. Head(wire) \in S /\ Tail(wire) \in Seq(S)
  OBVIOUS
<1> DEFINE h == Head(wire)
           t == Tail(wire)
<1> HIDE DEF h, t
<1>2. Append(wire, h) \in Seq(S) /\ Append(t, h) \in Seq(S)
  BY <1>1 DEF h, t
<1> QED
  BY <1>1, <1>2 DEF Disturbed, h, t

LEMMA NextIInv == IInv /\ [Next]_vars => IInv'
<1> SUFFICES ASSUME IInv, [Next]_vars PROVE IInv'
  OBVIOUS
<1>1. /\ ReqInv(req) /\ req.tx = <<>> /\ rsp \in RspType /\ rsp.tx = <<>>
      /\ rsp.on => rsp.acks # <<>>
      /\ toRsp \in Seq(RequestType) /\ toReq \in Seq(ResponseType)
      /\ faults \in Nat
  BY DEF IInv
<1>2. CASE PostSend
  <2>1. PICK w \in WRs : req' = post_send(req, w)
    BY <1>2 DEF PostSend
  <2>2. UNCHANGED <<rsp, toRsp, toReq, faults>>
    BY <1>2 DEF PostSend
  <2>3. ReqInv(req') /\ req'.tx = <<>>
    BY <1>1, <2>1, post_sendType
  <2> QED BY <1>1, <2>2, <2>3 DEF IInv
<1>3. CASE PostRecv
  <2>1. PICK size \in RecvSizes : rsp' = post_recv(rsp, size)
    BY <1>3 DEF PostRecv
  <2>2. UNCHANGED <<req, toRsp, toReq, faults>>
    BY <1>3 DEF PostRecv
  <2>3. rsp' \in RspType /\ rsp'.tx = <<>> /\ (rsp'.on => rsp'.acks # <<>>)
    BY <1>1, <2>1, post_recvType
  <2> QED BY <1>1, <2>2, <2>3 DEF IInv
<1>4. CASE DeregMr
  <2>1. rsp' = [rsp EXCEPT !.mr = FALSE] /\ UNCHANGED <<req, toRsp, toReq, faults>>
    BY <1>4 DEF DeregMr
  <2>2. rsp' \in RspType /\ rsp'.tx = <<>> /\ (rsp'.on => rsp'.acks # <<>>)
    BY <1>1, <2>1, ZenonT(30) DEF RspType
  <2> QED BY <1>1, <2>1, <2>2 DEF IInv
<1>5. ASSUME NEW q, ReqInv(q), first_sending_wsqe(q)
      PROVE  ReqInv(req') /\ req'.tx = <<>> /\ toRsp' \in Seq(RequestType)
  <2>1. RequesterStep(SendFirst(StartNext(q)))
    BY <1>5 DEF first_sending_wsqe
  <2>2. ReqInv(SendFirst(StartNext(q)))
    BY <1>5, StartNextType, SendFirstType
  <2> QED BY <1>1, <2>1, <2>2, RequesterStepType
<1>6. CASE RequesterPass
  <2>1. first_sending_wsqe(req) /\ UNCHANGED <<rsp, toReq, faults>>
    BY <1>6 DEF RequesterPass
  <2> QED BY <1>1, <1>5, <2>1 DEF IInv
<1>7. CASE TimeoutPass
  <2>1. /\ first_sending_wsqe(LocalAckTimeout(req)) /\ UNCHANGED <<rsp, toReq>>
        /\ req.waiting # <<>> /\ (faults' = faults \/ faults' = faults + 1)
    BY <1>7 DEF TimeoutPass
  <2>2. ReqInv(LocalAckTimeout(req))
    <3>1. Len(req.cq) \in Nat /\ Requester(req, Len(req.cq))
      BY <1>1, ReqFields DEF ReqInv, Requester
    <3> QED BY <2>1, <3>1, LocalAckTimeoutType DEF ReqInv
  <2>3. ReqInv(req') /\ req'.tx = <<>> /\ toRsp' \in Seq(RequestType)
    BY <1>5, <2>1, <2>2
  <2>4. faults' \in Nat
    BY <1>1, <2>1
  <2> QED BY <1>1, <2>1, <2>3, <2>4 DEF IInv
<1>8. CASE ReceiveResponse
  <2> DEFINE q == IF req.state = "ERR" THEN req
                  ELSE receive_response(req, Head(toReq))
  <2>1. /\ toReq # <<>> /\ toReq' = Tail(toReq) /\ RequesterStep(q)
        /\ UNCHANGED <<rsp, faults>>
    BY <1>8 DEF ReceiveResponse
  <2>2. Head(toReq) \in ResponseType /\ toReq' \in Seq(ResponseType)
    BY <1>1, <2>1, WireType
  <2>3. ReqInv(q)
    BY <1>1, <2>2, receive_responseType
  <2> HIDE DEF q
  <2>4. ReqInv(req') /\ req'.tx = <<>> /\ toRsp' \in Seq(RequestType)
    BY <1>1, <2>1, <2>3, RequesterStepType
  <2> QED BY <1>1, <2>1, <2>2, <2>4 DEF IInv
<1>9. CASE ReceiveRequest
  <2>1. /\ toRsp # <<>> /\ toRsp' = Tail(toRsp)
        /\ ResponderStep(receive_packet(rsp, Head(toRsp)))
        /\ UNCHANGED <<req, faults>>
    BY <1>9 DEF ReceiveRequest
  <2>2. Head(toRsp) \in RequestType /\ toRsp' \in Seq(RequestType)
    BY <1>1, <2>1, WireType
  <2>3. receive_packet(rsp, Head(toRsp)) \in RspType
    BY <1>1, <2>2, receive_packetType
  <2>4. /\ rsp' \in RspType /\ rsp'.tx = <<>> /\ (rsp'.on => rsp'.acks # <<>>)
        /\ toReq' \in Seq(ResponseType)
    BY <1>1, <2>1, <2>3, ResponderStepType
  <2> QED BY <1>1, <2>1, <2>2, <2>4 DEF IInv
<1>10. CASE ResponderPass
  <2>1. /\ rsp.on /\ ResponderStep(pib_generate_rc_qp_acknowledge(rsp))
        /\ UNCHANGED <<req, toRsp, faults>>
    BY <1>10 DEF ResponderPass
  <2>2. pib_generate_rc_qp_acknowledge(rsp) \in RspType
    BY <1>1, <2>1, AcknowledgeType
  <2>3. /\ rsp' \in RspType /\ rsp'.tx = <<>> /\ (rsp'.on => rsp'.acks # <<>>)
        /\ toReq' \in Seq(ResponseType)
    BY <1>1, <2>1, <2>2, ResponderStepType
  <2> QED BY <1>1, <2>1, <2>3 DEF IInv
<1>11. CASE NetworkFault
  <2>1. faults' \in Nat /\ UNCHANGED <<req, rsp>>
    BY <1>1, <1>11 DEF NetworkFault
  <2>2. toRsp' \in Seq(RequestType) /\ toReq' \in Seq(ResponseType)
    <3>1. CASE toRsp # <<>> /\ toRsp' \in Disturbed(toRsp) /\ UNCHANGED toReq
      BY <1>1, <3>1, WireType
    <3>2. CASE toReq # <<>> /\ toReq' \in Disturbed(toReq) /\ UNCHANGED toRsp
      BY <1>1, <3>2, WireType
    <3> QED BY <1>11, <3>1, <3>2 DEF NetworkFault
  <2> QED BY <1>1, <2>1, <2>2 DEF IInv
<1>12. CASE UNCHANGED vars
  BY <1>1, <1>12 DEF IInv, vars
<1> QED
  BY <1>2, <1>3, <1>4, <1>6, <1>7, <1>8, <1>9, <1>10, <1>11, <1>12 DEF Next

LEMMA IInvImplies == IInv => TypeOK /\ QueueOrder
<1> SUFFICES ASSUME IInv PROVE TypeOK /\ QueueOrder
  OBVIOUS
<1>1. /\ req \in ReqType /\ CompletedInOrder(req.cq)
      /\ OrderedFrom(req, Len(req.cq)) /\ Requester(req, Len(req.cq))
  BY DEF IInv, ReqInv, Requester
<1>2. ListsOK(req)
  BY <1>1, ReqFields, ListsExist
<1> QED
  BY <1>1, <1>2 DEF IInv, TypeOK, QueueOrder

(* In every reachable state of a connection, whatever the work requests,   *)
(* retry limits, windows and faults, both queue pairs and all datagrams    *)
(* are well formed: no handler takes the head of an empty list, names a    *)
(* WQE that does not exist or leaves a packet in the send buffer.          *)
THEOREM TypeCorrect == Spec => []TypeOK
<1>1. Init => IInv
  BY InitIInv
<1>2. IInv /\ [Next]_vars => IInv'
  BY NextIInv
<1>3. IInv => TypeOK
  BY IInvImplies
<1> QED
  BY <1>1, <1>2, <1>3, PTL DEF Spec

(* Work requests complete in posting order and each exactly once, and the  *)
(* waiting, sending and submitted lists always hold exactly those not yet  *)
(* completed, in order: no retry, NAK, timeout, error or flush loses,      *)
(* repeats or reorders one.                                                *)
THEOREM CompletionsInOrder == Spec => []QueueOrder
<1>1. Init => IInv
  BY InitIInv
<1>2. IInv /\ [Next]_vars => IInv'
  BY NextIInv
<1>3. IInv => QueueOrder
  BY IInvImplies
<1> QED
  BY <1>1, <1>2, <1>3, PTL DEF Spec
=============================================================================
