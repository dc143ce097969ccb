--------------------------- MODULE PibLists_proofs --------------------------
(***************************************************************************)
(* Facts about lists that the proofs about several components need: what   *)
(* the list operations of the kernel (list_add_tail, list_del_init of the  *)
(* first entry, list_splice) do to the elements of a list and their order. *)
(* Induction over the naturals is used in its set form, which follows from *)
(* the well-foundedness of < in the library of theorems.                   *)
(***************************************************************************)
EXTENDS Integers, Sequences, FiniteSets, FiniteSetsExt, FiniteSetTheorems,
        SequenceTheorems, WellFoundedInduction, TLAPS

(* Every nonempty set of naturals has a least element, so the Min by which *)
(* match_send_wqe, the duplicate search and detect_in_port pick one of a   *)
(* list or a table is in it.                                               *)
LEMMA MinIsElement ==
  ASSUME NEW T, T \subseteq Nat, T # {}
  PROVE  Min(T) \in T /\ \A y \in T : Min(T) <= y
<1> DEFINE R == {ss \in Nat \X Nat : ss[1] < ss[2]}
<1>1. IsWellFoundedOn(R, Nat)
  BY NatLessThanWellFounded DEF OpToRel
<1>2. PICK x \in T : \A y \in T : ~ (<<y, x>> \in R)
  <2> HIDE DEF R
  <2> QED BY <1>1, WFMin
<1>3. ASSUME NEW y \in T PROVE x <= y
  <2>1. x \in Nat /\ y \in Nat
    OBVIOUS
  <2>2. ~ (y < x)
    BY <1>2, <2>1
  <2> QED BY <2>1, <2>2
<1> QED
  BY <1>3 DEF Min

(* Induction over the naturals, for a set instead of a predicate.          *)
LEMMA SetInduction ==
  ASSUME NEW T, T \subseteq Nat, 0 \in T, \A n \in T : n + 1 \in T
  PROVE  Nat \subseteq T
<1> SUFFICES ASSUME Nat \ T # {} PROVE FALSE
  OBVIOUS
<1> DEFINE x == Min(Nat \ T)
<1>1. x \in Nat \ T /\ \A y \in Nat \ T : x <= y
  <2>1. Nat \ T \subseteq Nat
    OBVIOUS
  <2> QED BY <2>1, MinIsElement
<1> HIDE DEF x
<1>2. x # 0 /\ x - 1 \in Nat
  BY <1>1
<1>3. x - 1 \in T
  BY <1>1, <1>2
<1>4. (x - 1) + 1 = x /\ (x - 1) + 1 \in T
  BY <1>1, <1>3
<1> QED
  BY <1>1, <1>4

(* A table indexed from 1 is a list.                                       *)
LEMMA FunctionIsSeq ==
  ASSUME NEW S, NEW n \in Nat, NEW f \in [1 .. n -> S]
  PROVE  f \in Seq(S) /\ Len(f) = n
<1>1. f \in Seq(S)
  BY SeqDef
<1> QED
  BY <1>1

(* Every element of S is on the list s, and only once.                     *)
Once(s, S) ==
  \A x \in S : \E k \in 1 .. Len(s) :
    s[k] = x /\ \A l \in 1 .. Len(s) : s[l] = x => l = k

(* Counting the places of an element on such a list gives one.             *)
LEMMA OnceCardinality ==
  ASSUME NEW S, NEW s \in Seq(S), Once(s, S), NEW x \in S
  PROVE  Cardinality({k \in DOMAIN s : s[k] = x}) = 1
<1>1. PICK k \in 1 .. Len(s) :
        s[k] = x /\ \A l \in 1 .. Len(s) : s[l] = x => l = k
  BY DEF Once
<1>2. {l \in DOMAIN s : s[l] = x} = {k}
  BY <1>1, LenProperties
<1> QED
  BY <1>2, FS_Singleton

(* Two neighbouring pieces of a list may change places.                    *)
LEMMA OnceSwap ==
  ASSUME NEW S, NEW p \in Seq(S), NEW s \in Seq(S), NEW t \in Seq(S),
         Once(p \o (s \o t), S)
  PROVE  Once(p \o (t \o s), S)
<1> DEFINE a == p \o (s \o t)
           b == p \o (t \o s)
           n == Len(p)
           m == Len(s)
           o == Len(t)
           To(k) == IF k <= n THEN k
                    ELSE IF k <= n + m THEN k + o ELSE k - m
           From(k) == IF k <= n THEN k
                      ELSE IF k <= n + o THEN k + m ELSE k - o
<1>1. n \in Nat /\ m \in Nat /\ o \in Nat
  OBVIOUS
<1>2. /\ s \o t \in Seq(S) /\ Len(s \o t) = m + o
      /\ \A i \in 1 .. m + o :
           (s \o t)[i] = IF i <= m THEN s[i] ELSE t[i - m]
  BY ConcatProperties
<1>3. /\ t \o s \in Seq(S) /\ Len(t \o s) = m + o
      /\ \A i \in 1 .. m + o :
           (t \o s)[i] = IF i <= o THEN t[i] ELSE s[i - o]
  BY ConcatProperties
<1>4. /\ Len(a) = n + m + o
      /\ \A i \in 1 .. n + m + o :
           a[i] = IF i <= n THEN p[i] ELSE (s \o t)[i - n]
  BY <1>1, <1>2, ConcatProperties
<1>5. /\ Len(b) = n + m + o
      /\ \A i \in 1 .. n + m + o :
           b[i] = IF i <= n THEN p[i] ELSE (t \o s)[i - n]
  BY <1>1, <1>3, ConcatProperties
<1>6. ASSUME NEW i \in 1 .. n + m + o
      PROVE  To(i) \in 1 .. n + m + o /\ b[To(i)] = a[i]
  BY <1>1, <1>2, <1>3, <1>4, <1>5
<1>7. ASSUME NEW i \in 1 .. n + m + o
      PROVE  /\ From(i) \in 1 .. n + m + o /\ a[From(i)] = b[i]
             /\ To(From(i)) = i
  BY <1>1, <1>2, <1>3, <1>4, <1>5
<1> SUFFICES ASSUME NEW x \in S
             PROVE  \E k \in 1 .. Len(b) :
                      b[k] = x /\ \A l \in 1 .. Len(b) : b[l] = x => l = k
  BY DEF Once
<1>8. PICK k \in 1 .. Len(a) :
        a[k] = x /\ \A l \in 1 .. Len(a) : a[l] = x => l = k
  BY DEF Once
<1> HIDE DEF a, b, To, From, n, m, o
<1>9. To(k) \in 1 .. Len(b) /\ b[To(k)] = x
  BY <1>4, <1>5, <1>6, <1>8
<1>10. ASSUME NEW l \in 1 .. Len(b), b[l] = x PROVE l = To(k)
  <2>1. From(l) \in 1 .. Len(a) /\ a[From(l)] = x /\ To(From(l)) = l
    BY <1>4, <1>5, <1>7, <1>10
  <2> QED BY <1>8, <2>1
<1> QED
  BY <1>9, <1>10

-----------------------------------------------------------------------------
(* A list is its first entry and the rest.                                 *)
LEMMA HeadAndTail ==
  ASSUME NEW S, NEW s \in Seq(S), s # <<>>
  PROVE  /\ Head(s) \in S /\ Tail(s) \in Seq(S) /\ Head(s) = s[1]
         /\ Len(s) \in Nat \ {0} /\ Len(Tail(s)) = Len(s) - 1
         /\ \A i \in 1 .. Len(s) - 1 : Tail(s)[i] = s[i + 1]
         /\ <<Head(s)>> \o Tail(s) = s
<1>1. /\ Head(s) \in S /\ Tail(s) \in Seq(S) /\ Head(s) = s[1]
      /\ Len(s) \in Nat \ {0} /\ Len(Tail(s)) = Len(s) - 1
      /\ \A i \in 1 .. Len(s) - 1 : Tail(s)[i] = s[i + 1]
  BY HeadTailProperties, EmptySeq
<1> DEFINE h == <<Head(s)>>
           t == Tail(s)
<1>2. h \in Seq(S) /\ Len(h) = 1 /\ h[1] = s[1]
  BY <1>1
<1> HIDE DEF h
<1>3. /\ h \o t \in Seq(S) /\ Len(h \o t) = Len(s)
      /\ \A i \in 1 .. Len(s) :
           (h \o t)[i] = IF i <= 1 THEN h[i] ELSE t[i - 1]
  <2>1. t \in Seq(S) /\ Len(h) + Len(t) = Len(s)
    BY <1>1, <1>2
  <2>2. /\ h \o t \in Seq(S) /\ Len(h \o t) = Len(h) + Len(t)
        /\ \A i \in 1 .. Len(h) + Len(t) :
             (h \o t)[i] = IF i <= Len(h) THEN h[i] ELSE t[i - Len(h)]
    BY <1>2, <2>1, ConcatProperties
  <2> QED BY <1>2, <2>1, <2>2
<1>4. ASSUME NEW i \in 1 .. Len(s) PROVE (h \o t)[i] = s[i]
  <2>1. CASE i = 1
    BY <2>1, <1>1, <1>2, <1>3
  <2>2. CASE i # 1
    <3>1. i - 1 \in 1 .. Len(s) - 1 /\ (i - 1) + 1 = i /\ ~ (i <= 1)
      BY <2>2, <1>1
    <3>2. t[i - 1] = s[i]
      BY <3>1, <1>1
    <3> QED BY <3>1, <3>2, <1>3
  <2> QED BY <2>1, <2>2
<1>5. h \o t = s
  BY <1>3, <1>4, SeqEqual
<1> QED
  BY <1>1, <1>5 DEF h

(* The first entry of a list with another one behind it.                   *)
LEMMA HeadOfConcat ==
  ASSUME NEW S, NEW s \in Seq(S), NEW t \in Seq(S), s # <<>>
  PROVE  /\ s \o t \in Seq(S) /\ s \o t # <<>>
         /\ Head(s \o t) = Head(s)
         /\ Tail(s \o t) = Tail(s) \o t
<1>1. /\ s \o t \in Seq(S) /\ s \o t # <<>> /\ Len(s \o t) = Len(s) + Len(t)
      /\ \A i \in 1 .. Len(s) + Len(t) : (s \o t)[i] =
           IF i <= Len(s) THEN s[i] ELSE t[i - Len(s)]
  BY ConcatProperties, ConcatEqualIffEmpty
<1>2. /\ Tail(s) \in Seq(S) /\ Head(s) = s[1]
      /\ Len(s) \in Nat \ {0} /\ Len(Tail(s)) = Len(s) - 1
      /\ \A i \in 1 .. Len(s) - 1 : Tail(s)[i] = s[i + 1]
  BY HeadAndTail
<1>3. /\ Tail(s \o t) \in Seq(S) /\ Head(s \o t) = (s \o t)[1]
      /\ Len(Tail(s \o t)) = Len(s) + Len(t) - 1
      /\ \A i \in 1 .. Len(s) + Len(t) - 1 : Tail(s \o t)[i] = (s \o t)[i + 1]
  BY <1>1, HeadAndTail
<1>4. /\ Tail(s) \o t \in Seq(S) /\ Len(Tail(s) \o t) = Len(s) - 1 + Len(t)
      /\ \A i \in 1 .. Len(s) - 1 + Len(t) : (Tail(s) \o t)[i] =
           IF i <= Len(s) - 1 THEN Tail(s)[i] ELSE t[i - (Len(s) - 1)]
  BY <1>2, ConcatProperties
<1>5. Len(t) \in Nat
  OBVIOUS
<1>6. ASSUME NEW i \in 1 .. Len(s) + Len(t) - 1
      PROVE  Tail(s \o t)[i] = (Tail(s) \o t)[i]
  <2>1. /\ i + 1 \in 1 .. Len(s) + Len(t) /\ i \in 1 .. Len(s) - 1 + Len(t)
        /\ (i + 1) - Len(s) = i - (Len(s) - 1)
    BY <1>2, <1>5
  <2>2. CASE i <= Len(s) - 1
    <3>1. i \in 1 .. Len(s) - 1 /\ i + 1 <= Len(s)
      BY <2>2, <1>2, <1>5
    <3>2. Tail(s \o t)[i] = s[i + 1]
      BY <1>1, <1>3, <2>1, <3>1
    <3>3. (Tail(s) \o t)[i] = s[i + 1]
      BY <1>2, <1>4, <2>1, <3>1
    <3> QED BY <3>2, <3>3
  <2>3. CASE ~ (i <= Len(s) - 1)
    <3>1. ~ (i + 1 <= Len(s))
      BY <2>3, <1>2, <1>5
    <3> QED BY <1>1, <1>3, <1>4, <2>1, <2>3, <3>1
  <2> QED BY <2>2, <2>3
<1>7. Tail(s \o t) = Tail(s) \o t
  BY <1>2, <1>3, <1>4, <1>5, <1>6, SeqEqual
<1>8. Head(s \o t) = Head(s)
  BY <1>1, <1>2, <1>3, <1>5
<1> QED
  BY <1>1, <1>7, <1>8

-----------------------------------------------------------------------------
(* Three lists one after the other, as pib_util_flush_qp walks the waiting *)
(* (w), sending (s) and submitted (u) lists of a queue pair.               *)
LEMMA ThreeListsType ==
  ASSUME NEW S, NEW w \in Seq(S), NEW s \in Seq(S), NEW u \in Seq(S)
  PROVE  /\ w \o s \o u \in Seq(S)
         /\ w \o s \o u = <<>> <=> w = <<>> /\ s = <<>> /\ u = <<>>
<1>1. w \o s \in Seq(S) /\ (w \o s = <<>> <=> w = <<>> /\ s = <<>>)
  BY ConcatProperties, ConcatEqualIffEmpty
<1> QED
  BY <1>1, ConcatProperties, ConcatEqualIffEmpty

(* Taking the first entry: off w, or off s when w is empty, or off u when  *)
(* both are.                                                               *)
LEMMA ThreeListsFirst ==
  ASSUME NEW S, NEW w \in Seq(S), NEW s \in Seq(S), NEW u \in Seq(S)
  PROVE  /\ w # <<>> => /\ Head(w \o s \o u) = Head(w)
                        /\ Tail(w \o s \o u) = Tail(w) \o s \o u
         /\ w = <<>> /\ s # <<>> =>
              /\ Head(w \o s \o u) = Head(s)
              /\ Tail(w \o s \o u) = w \o Tail(s) \o u
<1>1. CASE w # <<>>
  <2>1. /\ w \o s \in Seq(S) /\ w \o s # <<>>
        /\ Head(w \o s) = Head(w) /\ Tail(w \o s) = Tail(w) \o s
    BY <1>1, HeadOfConcat
  <2> QED BY <1>1, <2>1, HeadOfConcat
<1>2. CASE w = <<>> /\ s # <<>>
  <2>1. w \o s = s
    BY <1>2, ConcatEmptySeq
  <2>2. Tail(s) \in Seq(S)
    BY <1>2, HeadAndTail
  <2>3. w \o Tail(s) = Tail(s)
    BY <1>2, <2>2, ConcatEmptySeq
  <2> QED BY <1>2, <2>1, <2>3, HeadOfConcat
<1> QED
  BY <1>1, <1>2

(* An entry put at the end of u is the last of all.                        *)
LEMMA ThreeListsAppend ==
  ASSUME NEW S, NEW w \in Seq(S), NEW s \in Seq(S), NEW u \in Seq(S),
         NEW x \in S
  PROVE  w \o s \o Append(u, x) = Append(w \o s \o u, x)
<1>1. w \o s \in Seq(S) /\ w \o s \o u \in Seq(S) /\ <<x>> \in Seq(S)
  BY ConcatProperties
<1>2. Append(u, x) = u \o <<x>> /\ Append(w \o s \o u, x) = w \o s \o u \o <<x>>
  BY <1>1, AppendIsConcat
<1> QED
  BY <1>1, <1>2, ConcatAssociative

(* Moving entries between neighbouring lists without changing the order:   *)
(* w in front of s, the first of s behind w, the first of u to an empty s. *)
LEMMA ThreeListsMove ==
  ASSUME NEW S, NEW w \in Seq(S), NEW s \in Seq(S), NEW u \in Seq(S)
  PROVE  /\ <<>> \o (w \o s) \o u = w \o s \o u
         /\ s # <<>> => Append(w, Head(s)) \o Tail(s) \o u = w \o s \o u
         /\ s = <<>> /\ u # <<>> =>
              w \o <<Head(u)>> \o Tail(u) = w \o s \o u
<1>1. w \o s \in Seq(S)
  BY ConcatProperties
<1>2. <<>> \o (w \o s) \o u = w \o s \o u
  BY <1>1, ConcatEmptySeq
<1>3. ASSUME s # <<>>
      PROVE  Append(w, Head(s)) \o Tail(s) \o u = w \o s \o u
  <2>1. Head(s) \in S /\ Tail(s) \in Seq(S) /\ <<Head(s)>> \o Tail(s) = s
    BY <1>3, HeadAndTail
  <2>2. Append(w, Head(s)) = w \o <<Head(s)>> /\ <<Head(s)>> \in Seq(S)
    BY <2>1, AppendIsConcat
  <2>3. Append(w, Head(s)) \o Tail(s) = w \o (<<Head(s)>> \o Tail(s))
    BY <2>1, <2>2, ConcatAssociative
  <2> QED BY <2>1, <2>3
<1>4. ASSUME s = <<>>, u # <<>>
      PROVE  w \o <<Head(u)>> \o Tail(u) = w \o s \o u
  <2>1. /\ <<Head(u)>> \in Seq(S) /\ Tail(u) \in Seq(S)
        /\ <<Head(u)>> \o Tail(u) = u
    BY <1>4, HeadAndTail
  <2>2. w \o <<Head(u)>> \o Tail(u) = w \o (<<Head(u)>> \o Tail(u))
    BY <2>1, ConcatAssociative
  <2>3. w \o s = w
    BY <1>4, ConcatEmptySeq
  <2> QED BY <2>1, <2>2, <2>3
<1> QED
  BY <1>2, <1>3, <1>4

(* The elements of a sequence.                                             *)
LEMMA RangeOfTail ==
  ASSUME NEW S, NEW s \in Seq(S), s # <<>>
  PROVE  Head(s) \in Range(s) /\ Range(Tail(s)) \subseteq Range(s)
<1>1. /\ Len(s) \in Nat /\ Len(s) > 0 /\ DOMAIN s = 1 .. Len(s)
  BY EmptySeq
<1>2. Head(s) = s[1] /\ 1 \in DOMAIN s
  BY <1>1
<1> DEFINE t == Tail(s)
<1>3. /\ DOMAIN t = 1 .. Len(s) - 1
      /\ \A i \in 1 .. Len(s) - 1 : t[i] = s[i + 1]
  BY <1>1, HeadTailProperties
<1> HIDE DEF t
<1>4. ASSUME NEW x \in Range(t) PROVE x \in Range(s)
  <2>1. PICK i \in 1 .. Len(s) - 1 : t[i] = x
    BY <1>3, <1>4 DEF Range
  <2>2. i + 1 \in DOMAIN s /\ s[i + 1] = x
    BY <2>1, <1>1, <1>3
  <2> QED BY <2>2 DEF Range
<1> QED BY <1>2, <1>4 DEF Range, t

LEMMA RangeOfAppend ==
  ASSUME NEW S, NEW s \in Seq(S), NEW x \in S
  PROVE  Range(Append(s, x)) = Range(s) \cup {x}
<1>1. <<x>> \in Seq(S) /\ Range(<<x>>) = {x}
  BY DEF Range
<1> DEFINE h == <<x>>
<1>2. Append(s, x) = s \o h
  BY AppendIsConcat
<1> HIDE DEF h
<1>3. Range(s \o h) = Range(s) \cup Range(h)
  BY <1>1, RangeConcatenation, ZenonT(30) DEF h
<1> QED BY <1>1, <1>2, <1>3 DEF h

(* Concatenation is associative, kept apart for the provers *)
Joined(s, t, u) == (s \o t) \o u = s \o (t \o u)

LEMMA ListsJoin ==
  ASSUME NEW S, NEW s \in Seq(S), NEW t \in Seq(S), NEW u \in Seq(S)
  PROVE  Joined(s, t, u)
BY ConcatAssociative DEF Joined
=============================================================================
