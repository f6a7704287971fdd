--------------------------- MODULE SequenceFacts ---------------------------
(***************************************************************************)
(* Facts about the elements of sequences, for the proofs about queues and  *)
(* streams.                                                                *)
(***************************************************************************)
EXTENDS Integers, Sequences, SequenceTheorems, WellFoundedInduction, TLAPS

Elements(q) == {q[k] : k \in DOMAIN q}
Distinct(q) == \A i, j \in DOMAIN q : q[i] = q[j] => i = j
IsSeq(s) == s \in Seq(Elements(s))

(* An append adds one element.                                               *)
LEMMA AppendElements ==
    ASSUME NEW s, IsSeq(s), NEW e
    PROVE  IsSeq(Append(s, e)) /\ Elements(Append(s, e)) = Elements(s) \cup {e}
<1> DEFINE S == Elements(s) \cup {e}
<1>1. s \in Seq(S) /\ e \in S
  <2>1. s \in Seq(Elements(s)) /\ Elements(s) \subseteq S
    BY DEF IsSeq
  <2>2. \A E : s \in Seq(E) /\ E \subseteq S => s \in Seq(S)
    <3> HIDE DEF S
    <3>1. QED
      BY SeqMonotonic
  <2>3. QED
    BY <2>1, <2>2
<1>2. /\ Len(s) \in Nat /\ DOMAIN s = 1..Len(s)
      /\ Append(s, e) \in Seq(S) /\ Len(Append(s, e)) = Len(s) + 1
      /\ \A i \in 1..Len(s) : Append(s, e)[i] = s[i]
      /\ Append(s, e)[Len(s) + 1] = e
  <2> HIDE DEF S
  <2>1. QED
    BY <1>1, AppendProperties, LenProperties
<1>3. DOMAIN Append(s, e) = 1..(Len(s) + 1)
  <2> HIDE DEF S
  <2>1. QED
    BY <1>2, LenProperties
<1>4. Elements(Append(s, e)) = S
  <2> DEFINE t == Append(s, e)
  <2>1. DOMAIN t = DOMAIN s \cup {Len(s) + 1}
    BY <1>2, <1>3
  <2>2. \A i \in DOMAIN s : t[i] = s[i]
    BY <1>2
  <2>3. t[Len(s) + 1] = e
    BY <1>2
  <2> HIDE DEF t
  <2>4. Elements(t) \subseteq S
    BY <2>1, <2>2, <2>3 DEF Elements
  <2>5. S \subseteq Elements(t)
    BY <2>1, <2>2, <2>3 DEF Elements
  <2>6. QED
    BY <2>4, <2>5 DEF t
<1>5. QED
  BY <1>2, <1>4 DEF IsSeq

(* An element put in front adds one.                                          *)
LEMMA PrependElements ==
    ASSUME NEW s, IsSeq(s), NEW e
    PROVE  IsSeq(<<e>> \o s) /\ Elements(<<e>> \o s) = Elements(s) \cup {e}
<1> DEFINE S == Elements(s) \cup {e}
           t == <<e>> \o s
<1>1. s \in Seq(S) /\ <<e>> \in Seq(S)
  <2>1. s \in Seq(Elements(s)) /\ Elements(s) \subseteq S /\ e \in S
    BY DEF IsSeq
  <2> HIDE DEF S
  <2>2. QED
    BY <2>1, SeqMonotonic
<1>2. Len(s) \in Nat /\ DOMAIN s = 1..Len(s) /\ Len(<<e>>) = 1 /\ <<e>>[1] = e
  BY LenProperties DEF IsSeq
<1>3. /\ t \in Seq(S) /\ Len(t) = 1 + Len(s)
      /\ \A i \in 1..(1 + Len(s)) : t[i] = IF i <= 1 THEN <<e>>[i] ELSE s[i - 1]
  <2> HIDE DEF S
  <2>1. QED
    BY <1>1, <1>2, ConcatProperties
<1>4. DOMAIN t = 1..(1 + Len(s))
  <2> HIDE DEF S, t
  <2>1. QED
    BY <1>3, LenProperties
<1>5. Elements(t) \subseteq S
  <2>1. \A i \in 1..(1 + Len(s)) : t[i] = e \/ (i - 1 \in DOMAIN s /\ t[i] = s[i - 1])
    BY <1>2, <1>3
  <2> HIDE DEF t
  <2>2. QED
    BY <1>4, <2>1 DEF Elements
<1>6. S \subseteq Elements(t)
  <2>1. t[1] = e /\ 1 \in DOMAIN t
    BY <1>2, <1>3, <1>4
  <2>2. ASSUME NEW j \in DOMAIN s PROVE j + 1 \in DOMAIN t /\ t[j + 1] = s[j]
    <3>1. PICK i : i = j + 1
      OBVIOUS
    <3>2. i \in 1..(1 + Len(s)) /\ ~(i <= 1) /\ i - 1 = j
      BY <1>2, <3>1
    <3>3. QED
      BY <1>3, <1>4, <3>1, <3>2
  <2> HIDE DEF t
  <2>3. QED
    BY <2>1, <2>2 DEF Elements
<1>7. QED
  BY <1>3, <1>5, <1>6 DEF IsSeq

(* What is left after the first elements was there before.                  *)
LEMMA RestElements ==
    ASSUME NEW s, IsSeq(s), NEW k \in 1..Len(s)
    PROVE  IsSeq(SubSeq(s, k + 1, Len(s))) /\ Elements(SubSeq(s, k + 1, Len(s))) \subseteq Elements(s)
<1> DEFINE S == {s[i] : i \in (k + 1)..Len(s)}
           n == IF k + 1 <= Len(s) THEN Len(s) - k ELSE 0
<1>1. Len(s) \in Nat /\ DOMAIN s = 1..Len(s)
  BY LenProperties DEF IsSeq
<1>2. n \in Nat /\ Len(s) - (k + 1) + 1 = Len(s) - k
  BY <1>1
<1>3. /\ SubSeq(s, k + 1, Len(s)) \in Seq(S)
      /\ Len(SubSeq(s, k + 1, Len(s))) = n
      /\ \A i \in 1..(Len(s) - k) : SubSeq(s, k + 1, Len(s))[i] = s[k + i]
  <2>1. k + 1 \in Int /\ Len(s) \in Int /\ \A i \in (k + 1)..Len(s) : s[i] \in S
    BY <1>1
  <2>2. /\ SubSeq(s, k + 1, Len(s)) \in Seq(S)
        /\ Len(SubSeq(s, k + 1, Len(s))) = IF k + 1 <= Len(s) THEN Len(s) - (k + 1) + 1 ELSE 0
        /\ \A i \in 1..(Len(s) - (k + 1) + 1) : SubSeq(s, k + 1, Len(s))[i] = s[k + 1 + i - 1]
    <3> HIDE DEF S
    <3>1. QED
      BY <2>1, SubSeqProperties
  <2>3. \A i \in 1..(Len(s) - k) : i \in 1..(Len(s) - (k + 1) + 1) /\ k + 1 + i - 1 = k + i
    BY <1>1
  <2>4. (IF k + 1 <= Len(s) THEN Len(s) - (k + 1) + 1 ELSE 0) = n
    BY <1>1
  <2> HIDE DEF S, n
  <2>5. Len(SubSeq(s, k + 1, Len(s))) = n
    BY <2>2, <2>4
  <2>6. ASSUME NEW i \in 1..(Len(s) - k) PROVE SubSeq(s, k + 1, Len(s))[i] = s[k + i]
    <3>1. i \in 1..(Len(s) - (k + 1) + 1) /\ k + 1 + i - 1 = k + i
      BY <2>3
    <3>2. SubSeq(s, k + 1, Len(s))[i] = s[k + 1 + i - 1]
      BY <2>2, <3>1
    <3>3. QED
      BY <3>1, <3>2
  <2>7. QED
    BY <2>2, <2>5, <2>6
<1>4. DOMAIN SubSeq(s, k + 1, Len(s)) = 1..n
  <2> HIDE DEF S, n
  <2>1. QED
    BY <1>3, LenProperties
<1>5. Elements(SubSeq(s, k + 1, Len(s))) = S
  <2>1. \A i \in 1..n : k + i \in (k + 1)..Len(s) /\ SubSeq(s, k + 1, Len(s))[i] = s[k + i]
    <3>1. ASSUME NEW i \in 1..n
          PROVE  k + i \in (k + 1)..Len(s) /\ i \in 1..(Len(s) - k)
      BY <1>1
    <3> HIDE DEF n, S
    <3>2. QED
      BY <1>3, <3>1
  <2>2. \A j \in (k + 1)..Len(s) : j - k \in 1..n /\ SubSeq(s, k + 1, Len(s))[j - k] = s[j]
    <3> SUFFICES ASSUME NEW j \in (k + 1)..Len(s)
                 PROVE  j - k \in 1..n /\ SubSeq(s, k + 1, Len(s))[j - k] = s[j]
      OBVIOUS
    <3> DEFINE i == j - k
    <3>1. i \in 1..n /\ i \in 1..(Len(s) - k) /\ k + i = j
      BY <1>1
    <3>2. SubSeq(s, k + 1, Len(s))[i] = s[k + i]
      <4> HIDE DEF i
      <4>1. QED
        BY <1>3, <3>1
    <3>3. QED
      BY <3>1, <3>2
  <2>3. \A e \in S : e \in Elements(SubSeq(s, k + 1, Len(s)))
    <3>1. \A e \in S : \E j \in (k + 1)..Len(s) : e = s[j]
      OBVIOUS
    <3>2. \A i \in 1..n : SubSeq(s, k + 1, Len(s))[i] \in Elements(SubSeq(s, k + 1, Len(s)))
      BY <1>4 DEF Elements
    <3> HIDE DEF n, S
    <3>3. QED
      BY SMTT(60), <2>2, <3>1, <3>2
  <2>4. \A e \in Elements(SubSeq(s, k + 1, Len(s))) : e \in S
    <3>1. \A e \in Elements(SubSeq(s, k + 1, Len(s))) : \E i \in 1..n : e = SubSeq(s, k + 1, Len(s))[i]
      BY <1>4 DEF Elements
    <3>2. \A j \in (k + 1)..Len(s) : s[j] \in S
      OBVIOUS
    <3> HIDE DEF n, S
    <3>3. QED
      BY <2>1, <3>1, <3>2
  <2> HIDE DEF S
  <2>5. QED
    BY <2>3, <2>4
<1>6. S \subseteq Elements(s)
  BY <1>1 DEF Elements
<1>7. QED
  BY <1>3, <1>5, <1>6 DEF IsSeq

(* The head of a sequence that is not empty is one of its elements. *)
LEMMA HeadElement ==
    ASSUME NEW s, IsSeq(s), s # <<>>
    PROVE  Head(s) \in Elements(s)
  BY HeadTailProperties DEF IsSeq

(* The empty sequence has no elements. *)
LEMMA EmptyElements == IsSeq(<<>>) /\ Elements(<<>>) = {}
  BY EmptySeq DEF IsSeq, Elements

(* A queue without repetitions stays one if something new is appended ...     *)
LEMMA AppendDistinct ==
    ASSUME NEW S, NEW q \in Seq(S), NEW e \in S, Distinct(q), e \notin Elements(q)
    PROVE  /\ Append(q, e) \in Seq(S)
           /\ Distinct(Append(q, e))
           /\ Elements(Append(q, e)) = Elements(q) \cup {e}
<1> PICK t : t = Append(q, e)
  OBVIOUS
<1>1. /\ Len(q) \in Nat /\ DOMAIN q = 1..Len(q)
      /\ t \in Seq(S) /\ Len(t) = Len(q) + 1
      /\ \A i \in 1..Len(q) : t[i] = q[i]
      /\ t[Len(q) + 1] = e
  BY AppendProperties, LenProperties
<1>2. DOMAIN t = 1..(Len(q) + 1)
  BY <1>1, LenProperties
<1>3. \A i \in DOMAIN t : i \in DOMAIN q \/ i = Len(q) + 1
  BY <1>1, <1>2
<1>4. \A i \in DOMAIN q : i \in DOMAIN t /\ t[i] = q[i]
  BY <1>1, <1>2
<1>5. Len(q) + 1 \in DOMAIN t
  BY <1>1, <1>2
<1>6. Distinct(t)
  <2>1. \A i \in DOMAIN q : t[i] # e
    BY <1>4 DEF Elements
  <2>2. QED
    BY <1>1, <1>3, <1>4, <2>1 DEF Distinct
<1>7. \A x : x \in Elements(t) <=> x \in Elements(q) \/ x = e
  <2>1. \A x : x \in Elements(t) => x \in Elements(q) \/ x = e
    BY <1>1, <1>3, <1>4 DEF Elements
  <2>2. \A x : x \in Elements(q) \/ x = e => x \in Elements(t)
    BY <1>1, <1>4, <1>5 DEF Elements
  <2>3. QED
    BY <2>1, <2>2
<1>8. QED
  BY <1>1, <1>6, <1>7

(* ... or if something new is put in front ...                                *)
LEMMA PrependDistinct ==
    ASSUME NEW S, NEW q \in Seq(S), NEW e \in S, Distinct(q), e \notin Elements(q)
    PROVE  /\ <<e>> \o q \in Seq(S)
           /\ Distinct(<<e>> \o q)
           /\ Elements(<<e>> \o q) = Elements(q) \cup {e}
<1> PICK t : t = <<e>> \o q
  OBVIOUS
<1>1. /\ Len(q) \in Nat /\ DOMAIN q = 1..Len(q)
      /\ t \in Seq(S) /\ Len(t) = 1 + Len(q)
      /\ t[1] = e
      /\ \A i \in 1..Len(q) : t[i + 1] = q[i]
  <2>1. Len(q) \in Nat /\ DOMAIN q = 1..Len(q) /\ <<e>> \in Seq(S) /\ Len(<<e>>) = 1
    BY LenProperties
  <2>2. t \in Seq(S) /\ Len(t) = 1 + Len(q)
        /\ \A i \in 1..(1 + Len(q)) : t[i] = IF i <= 1 THEN <<e>>[i] ELSE q[i - 1]
    BY <2>1, ConcatProperties
  <2>3. t[1] = e /\ \A i \in 1..Len(q) : t[i + 1] = q[i]
    BY <2>1, <2>2
  <2>4. QED
    BY <2>1, <2>2, <2>3
<1>2. DOMAIN t = 1..(1 + Len(q))
  BY <1>1, LenProperties
<1>3. \A i \in DOMAIN t : i = 1 \/ \E j \in DOMAIN q : i = j + 1
  <2> SUFFICES ASSUME NEW i \in DOMAIN t, i # 1 PROVE \E j \in DOMAIN q : i = j + 1
    OBVIOUS
  <2>1. i - 1 \in DOMAIN q /\ i = (i - 1) + 1
    BY <1>1, <1>2
  <2>2. QED
    BY <2>1
<1>4. \A j \in DOMAIN q : j + 1 \in DOMAIN t /\ t[j + 1] = q[j] /\ q[j] # e
  BY <1>1, <1>2 DEF Elements
<1>5. 1 \in DOMAIN t
  BY <1>1, <1>2
<1>6. Distinct(t)
  <2> SUFFICES ASSUME NEW i \in DOMAIN t, NEW j \in DOMAIN t, t[i] = t[j] PROVE i = j
    BY DEF Distinct
  <2>1. CASE i = 1
    BY <1>1, <1>3, <1>4, <2>1
  <2>2. CASE j = 1
    BY <1>1, <1>3, <1>4, <2>2
  <2>3. CASE i # 1 /\ j # 1
    BY <1>3, <1>4, <2>3 DEF Distinct
  <2>4. QED
    BY <2>1, <2>2, <2>3
<1>7. \A x : x \in Elements(t) <=> x \in Elements(q) \/ x = e
  <2>1. \A x : x \in Elements(t) => x \in Elements(q) \/ x = e
    BY <1>1, <1>3, <1>4 DEF Elements
  <2>2. e \in Elements(t)
    BY <1>1, <1>5 DEF Elements
  <2>3. \A x : x \in Elements(q) => x \in Elements(t)
    BY <1>4 DEF Elements
  <2>4. QED
    BY <2>1, <2>2, <2>3
<1>8. QED
  BY <1>1, <1>6, <1>7

(* ... and if its head is taken.                                             *)
LEMMA TailDistinct ==
    ASSUME NEW S, NEW q \in Seq(S), q # <<>>, Distinct(q)
    PROVE  /\ Tail(q) \in Seq(S)
           /\ Distinct(Tail(q))
           /\ Head(q) \in Elements(q)
           /\ Elements(Tail(q)) = Elements(q) \ {Head(q)}
<1> PICK t : t = Tail(q)
  OBVIOUS
<1>1. /\ Len(q) \in Nat \ {0} /\ DOMAIN q = 1..Len(q)
      /\ t \in Seq(S) /\ Len(t) = Len(q) - 1
      /\ \A i \in 1..Len(t) : t[i] = q[i + 1]
      /\ Head(q) = q[1]
  BY HeadTailProperties, LenProperties, EmptySeq
<1>2. DOMAIN t = 1..(Len(q) - 1)
  BY <1>1, LenProperties
<1>3. \A i \in DOMAIN t : i + 1 \in DOMAIN q /\ t[i] = q[i + 1] /\ i + 1 # 1
  BY <1>1, <1>2
<1>4. \A i \in DOMAIN q : i = 1 \/ \E j \in DOMAIN t : i = j + 1
  <2> SUFFICES ASSUME NEW i \in DOMAIN q, i # 1 PROVE \E j \in DOMAIN t : i = j + 1
    OBVIOUS
  <2>1. i - 1 \in DOMAIN t /\ i = (i - 1) + 1
    BY <1>1, <1>2
  <2>2. QED
    BY <2>1
<1>5. 1 \in DOMAIN q
  BY <1>1
<1>6. Distinct(t)
  <2> SUFFICES ASSUME NEW i \in DOMAIN t, NEW j \in DOMAIN t, t[i] = t[j] PROVE i = j
    BY DEF Distinct
  <2>1. i + 1 = j + 1
    BY <1>3 DEF Distinct
  <2>2. QED
    BY <1>1, <1>2, <2>1
<1>7. \A x : x \in Elements(t) <=> x \in Elements(q) /\ x # Head(q)
  <2>1. \A x : x \in Elements(t) => x \in Elements(q) /\ x # Head(q)
    <3> SUFFICES ASSUME NEW i \in DOMAIN t PROVE t[i] \in Elements(q) /\ t[i] # q[1]
      BY <1>1 DEF Elements
    <3>1. QED
      BY <1>3, <1>5 DEF Elements, Distinct
  <2>2. \A x : x \in Elements(q) /\ x # Head(q) => x \in Elements(t)
    BY <1>1, <1>3, <1>4 DEF Elements
  <2>3. QED
    BY <2>1, <2>2
<1>8. Head(q) \in Elements(q)
  BY <1>1, <1>5 DEF Elements
<1>9. QED
  BY <1>1, <1>6, <1>7, <1>8

-----------------------------------------------------------------------------
(* A nonempty set of naturals has a least element.                           *)
LEMMA LeastNatural ==
    ASSUME NEW T \in SUBSET Nat, T # {}
    PROVE  \E x \in T : \A y \in T : x <= y
<1>1. \E x \in T : \A y \in T : ~(<<y, x>> \in OpToRel(<, Nat))
  BY NatLessThanWellFounded, WFMin
<1>2. \A x, y \in T : ~(<<y, x>> \in OpToRel(<, Nat)) => x <= y
  BY DEF OpToRel
<1>3. QED
  BY <1>1, <1>2

(* A set of the numbers to N that has 0 and, with each number, the next one.   *)
LEMMA UpTo ==
    ASSUME NEW N \in Nat, NEW D, 0 \in D, \A k \in 1..N : k - 1 \in D => k \in D
    PROVE  \A k \in 0..N : k \in D
<1>1. PICK B : B = {k \in 0..N : k \notin D}
  OBVIOUS
<1>2. CASE B = {}
  BY <1>1, <1>2
<1>3. CASE B # {}
  <2>1. B \in SUBSET Nat
    BY <1>1
  <2>2. PICK k \in B : \A j \in B : k <= j
    BY <1>3, <2>1, LeastNatural
  <2>3. k \in 0..N /\ k \notin D /\ k # 0
    BY <1>1, <2>2
  <2>4. k \in 1..N /\ k - 1 \in 0..N /\ ~(k <= k - 1)
    BY <2>3
  <2>5. k - 1 \in D
    BY <1>1, <2>2, <2>4
  <2>6. QED
    BY <2>3, <2>4, <2>5
<1>4. QED
  BY <1>2, <1>3

(* A function on an interval from 1 is a sequence, and equal to another one of *)
(* its length that agrees with it.                                           *)
LEMMA FunctionIsSeq ==
    ASSUME NEW n \in Nat, NEW S, NEW f \in [1..n -> S]
    PROVE  f \in Seq(S) /\ Len(f) = n /\ DOMAIN f = 1..n
<1>1. f \in Seq(S)
  BY SeqDef
<1>2. PICK m \in Nat : m = Len(f) /\ DOMAIN f = 1..m
  BY <1>1, LenProperties
<1>3. 1..m = 1..n
  BY <1>2
<1>4. m = n
  <2>1. m <= n /\ n <= m
    <3>1. n >= 1 => n \in 1..m
      BY <1>3
    <3>2. m >= 1 => m \in 1..n
      BY <1>3
    <3>3. QED
      BY <3>1, <3>2
  <2>2. QED
    BY <2>1
<1>5. QED
  BY <1>1, <1>2, <1>4

(* The first and the last elements of a sequence.                            *)
LEMMA EndsOf ==
    ASSUME NEW S, NEW s \in Seq(S), NEW k \in 0..Len(s)
    PROVE  /\ SubSeq(s, 1, k) \in Seq(S) /\ Len(SubSeq(s, 1, k)) = k
           /\ \A i \in 1..k : SubSeq(s, 1, k)[i] = s[i]
           /\ SubSeq(s, k + 1, Len(s)) \in Seq(S) /\ Len(SubSeq(s, k + 1, Len(s))) = Len(s) - k
           /\ \A i \in 1..(Len(s) - k) : SubSeq(s, k + 1, Len(s))[i] = s[k + i]
<1>1. PICK n \in Nat : n = Len(s)
  BY LenProperties
<1>2. \A i \in 1..n : s[i] \in S
  BY <1>1, ElementOfSeq
<1>3. k \in Nat /\ k <= n
  BY <1>1
<1>4. /\ SubSeq(s, 1, k) \in Seq(S)
      /\ Len(SubSeq(s, 1, k)) = IF 1 <= k THEN k - 1 + 1 ELSE 0
      /\ \A i \in 1..(k - 1 + 1) : SubSeq(s, 1, k)[i] = s[1 + i - 1]
  <2>1. \A i \in 1..k : s[i] \in S
    BY <1>2, <1>3
  <2>2. QED
    BY <1>3, <2>1, SubSeqProperties
<1>5. /\ SubSeq(s, k + 1, n) \in Seq(S)
      /\ Len(SubSeq(s, k + 1, n)) = IF k + 1 <= n THEN n - (k + 1) + 1 ELSE 0
      /\ \A i \in 1..(n - (k + 1) + 1) : SubSeq(s, k + 1, n)[i] = s[k + 1 + i - 1]
  <2>1. \A i \in (k + 1)..n : s[i] \in S
    BY <1>2, <1>3
  <2>2. k + 1 \in Int /\ n \in Int
    BY <1>3
  <2>3. QED
    BY <2>1, <2>2, SubSeqProperties
<1>6. QED
  BY <1>1, <1>3, <1>4, <1>5

(* A sequence with an element more at place k + 1, and one without its k-th.   *)
Inserted(s, k, e) == SubSeq(s, 1, k) \o <<e>> \o SubSeq(s, k + 1, Len(s))
Removed(s, k) == SubSeq(s, 1, k - 1) \o SubSeq(s, k + 1, Len(s))

IsInserted(t, S, s, k, e) ==
    /\ t \in Seq(S) /\ Len(t) = Len(s) + 1
    /\ \A i \in 1..(Len(s) + 1) :
          t[i] = IF i <= k THEN s[i] ELSE IF i = k + 1 THEN e ELSE s[i - 1]

IsRemoved(t, S, s, k) ==
    /\ t \in Seq(S) /\ Len(t) = Len(s) - 1
    /\ \A i \in 1..(Len(s) - 1) : t[i] = IF i < k THEN s[i] ELSE s[i + 1]

LEMMA InsertedIs ==
    ASSUME NEW S, NEW s \in Seq(S), NEW k \in 0..Len(s), NEW e \in S
    PROVE  IsInserted(Inserted(s, k, e), S, s, k, e)
<1> PICK t : t = Inserted(s, k, e)
  OBVIOUS
<1>1. PICK n \in Nat : n = Len(s)
  BY LenProperties
<1>10. k \in Nat /\ k <= n
  BY <1>1
<1>2. PICK p : p = SubSeq(s, 1, k)
  OBVIOUS
<1>3. PICK q : q = SubSeq(s, k + 1, n)
  OBVIOUS
<1>4. /\ p \in Seq(S) /\ Len(p) = k /\ \A i \in 1..k : p[i] = s[i]
      /\ q \in Seq(S) /\ Len(q) = n - k /\ \A i \in 1..(n - k) : q[i] = s[k + i]
  BY <1>1, <1>2, <1>3, EndsOf
<1>5. PICK r : r = p \o <<e>>
  OBVIOUS
<1>6. /\ <<e>> \in Seq(S) /\ Len(<<e>>) = 1 /\ <<e>>[1] = e
  OBVIOUS
<1>7. /\ r \in Seq(S) /\ Len(r) = k + 1
      /\ \A i \in 1..(k + 1) : r[i] = IF i <= k THEN p[i] ELSE <<e>>[i - k]
  BY <1>4, <1>5, <1>6, ConcatProperties
<1>8. t = r \o q
  BY <1>1, <1>2, <1>3, <1>5 DEF Inserted
<1>9. /\ t \in Seq(S) /\ Len(t) = n + 1
      /\ \A i \in 1..(n + 1) : t[i] = IF i <= k + 1 THEN r[i] ELSE q[i - (k + 1)]
  <2>1. /\ t \in Seq(S) /\ Len(t) = Len(r) + Len(q)
        /\ \A i \in 1..(Len(r) + Len(q)) : t[i] = IF i <= Len(r) THEN r[i] ELSE q[i - Len(r)]
    <3>1. r \in Seq(S) /\ q \in Seq(S)
      BY <1>4, <1>7
    <3>2. QED
      BY <1>8, <3>1, ConcatProperties
  <2>2. (k + 1) + (n - k) = n + 1
    BY <1>10
  <2>3. QED
    BY <1>4, <1>7, <2>1, <2>2
<1>11. ASSUME NEW i \in 1..(n + 1)
       PROVE  t[i] = IF i <= k THEN s[i] ELSE IF i = k + 1 THEN e ELSE s[i - 1]
  <2>1. i \in Nat /\ 1 <= i /\ i <= n + 1
    OBVIOUS
  <2>2. CASE i <= k
    BY <1>4, <1>7, <1>9, <1>10, <2>1, <2>2
  <2>3. CASE i = k + 1
    BY <1>6, <1>7, <1>9, <1>10, <2>1, <2>3
  <2>4. CASE i > k + 1
    <3>1. i - (k + 1) \in 1..(n - k) /\ k + (i - (k + 1)) = i - 1
      BY <1>10, <2>4
    <3>2. t[i] = q[i - (k + 1)]
      BY <1>9, <1>10, <2>1, <2>4
    <3>3. q[i - (k + 1)] = s[i - 1]
      BY <1>4, <3>1
    <3>4. QED
      BY <1>10, <2>4, <3>2, <3>3
  <2>5. QED
    BY <1>10, <2>2, <2>3, <2>4
<1>12. QED
  BY <1>1, <1>9, <1>10, <1>11 DEF IsInserted

LEMMA RemovedIs ==
    ASSUME NEW S, NEW s \in Seq(S), NEW k \in 1..Len(s)
    PROVE  IsRemoved(Removed(s, k), S, s, k)
<1> PICK t : t = Removed(s, k)
  OBVIOUS
<1>1. PICK n \in Nat : n = Len(s)
  BY LenProperties
<1>2. PICK p : p = SubSeq(s, 1, k - 1)
  OBVIOUS
<1>3. PICK q : q = SubSeq(s, k + 1, n)
  OBVIOUS
<1>4. k \in Nat /\ k - 1 \in 0..Len(s) /\ k \in 0..Len(s) /\ 1 <= k /\ k <= n
  BY <1>1
<1>5. /\ p \in Seq(S) /\ Len(p) = k - 1 /\ \A i \in 1..(k - 1) : p[i] = s[i]
  BY <1>2, <1>4, EndsOf
<1>6. /\ q \in Seq(S) /\ Len(q) = n - k /\ \A i \in 1..(n - k) : q[i] = s[k + i]
  BY <1>1, <1>3, <1>4, EndsOf
<1>7. /\ t \in Seq(S) /\ Len(t) = n - 1
      /\ \A i \in 1..(n - 1) : t[i] = IF i <= k - 1 THEN p[i] ELSE q[i - (k - 1)]
  <2>1. t = p \o q
    BY <1>1, <1>2, <1>3 DEF Removed
  <2>2. /\ t \in Seq(S) /\ Len(t) = Len(p) + Len(q)
        /\ \A i \in 1..(Len(p) + Len(q)) : t[i] = IF i <= Len(p) THEN p[i] ELSE q[i - Len(p)]
    <3>1. p \in Seq(S) /\ q \in Seq(S)
      BY <1>5, <1>6
    <3>2. QED
      BY <2>1, <3>1, ConcatProperties
  <2>3. (k - 1) + (n - k) = n - 1
    BY <1>4
  <2>4. QED
    BY <1>5, <1>6, <2>2, <2>3
<1>8. ASSUME NEW i \in 1..(n - 1) PROVE t[i] = IF i < k THEN s[i] ELSE s[i + 1]
  <2>1. i \in Nat /\ 1 <= i /\ i <= n - 1
    BY <1>4
  <2>2. CASE i < k
    BY <1>4, <1>5, <1>7, <2>1, <2>2
  <2>3. CASE i >= k
    <3>1. i - (k - 1) \in 1..(n - k) /\ k + (i - (k - 1)) = i + 1
      BY <1>4, <2>3
    <3>2. t[i] = q[i - (k - 1)]
      BY <1>4, <1>7, <2>1, <2>3
    <3>3. q[i - (k - 1)] = s[i + 1]
      BY <1>6, <3>1
    <3>4. QED
      BY <1>4, <2>3, <3>2, <3>3
  <2>4. QED
    BY <1>4, <2>2, <2>3
<1>9. QED
  BY <1>1, <1>4, <1>7, <1>8 DEF IsRemoved
=============================================================================
