----------------------------- MODULE ListFacts -----------------------------
(***************************************************************************)
(* Lemmas about the list operations: what an insertion or a removal does   *)
(* to the elements of a list, to their distinctness and to their order.    *)
(***************************************************************************)
EXTENDS Lists, TLAPS, NaturalsInduction, WellFoundedInduction, SequenceTheorems, FiniteSetTheorems

(* The minimum of a nonempty set of naturals is its least element. *)
LEMMA MinNat ==
  ASSUME NEW S \in SUBSET Nat, S # {}
  PROVE  /\ Min(S) \in S
         /\ \A x \in S : Min(S) <= x
  <1>1. PICK x \in S : \A y \in S : ~ (<<y, x>> \in OpToRel(<, Nat))
    BY NatLessThanWellFounded, WFMin
  <1>2. \A a, b \in Nat : a < b => <<a, b>> \in OpToRel(<, Nat)
    BY Zenon DEF OpToRel
  <1>3. \A y \in S : x <= y
    <2>1. \A y \in S : ~ (y < x)
      BY Zenon, <1>1, <1>2
    <2> QED
      BY <2>1
  <1> QED
    BY <1>3 DEF Min

(* InsertAt, element by element. *)
LEMMA InsertAtFacts ==
  ASSUME NEW S, NEW s \in Seq(S), NEW i \in 1 .. Len(s) + 1, NEW e \in S
  PROVE  /\ InsertAt(s, i, e) \in Seq(S)
         /\ Len(InsertAt(s, i, e)) = Len(s) + 1
         /\ \A j \in 1 .. Len(s) + 1 :
              InsertAt(s, i, e)[j] = IF j < i THEN s[j] ELSE IF j = i THEN e ELSE s[j - 1]
  <1> DEFINE a == SubSeq(s, 1, i - 1)
             b == SubSeq(s, i, Len(s))
  <1>1. /\ a \in Seq(S) /\ Len(a) = i - 1
        /\ \A j \in 1 .. i - 1 : a[j] = s[j]
    BY SubSeqProperties
  <1>2. /\ b \in Seq(S) /\ Len(b) = Len(s) - i + 1
        /\ \A j \in 1 .. Len(s) - i + 1 : b[j] = s[i + j - 1]
    BY SubSeqProperties
  <1> DEFINE c == a \o <<e>>
  <1> HIDE DEF a, b
  <1>3. /\ c \in Seq(S) /\ Len(c) = i
        /\ \A j \in 1 .. i : c[j] = IF j < i THEN s[j] ELSE e
    BY <1>1
  <1> HIDE DEF c
  <1>4. /\ c \o b \in Seq(S)
        /\ Len(c \o b) = Len(c) + Len(b)
        /\ \A j \in 1 .. Len(c) + Len(b) :
              (c \o b)[j] = IF j <= Len(c) THEN c[j] ELSE b[j - Len(c)]
    BY <1>2, <1>3, ConcatProperties
  <1>5. InsertAt(s, i, e) = c \o b
    BY DEF InsertAt, a, b, c
  <1>6. Len(c) + Len(b) = Len(s) + 1 /\ Len(s) \in Nat
    BY <1>2, <1>3
  <1>7. ASSUME NEW j \in 1 .. Len(s) + 1
        PROVE  (c \o b)[j] = IF j < i THEN s[j] ELSE IF j = i THEN e ELSE s[j - 1]
    <2>1. CASE j <= i
      BY <1>3, <1>4, <1>6, <2>1
    <2>2. CASE ~ (j <= i)
      <3>1. (c \o b)[j] = b[j - i] /\ j - i \in 1 .. Len(s) - i + 1
        BY <1>3, <1>4, <1>6, <2>2
      <3>2. i + (j - i) - 1 = j - 1
        BY <1>6
      <3> QED
        BY <1>2, <2>2, <3>1, <3>2
    <2> QED
      BY <2>1, <2>2
  <1> QED
    BY <1>4, <1>5, <1>6, <1>7

(* RemoveAt, element by element. *)
LEMMA RemoveAtFacts ==
  ASSUME NEW S, NEW s \in Seq(S), NEW i \in 1 .. Len(s)
  PROVE  /\ RemoveAt(s, i) \in Seq(S)
         /\ Len(RemoveAt(s, i)) = Len(s) - 1
         /\ \A j \in 1 .. Len(s) - 1 :
              RemoveAt(s, i)[j] = IF j < i THEN s[j] ELSE s[j + 1]
  <1> DEFINE a == SubSeq(s, 1, i - 1)
             b == SubSeq(s, i + 1, Len(s))
  <1>1. /\ a \in Seq(S) /\ Len(a) = i - 1
        /\ \A j \in 1 .. i - 1 : a[j] = s[j]
    BY SubSeqProperties
  <1>2. /\ b \in Seq(S) /\ Len(b) = Len(s) - i
        /\ \A j \in 1 .. Len(s) - i : b[j] = s[i + j]
    BY SubSeqProperties
  <1>3. RemoveAt(s, i) = a \o b
    BY DEF RemoveAt
  <1> HIDE DEF a, b
  <1>4. /\ a \o b \in Seq(S)
        /\ Len(a \o b) = Len(a) + Len(b)
        /\ \A j \in 1 .. Len(a) + Len(b) :
              (a \o b)[j] = IF j <= Len(a) THEN a[j] ELSE b[j - Len(a)]
    BY <1>1, <1>2, ConcatProperties
  <1>5. Len(a) + Len(b) = Len(s) - 1 /\ Len(s) \in Nat
    BY <1>1, <1>2
  <1>6. ASSUME NEW j \in 1 .. Len(s) - 1
        PROVE  (a \o b)[j] = IF j < i THEN s[j] ELSE s[j + 1]
    <2>1. CASE j < i
      BY <1>1, <1>4, <1>5, <2>1
    <2>2. CASE ~ (j < i)
      <3>1. (a \o b)[j] = b[j - (i - 1)] /\ j - (i - 1) \in 1 .. Len(s) - i
        BY <1>1, <1>4, <1>5, <2>2
      <3>2. i + (j - (i - 1)) = j + 1
        BY <1>5
      <3> QED
        BY <1>2, <2>2, <3>1, <3>2
    <2> QED
      BY <2>1, <2>2
  <1> QED
    BY <1>3, <1>4, <1>5, <1>6

(* Where InsertBefore puts the element, and what the list holds then. *)
LEMMA InsertBeforeFacts ==
  ASSUME NEW S, NEW s \in Seq(S), NEW e \in S, NEW Stops \in SUBSET (1 .. Len(s))
  PROVE  /\ InsertBefore(s, Stops, e) \in Seq(S)
         /\ \E i \in 1 .. Len(s) + 1 :
              /\ InsertBefore(s, Stops, e) = InsertAt(s, i, e)
              /\ \A j \in 1 .. i - 1 : j \notin Stops
              /\ i \in Stops \/ i = Len(s) + 1
  <1> DEFINE i == IF Stops = {} THEN Len(s) + 1 ELSE Min(Stops)
  <1>1. /\ i \in 1 .. Len(s) + 1
        /\ i \in Stops \/ i = Len(s) + 1
        /\ \A j \in Stops : i <= j
    <2>1. CASE Stops = {}
      BY <2>1
    <2>2. CASE Stops # {}
      <3>1. Stops \in SUBSET Nat
        OBVIOUS
      <3>2. Min(Stops) \in Stops /\ \A j \in Stops : Min(Stops) <= j
        BY <2>2, <3>1, MinNat
      <3>3. i = Min(Stops)
        BY <2>2
      <3>4. i \in Stops /\ \A j \in Stops : i <= j
        BY <3>2, <3>3
      <3> HIDE DEF i
      <3> QED
        BY <3>4
    <2> QED
      BY <2>1, <2>2
  <1>2. InsertBefore(s, Stops, e) = InsertAt(s, i, e)
    BY DEF InsertBefore
  <1> HIDE DEF i
  <1>3. InsertAt(s, i, e) \in Seq(S)
    BY <1>1, InsertAtFacts
  <1>4. \A j \in 1 .. i - 1 : j \notin Stops
    BY <1>1
  <1> QED
    BY <1>1, <1>2, <1>3, <1>4

(* Inserting adds one element, and keeps the list free of duplicates. *)
LEMMA InsertKeepsDistinct ==
  ASSUME NEW S, NEW s \in Seq(S), NEW i \in 1 .. Len(s) + 1, NEW e \in S
  PROVE  /\ Range(InsertAt(s, i, e)) = Range(s) \cup {e}
         /\ IsInjective(s) /\ e \notin Range(s) => IsInjective(InsertAt(s, i, e))
  <1> DEFINE t == InsertAt(s, i, e)
  <1>1. /\ t \in Seq(S) /\ Len(t) = Len(s) + 1
        /\ \A j \in 1 .. Len(s) + 1 : t[j] = IF j < i THEN s[j] ELSE IF j = i THEN e ELSE s[j - 1]
    BY InsertAtFacts
  <1> HIDE DEF t
  <1>2. DOMAIN t = 1 .. Len(s) + 1 /\ DOMAIN s = 1 .. Len(s) /\ Len(s) \in Nat
    BY <1>1
  <1>3. \A j \in 1 .. Len(s) : \E k \in 1 .. Len(s) + 1 : t[k] = s[j]
    <2> SUFFICES ASSUME NEW j \in 1 .. Len(s)
                 PROVE  \E k \in 1 .. Len(s) + 1 : t[k] = s[j]
      OBVIOUS
    <2>1. CASE j < i
      BY <1>1, <1>2, <2>1
    <2>2. CASE ~ (j < i)
      <3>1. j + 1 \in 1 .. Len(s) + 1 /\ t[j + 1] = s[j]
        BY <1>1, <1>2, <2>2
      <3> QED
        BY <3>1
    <2> QED
      BY <2>1, <2>2
  <1>4. \A k \in 1 .. Len(s) + 1 : t[k] = e \/ \E j \in 1 .. Len(s) : t[k] = s[j]
    <2> SUFFICES ASSUME NEW k \in 1 .. Len(s) + 1, k # i
                 PROVE  \E j \in 1 .. Len(s) : t[k] = s[j]
      BY <1>1
    <2>1. CASE k < i
      BY <1>1, <1>2, <2>1
    <2>2. CASE ~ (k < i)
      <3>1. k - 1 \in 1 .. Len(s) /\ t[k] = s[k - 1]
        BY <1>1, <1>2, <2>2
      <3> QED
        BY <3>1
    <2> QED
      BY <2>1, <2>2
  <1>5. t[i] = e
    BY <1>1
  <1>6. Range(t) = Range(s) \cup {e}
    <2>1. \A x : x \in Range(t) <=> \E k \in 1 .. Len(s) + 1 : t[k] = x
      BY <1>2 DEF Range
    <2>2. \A x : x \in Range(s) <=> \E k \in 1 .. Len(s) : s[k] = x
      BY <1>2 DEF Range
    <2>3. \A x : x \in Range(t) => x \in Range(s) \/ x = e
      BY <1>4, <2>1, <2>2
    <2>4. \A x : x \in Range(s) => x \in Range(t)
      BY <1>3, <2>1, <2>2
    <2>5. e \in Range(t)
      BY <1>5, <2>1
    <2> QED
      BY <2>3, <2>4, <2>5
  <1>7. ASSUME IsInjective(s), e \notin Range(s)
        PROVE  IsInjective(t)
    <2>1. \A a, b \in 1 .. Len(s) : s[a] = s[b] => a = b
      BY <1>2, <1>7 DEF IsInjective
    <2>2. \A a \in 1 .. Len(s) : s[a] # e
      BY <1>2, <1>7 DEF Range
    <2>3. \A a, b \in 1 .. Len(s) + 1 : t[a] = t[b] => a = b
      BY SMTT(30), <1>1, <1>2, <2>1, <2>2
    <2> QED
      BY <1>2, <2>3 DEF IsInjective
  <1> QED
    BY <1>6, <1>7 DEF t

(* Removing takes away one element, and keeps the list free of duplicates. *)
LEMMA RemoveKeepsDistinct ==
  ASSUME NEW S, NEW s \in Seq(S), NEW i \in 1 .. Len(s), IsInjective(s)
  PROVE  /\ Range(RemoveAt(s, i)) = Range(s) \ {s[i]}
         /\ IsInjective(RemoveAt(s, i))
  <1> DEFINE t == RemoveAt(s, i)
  <1>1. /\ t \in Seq(S) /\ Len(t) = Len(s) - 1
        /\ \A j \in 1 .. Len(s) - 1 : t[j] = IF j < i THEN s[j] ELSE s[j + 1]
    BY RemoveAtFacts
  <1> HIDE DEF t
  <1>2. DOMAIN t = 1 .. Len(s) - 1 /\ DOMAIN s = 1 .. Len(s) /\ Len(s) \in Nat
    BY <1>1
  <1>3. \A a, b \in 1 .. Len(s) : s[a] = s[b] => a = b
    BY <1>2 DEF IsInjective
  <1>4. ASSUME NEW j \in 1 .. Len(s), j # i
        PROVE  \E k \in 1 .. Len(s) - 1 : t[k] = s[j]
    <2>1. CASE j < i
      BY <1>1, <1>2, <2>1
    <2>2. CASE ~ (j < i)
      <3>1. j - 1 \in 1 .. Len(s) - 1 /\ t[j - 1] = s[j]
        BY <1>1, <1>2, <1>4, <2>2
      <3> QED
        BY <3>1
    <2> QED
      BY <2>1, <2>2
  <1>5. ASSUME NEW k \in 1 .. Len(s) - 1
        PROVE  \E j \in 1 .. Len(s) : t[k] = s[j] /\ j # i
    <2>1. CASE k < i
      BY <1>1, <1>2, <2>1
    <2>2. CASE ~ (k < i)
      <3>1. k + 1 \in 1 .. Len(s) /\ t[k] = s[k + 1] /\ k + 1 # i
        BY <1>1, <1>2, <2>2
      <3> QED
        BY <3>1
    <2> QED
      BY <2>1, <2>2
  <1>6. \A x : x \in Range(t) <=> \E k \in 1 .. Len(s) - 1 : t[k] = x
    BY <1>2 DEF Range
  <1>7. \A x : x \in Range(s) <=> \E k \in 1 .. Len(s) : s[k] = x
    BY <1>2 DEF Range
  <1>8. Range(t) = Range(s) \ {s[i]}
    <2>1. ASSUME NEW x, x \in Range(t)
          PROVE  x \in Range(s) /\ x # s[i]
      <3>1. PICK k \in 1 .. Len(s) - 1 : t[k] = x
        BY <1>6, <2>1
      <3>2. PICK j \in 1 .. Len(s) : t[k] = s[j] /\ j # i
        BY <1>5
      <3> QED
        BY <1>3, <1>7, <3>1, <3>2
    <2>2. ASSUME NEW x, x \in Range(s), x # s[i]
          PROVE  x \in Range(t)
      <3>1. PICK j \in 1 .. Len(s) : s[j] = x
        BY <1>7, <2>2
      <3>2. j # i
        BY <2>2, <3>1
      <3> QED
        BY <1>4, <1>6, <3>1, <3>2
    <2> QED
      BY <2>1, <2>2
  <1>9. \A a, b \in 1 .. Len(s) - 1 : t[a] = t[b] => a = b
    BY <1>1, <1>2, <1>3
  <1> QED
    BY <1>2, <1>8, <1>9 DEF t, IsInjective

(* Taking the first element off is a removal.                               *)
LEMMA TailIsRemoveAt ==
  ASSUME NEW S, NEW s \in Seq(S), s # <<>>
  PROVE  Tail(s) = RemoveAt(s, 1)
  <1>1. Len(s) \in Nat \ {0} /\ DOMAIN s = 1 .. Len(s) /\ Head(s) = s[1]
    OBVIOUS
  <1>2. /\ Tail(s) \in Seq(S) /\ Len(Tail(s)) = Len(s) - 1
        /\ \A j \in 1 .. Len(s) - 1 : Tail(s)[j] = s[j + 1]
    BY HeadTailProperties
  <1>3. /\ RemoveAt(s, 1) \in Seq(S) /\ Len(RemoveAt(s, 1)) = Len(s) - 1
        /\ \A j \in 1 .. Len(s) - 1 : RemoveAt(s, 1)[j] = s[j + 1]
    <2>1. 1 \in 1 .. Len(s)
      BY <1>1
    <2>2. /\ RemoveAt(s, 1) \in Seq(S) /\ Len(RemoveAt(s, 1)) = Len(s) - 1
          /\ \A j \in 1 .. Len(s) - 1 :
               RemoveAt(s, 1)[j] = IF j < 1 THEN s[j] ELSE s[j + 1]
      BY <2>1, RemoveAtFacts
    <2>3. \A j \in 1 .. Len(s) - 1 : ~ (j < 1)
      BY <1>1
    <2> QED
      BY <2>2, <2>3, Zenon
  <1> QED
    BY <1>1, <1>2, <1>3, SeqEqual

(* So does taking the first element off. *)
LEMMA TailKeepsDistinct ==
  ASSUME NEW S, NEW s \in Seq(S), s # <<>>, IsInjective(s)
  PROVE  /\ Head(s) \in S /\ Head(s) \in Range(s)
         /\ Tail(s) \in Seq(S)
         /\ Range(Tail(s)) = Range(s) \ {Head(s)}
         /\ IsInjective(Tail(s))
  <1>1. Len(s) \in Nat \ {0} /\ DOMAIN s = 1 .. Len(s) /\ Head(s) = s[1]
    OBVIOUS
  <1>2. Tail(s) = RemoveAt(s, 1)
    BY TailIsRemoveAt
  <1>3. 1 \in 1 .. Len(s) /\ s[1] \in S /\ s[1] \in Range(s)
    BY <1>1 DEF Range
  <1>4. /\ RemoveAt(s, 1) \in Seq(S)
        /\ Range(RemoveAt(s, 1)) = Range(s) \ {s[1]}
        /\ IsInjective(RemoveAt(s, 1))
    BY <1>3, RemoveAtFacts, RemoveKeepsDistinct
  <1> QED
    BY <1>1, <1>2, <1>3, <1>4

(* Adding at the front adds one element, and keeps the list free of duplicates. *)
LEMMA ConsKeepsDistinct ==
  ASSUME NEW S, NEW s \in Seq(S), NEW e \in S
  PROVE  /\ Cons(e, s) \in Seq(S)
         /\ Range(Cons(e, s)) = Range(s) \cup {e}
         /\ IsInjective(s) /\ e \notin Range(s) => IsInjective(Cons(e, s))
  <1>1. Cons(e, s) = InsertAt(s, 1, e)
    <2>1. /\ Cons(e, s) \in Seq(S) /\ Len(Cons(e, s)) = Len(s) + 1
          /\ \A j \in 1 .. Len(s) + 1 : Cons(e, s)[j] = IF j = 1 THEN e ELSE s[j - 1]
      BY DEF Cons
    <2>2. /\ InsertAt(s, 1, e) \in Seq(S) /\ Len(InsertAt(s, 1, e)) = Len(s) + 1
          /\ \A j \in 1 .. Len(s) + 1 : InsertAt(s, 1, e)[j] = IF j = 1 THEN e ELSE s[j - 1]
      BY InsertAtFacts
    <2> QED
      BY <2>1, <2>2, SeqEqual
  <1> QED
    BY <1>1, InsertAtFacts, InsertKeepsDistinct

(* Inserting before the first larger key keeps a list sorted. *)
LEMMA InsertKeepsSorted ==
  ASSUME NEW S, NEW s \in Seq(S), NEW e \in S
  PROVE  \A key \in [S -> Int] : SortedBy(s, key) =>
           SortedBy(InsertBefore(s, {j \in DOMAIN s : key[s[j]] > key[e]}, e), key)
  <1>0. \A i \in 1 .. Len(s) + 1 :
          /\ InsertAt(s, i, e) \in Seq(S) /\ Len(InsertAt(s, i, e)) = Len(s) + 1
          /\ \A j \in 1 .. Len(s) + 1 :
               InsertAt(s, i, e)[j] = IF j < i THEN s[j] ELSE IF j = i THEN e ELSE s[j - 1]
    BY InsertAtFacts
  <1> SUFFICES ASSUME NEW key \in [S -> Int], SortedBy(s, key)
               PROVE  SortedBy(InsertBefore(s, {j \in DOMAIN s : key[s[j]] > key[e]}, e), key)
    OBVIOUS
  <1> DEFINE Stops == {j \in DOMAIN s : key[s[j]] > key[e]}
  <1>1. PICK i \in 1 .. Len(s) + 1 :
          /\ InsertBefore(s, Stops, e) = InsertAt(s, i, e)
          /\ \A j \in 1 .. i - 1 : j \notin Stops
          /\ i \in Stops \/ i = Len(s) + 1
    <2>1. Stops \in SUBSET (1 .. Len(s))
      OBVIOUS
    <2> HIDE DEF Stops
    <2> QED
      BY <2>1, InsertBeforeFacts
  <1> DEFINE t == InsertAt(s, i, e)
  <1>2. /\ t \in Seq(S) /\ Len(t) = Len(s) + 1
        /\ \A j \in 1 .. Len(s) + 1 : t[j] = IF j < i THEN s[j] ELSE IF j = i THEN e ELSE s[j - 1]
    BY <1>0
  <1>3. \A j \in 1 .. Len(s) : s[j] \in S
    OBVIOUS
  <1>4. \A j, k \in 1 .. Len(s) : j < k => key[s[j]] <= key[s[k]]
    BY DEF SortedBy
  <1>5. \A j \in 1 .. i - 1 : key[s[j]] <= key[e]
    BY <1>1, <1>3
  <1>6. \A j \in i .. Len(s) : key[s[j]] > key[e]
    BY <1>1, <1>3, <1>4
  <1> HIDE DEF t
  <1>7. ASSUME NEW a \in 1 .. Len(s) + 1, NEW b \in 1 .. Len(s) + 1, a < b
        PROVE  key[t[a]] <= key[t[b]]
    <2>1. CASE b < i
      <3>1. t[a] = s[a] /\ t[b] = s[b] /\ a \in 1 .. Len(s) /\ b \in 1 .. Len(s)
        BY <1>2, <1>7, <2>1
      <3> QED
        BY <1>4, <1>7, <3>1
    <2>2. CASE b = i
      BY <1>2, <1>5, <1>7, <2>2
    <2>3. CASE b > i /\ a = i
      <3>1. t[b] = s[b - 1] /\ b - 1 \in i .. Len(s) /\ t[a] = e
        BY <1>2, <1>7, <2>3
      <3> QED
        BY <1>3, <1>6, <3>1
    <2>4. CASE b > i /\ a < i
      <3>1. t[b] = s[b - 1] /\ b - 1 \in i .. Len(s) /\ t[a] = s[a] /\ a \in 1 .. i - 1
        BY <1>2, <1>7, <2>4
      <3> QED
        BY <1>3, <1>5, <1>6, <3>1
    <2>5. CASE b > i /\ a > i
      <3>1. /\ t[b] = s[b - 1] /\ b - 1 \in 1 .. Len(s)
            /\ t[a] = s[a - 1] /\ a - 1 \in 1 .. Len(s) /\ a - 1 < b - 1
        BY <1>2, <1>7, <2>5
      <3> QED
        BY <1>4, <3>1
    <2> QED
      BY <2>1, <2>2, <2>3, <2>4, <2>5
  <1>8. SortedBy(t, key)
    BY <1>2, <1>7 DEF SortedBy
  <1> QED
    BY <1>1, <1>8 DEF t

(* Removing an element keeps a list sorted. *)
LEMMA RemoveKeepsSorted ==
  ASSUME NEW S, NEW s \in Seq(S), NEW i \in 1 .. Len(s), NEW key \in [S -> Int], SortedBy(s, key)
  PROVE  SortedBy(RemoveAt(s, i), key)
  <1> DEFINE t == RemoveAt(s, i)
  <1>1. /\ t \in Seq(S) /\ Len(t) = Len(s) - 1
        /\ \A j \in 1 .. Len(s) - 1 : t[j] = IF j < i THEN s[j] ELSE s[j + 1]
    BY RemoveAtFacts
  <1>2. \A j, k \in 1 .. Len(s) : j < k => key[s[j]] <= key[s[k]]
    BY DEF SortedBy
  <1> HIDE DEF t
  <1>3. ASSUME NEW a \in 1 .. Len(s) - 1, NEW b \in 1 .. Len(s) - 1, a < b
        PROVE  key[t[a]] <= key[t[b]]
    <2>1. CASE b < i
      <3>1. t[a] = s[a] /\ t[b] = s[b] /\ a \in 1 .. Len(s) /\ b \in 1 .. Len(s)
        BY SMTT(30), <1>1, <1>3, <2>1
      <3> QED
        BY <1>2, <1>3, <3>1
    <2>2. CASE a < i /\ ~ (b < i)
      <3>1. /\ t[a] = s[a] /\ a \in 1 .. Len(s)
            /\ t[b] = s[b + 1] /\ b + 1 \in 1 .. Len(s) /\ a < b + 1
        BY SMTT(30), <1>1, <1>3, <2>2
      <3> QED
        BY <1>2, <3>1
    <2>3. CASE ~ (a < i)
      <3>1. /\ t[a] = s[a + 1] /\ a + 1 \in 1 .. Len(s)
            /\ t[b] = s[b + 1] /\ b + 1 \in 1 .. Len(s) /\ a + 1 < b + 1
        <4>1. Len(s) \in Nat /\ a + 1 \in 1 .. Len(s) /\ b + 1 \in 1 .. Len(s) /\ a + 1 < b + 1
          BY <1>3
        <4>2. ~ (b < i)
          BY <1>3, <2>3
        <4> QED
          BY <1>1, <2>3, <4>1, <4>2
      <3> QED
        BY <1>2, <3>1
    <2> QED
      BY <1>3, <2>1, <2>2, <2>3
  <1>4. DOMAIN t = 1 .. Len(s) - 1
    BY <1>1
  <1>5. SortedBy(t, key)
    BY <1>3, <1>4 DEF SortedBy
  <1> QED
    BY <1>5 DEF t

(* SetToSeq enumerates a finite set, every element once.                    *)
LEMMA EnumerationFacts ==
  ASSUME NEW S, IsFiniteSet(S)
  PROVE  /\ SetToSeq(S) \in Seq(S)
         /\ Range(SetToSeq(S)) = S
         /\ IsInjective(SetToSeq(S))
  <1> DEFINE n == Cardinality(S)
  <1>1. n \in Nat /\ ExistsBijection(1 .. n, S)
    BY FS_CardinalityType
  <1>2. \E f \in [1 .. n -> S] : IsInjective(f)
    BY <1>1 DEF ExistsBijection, Bijection, Injection, IsInjective
  <1> DEFINE f == SetToSeq(S)
  <1>3. f \in [1 .. n -> S] /\ IsInjective(f)
    BY <1>2 DEF SetToSeq
  <1> HIDE DEF f
  <1>4. f \in Injection(1 .. n, S)
    BY <1>3 DEF Injection, IsInjective
  <1>5. IsFiniteSet(1 .. n) /\ Cardinality(1 .. n) = n
    BY <1>1, FS_Interval
  <1>6. f \in Surjection(1 .. n, S)
    BY <1>4, <1>5, FS_Injection
  <1>7. Range(f) = S
    BY <1>3, <1>6 DEF Surjection, Range
  <1>8. f \in Seq(S)
    BY <1>1, <1>3
  <1> QED
    BY <1>3, <1>7, <1>8 DEF f

(* ns_list_remove by address.                                               *)
LEMMA WithoutFacts ==
  ASSUME NEW S, NEW s \in Seq(S), NEW e, IsInjective(s)
  PROVE  /\ Without(s, e) \in Seq(S)
         /\ Range(Without(s, e)) = Range(s) \ {e}
         /\ IsInjective(Without(s, e))
  <1>1. CASE e \in Range(s)
    <2> DEFINE i == CHOOSE j \in DOMAIN s : s[j] = e
    <2>1. i \in DOMAIN s /\ s[i] = e
      BY <1>1 DEF Range
    <2>2. Without(s, e) = RemoveAt(s, i)
      BY <1>1 DEF Without
    <2> HIDE DEF i
    <2>3. i \in 1 .. Len(s)
      BY <2>1
    <2> QED
      BY <2>1, <2>2, <2>3, RemoveAtFacts, RemoveKeepsDistinct
  <1>2. CASE e \notin Range(s)
    BY <1>2 DEF Without
  <1> QED
    BY <1>1, <1>2

(* ns_list_add_to_end.                                                      *)
LEMMA AppendKeepsDistinct ==
  ASSUME NEW S, NEW s \in Seq(S), NEW e \in S
  PROVE  /\ Append(s, e) \in Seq(S)
         /\ Range(Append(s, e)) = Range(s) \cup {e}
         /\ IsInjective(s) /\ e \notin Range(s) => IsInjective(Append(s, e))
  <1>1. /\ Append(s, e) \in Seq(S) /\ Len(Append(s, e)) = Len(s) + 1
        /\ \A j \in 1 .. Len(s) : Append(s, e)[j] = s[j]
        /\ Append(s, e)[Len(s) + 1] = e
    OBVIOUS
  <1>2. DOMAIN s = 1 .. Len(s) /\ DOMAIN Append(s, e) = 1 .. Len(s) + 1 /\ Len(s) \in Nat
    BY <1>1
  <1>3. 1 .. Len(s) + 1 = (1 .. Len(s)) \cup {Len(s) + 1}
    BY <1>2
  <1>4. Range(Append(s, e)) = Range(s) \cup {e}
    BY <1>1, <1>2, <1>3 DEF Range
  <1>5. IsInjective(s) /\ e \notin Range(s) => IsInjective(Append(s, e))
    BY <1>1, <1>2, <1>3 DEF Range, IsInjective
  <1> QED
    BY <1>1, <1>4, <1>5

(* A list has no more elements than positions.                              *)
LEMMA RangeCardinality ==
  ASSUME NEW S, NEW s \in Seq(S)
  PROVE  /\ IsFiniteSet(Range(s))
         /\ Cardinality(Range(s)) <= Len(s)
         /\ Cardinality(Range(s)) \in Nat
  <1>0. Len(s) \in Nat
    OBVIOUS
  <1>1. IsFiniteSet(1 .. Len(s)) /\ Cardinality(1 .. Len(s)) = Len(s)
    BY <1>0, FS_Interval
  <1>2. s \in Surjection(1 .. Len(s), Range(s))
    BY DEF Surjection, Range
  <1> QED
    BY <1>1, <1>2, FS_Surjection, FS_CardinalityType
-----------------------------------------------------------------------------
(* The order of a list.                                                     *)

(* x stands before y in the list.                                           *)
Before(s, x, y) == \E i, j \in DOMAIN s : i < j /\ s[i] = x /\ s[j] = y

(* An insertion adds e after what is in front of it and before the rest.    *)
LEMMA InsertKeepsBefore ==
  ASSUME NEW S, NEW s \in Seq(S), NEW i \in 1 .. Len(s) + 1, NEW e \in S, NEW x, NEW y
  PROVE  Before(InsertAt(s, i, e), x, y) <=>
           \/ Before(s, x, y)
           \/ y = e /\ \E j \in 1 .. i - 1 : s[j] = x
           \/ x = e /\ \E j \in i .. Len(s) : s[j] = y
  <1> DEFINE t == InsertAt(s, i, e)
  <1>1. /\ t \in Seq(S) /\ Len(t) = Len(s) + 1
        /\ \A j \in 1 .. Len(s) + 1 : t[j] = IF j < i THEN s[j] ELSE IF j = i THEN e ELSE s[j - 1]
    BY InsertAtFacts
  <1> HIDE DEF t
  <1>2. DOMAIN t = 1 .. Len(s) + 1 /\ DOMAIN s = 1 .. Len(s) /\ Len(s) \in Nat
    BY <1>1
  <1> DEFINE at(j) == IF j < i THEN j ELSE j + 1
  <1>3. \A j \in 1 .. Len(s) : at(j) \in 1 .. Len(s) + 1 /\ t[at(j)] = s[j]
    <2> SUFFICES ASSUME NEW j \in 1 .. Len(s)
                 PROVE  at(j) \in 1 .. Len(s) + 1 /\ t[at(j)] = s[j]
      OBVIOUS
    <2>1. CASE j < i
      BY <1>1, <1>2, <2>1
    <2>2. CASE ~ (j < i)
      <3>1. /\ j + 1 \in 1 .. Len(s) + 1 /\ ~ (j + 1 < i) /\ j + 1 # i
            /\ (j + 1) - 1 = j /\ at(j) = j + 1
        BY <1>2, <2>2
      <3>2. t[j + 1] = s[(j + 1) - 1]
        BY <1>1, <3>1
      <3> QED
        BY <3>1, <3>2
    <2> QED
      BY <2>1, <2>2
  <1>4. \A j, k \in 1 .. Len(s) : j < k => at(j) < at(k)
    BY <1>2
  <1>5. t[i] = e /\ i \in 1 .. Len(s) + 1
    BY <1>1
  <1>6. \A k \in 1 .. Len(s) + 1 : k # i => \E j \in 1 .. Len(s) : k = at(j)
    <2> SUFFICES ASSUME NEW k \in 1 .. Len(s) + 1, k # i
                 PROVE  \E j \in 1 .. Len(s) : k = at(j)
      OBVIOUS
    <2>1. CASE k < i
      <3>1. k \in 1 .. Len(s) /\ k = at(k)
        BY <1>2, <2>1
      <3> QED
        BY <3>1
    <2>2. CASE ~ (k < i)
      <3>1. k - 1 \in 1 .. Len(s) /\ k = at(k - 1)
        BY <1>2, <2>2
      <3> QED
        BY <3>1
    <2> QED
      BY <2>1, <2>2
  <1>7. /\ \A j \in 1 .. Len(s) : (at(j) < i) <=> (j \in 1 .. i - 1)
        /\ \A j \in 1 .. Len(s) : (i < at(j)) <=> (j \in i .. Len(s))
    BY <1>2
  <1>8. \A j, k \in 1 .. Len(s) : at(j) < at(k) => j < k
    BY <1>2
  <1> HIDE DEF at
  <1>9. ASSUME Before(t, x, y)
        PROVE  \/ Before(s, x, y)
               \/ y = e /\ \E j \in 1 .. i - 1 : s[j] = x
               \/ x = e /\ \E j \in i .. Len(s) : s[j] = y
    <2>1. PICK a \in 1 .. Len(s) + 1, b \in 1 .. Len(s) + 1 : a < b /\ t[a] = x /\ t[b] = y
      BY <1>2, <1>9 DEF Before
    <2>2. CASE a = i
      <3>1. b # i
        BY <2>1, <2>2
      <3>2. PICK k \in 1 .. Len(s) : b = at(k)
        BY <1>6, <3>1
      <3> QED
        BY <1>3, <1>5, <1>7, <2>1, <2>2, <3>2
    <2>3. CASE b = i
      <3>1. a # i
        BY <2>1, <2>3
      <3>2. PICK j \in 1 .. Len(s) : a = at(j)
        BY <1>6, <3>1
      <3>3. j \in 1 .. i - 1 /\ s[j] = x
        BY <1>3, <1>7, <2>1, <2>3, <3>2
      <3>4. y = e
        BY <1>5, <2>1, <2>3
      <3> QED
        BY <3>3, <3>4
    <2>4. CASE a # i /\ b # i
      <3>1. PICK j \in 1 .. Len(s) : a = at(j)
        BY <1>6, <2>4
      <3>2. PICK k \in 1 .. Len(s) : b = at(k)
        BY <1>6, <2>4
      <3>3. j < k /\ s[j] = x /\ s[k] = y
        BY <1>3, <1>8, <2>1, <3>1, <3>2
      <3> QED
        BY <1>2, <3>3 DEF Before
    <2> QED
      BY <2>2, <2>3, <2>4
  <1>10. ASSUME Before(s, x, y)
         PROVE  Before(t, x, y)
    <2>1. PICK j \in 1 .. Len(s), k \in 1 .. Len(s) : j < k /\ s[j] = x /\ s[k] = y
      BY <1>2, <1>10 DEF Before
    <2> QED
      BY <1>2, <1>3, <1>4, <2>1 DEF Before
  <1>11. ASSUME y = e, NEW j \in 1 .. i - 1, s[j] = x
         PROVE  Before(t, x, y)
    <2>1. j \in 1 .. Len(s)
      BY <1>2
    <2>2. at(j) < i /\ t[at(j)] = x /\ at(j) \in 1 .. Len(s) + 1
      BY <1>3, <1>7, <1>11, <2>1
    <2> QED
      BY <1>2, <1>5, <1>11, <2>2 DEF Before
  <1>12. ASSUME x = e, NEW j \in i .. Len(s), s[j] = y
         PROVE  Before(t, x, y)
    <2>1. j \in 1 .. Len(s)
      BY <1>2
    <2>2. i < at(j) /\ t[at(j)] = y /\ t[i] = x /\ at(j) \in 1 .. Len(s) + 1
      BY <1>3, <1>5, <1>7, <1>12, <2>1
    <2> QED
      BY <1>2, <1>5, <2>2 DEF Before
  <1> QED
    BY <1>9, <1>10, <1>11, <1>12 DEF t

(* A removal leaves the order of the others.                                *)
LEMMA RemoveKeepsBefore ==
  ASSUME NEW S, NEW s \in Seq(S), IsInjective(s), NEW i \in 1 .. Len(s), NEW x, NEW y
  PROVE  Before(RemoveAt(s, i), x, y) <=> Before(s, x, y) /\ x # s[i] /\ y # s[i]
  <1> DEFINE t == RemoveAt(s, i)
  <1>1. /\ t \in Seq(S) /\ Len(t) = Len(s) - 1
        /\ \A j \in 1 .. Len(s) - 1 : t[j] = IF j < i THEN s[j] ELSE s[j + 1]
    BY RemoveAtFacts
  <1> HIDE DEF t
  <1>2. DOMAIN t = 1 .. Len(s) - 1 /\ DOMAIN s = 1 .. Len(s) /\ Len(s) \in Nat
    BY <1>1
  <1>3. \A a, b \in 1 .. Len(s) : s[a] = s[b] => a = b
    BY <1>2 DEF IsInjective
  <1> DEFINE from(j) == IF j < i THEN j ELSE j + 1
  <1>4. \A j \in 1 .. Len(s) - 1 :
           from(j) \in 1 .. Len(s) /\ from(j) # i /\ t[j] = s[from(j)]
    <2> SUFFICES ASSUME NEW j \in 1 .. Len(s) - 1
                 PROVE  from(j) \in 1 .. Len(s) /\ from(j) # i /\ t[j] = s[from(j)]
      OBVIOUS
    <2>1. CASE j < i
      BY <1>1, <1>2, <2>1
    <2>2. CASE ~ (j < i)
      BY <1>1, <1>2, <2>2
    <2> QED
      BY <2>1, <2>2
  <1>5. \A j, k \in 1 .. Len(s) - 1 : j < k <=> from(j) < from(k)
    BY <1>2
  <1>6. \A k \in 1 .. Len(s) : k # i => \E j \in 1 .. Len(s) - 1 : k = from(j)
    <2> SUFFICES ASSUME NEW k \in 1 .. Len(s), k # i
                 PROVE  \E j \in 1 .. Len(s) - 1 : k = from(j)
      OBVIOUS
    <2>1. CASE k < i
      <3>1. k \in 1 .. Len(s) - 1 /\ k = from(k)
        BY <1>2, <2>1
      <3> QED
        BY <3>1
    <2>2. CASE ~ (k < i)
      <3>1. k - 1 \in 1 .. Len(s) - 1 /\ k = from(k - 1)
        BY <1>2, <2>2
      <3> QED
        BY <3>1
    <2> QED
      BY <2>1, <2>2
  <1> HIDE DEF from
  <1>7. ASSUME Before(t, x, y)
        PROVE  Before(s, x, y) /\ x # s[i] /\ y # s[i]
    <2>1. PICK a \in 1 .. Len(s) - 1, b \in 1 .. Len(s) - 1 : a < b /\ t[a] = x /\ t[b] = y
      BY <1>2, <1>7 DEF Before
    <2>2. /\ from(a) < from(b) /\ s[from(a)] = x /\ s[from(b)] = y
          /\ from(a) \in 1 .. Len(s) /\ from(b) \in 1 .. Len(s)
          /\ from(a) # i /\ from(b) # i
      BY <1>4, <1>5, <2>1
    <2>3. Before(s, x, y)
      BY <1>2, <2>2 DEF Before
    <2> QED
      BY <1>3, <2>2, <2>3
  <1>8. ASSUME Before(s, x, y), x # s[i], y # s[i]
        PROVE  Before(t, x, y)
    <2>1. PICK j \in 1 .. Len(s), k \in 1 .. Len(s) : j < k /\ s[j] = x /\ s[k] = y
      BY <1>2, <1>8 DEF Before
    <2>2. j # i /\ k # i
      BY <1>8, <2>1
    <2>3. PICK a \in 1 .. Len(s) - 1 : j = from(a)
      BY <1>6, <2>2
    <2>4. PICK b \in 1 .. Len(s) - 1 : k = from(b)
      BY <1>6, <2>2
    <2>5. a < b /\ t[a] = x /\ t[b] = y
      BY <1>4, <1>5, <2>1, <2>3, <2>4
    <2> QED
      BY <1>2, <2>5 DEF Before
  <1> QED
    BY <1>7, <1>8 DEF t

(* So does the removal by address: it removes one element or none.          *)
LEMMA WithoutKeepsBefore ==
  ASSUME NEW S, NEW s \in Seq(S), IsInjective(s), NEW e, NEW x, NEW y
  PROVE  Before(Without(s, e), x, y) <=> Before(s, x, y) /\ x # e /\ y # e
  <1>1. CASE e \in Range(s)
    <2>1. PICK i \in DOMAIN s : i = CHOOSE j \in DOMAIN s : s[j] = e
      BY <1>1 DEF Range
    <2>2. s[i] = e /\ Without(s, e) = RemoveAt(s, i) /\ i \in 1 .. Len(s)
      BY <1>1, <2>1 DEF Range, Without
    <2> QED
      BY <2>2, RemoveKeepsBefore
  <1>2. CASE e \notin Range(s)
    <2>1. Before(s, x, y) => x \in Range(s) /\ y \in Range(s)
      BY DEF Before, Range
    <2>2. Without(s, e) = s
      BY <1>2 DEF Without
    <2> QED
      BY <1>2, <2>1, <2>2
  <1> QED
    BY <1>1, <1>2

(* The pairs of elements with the same key, in the order of the list.       *)
Ties(s, key) ==
    {<<s[ij[1]], s[ij[2]]>> : ij \in
        {ij \in (DOMAIN s) \X (DOMAIN s) :
            ij[1] < ij[2] /\ key[s[ij[1]]] = key[s[ij[2]]]}}

LEMMA TiesAreBefore ==
  ASSUME NEW s, NEW key
  PROVE  /\ \A x, y : <<x, y>> \in Ties(s, key) <=> Before(s, x, y) /\ key[x] = key[y]
         /\ \A p \in Ties(s, key) : p = <<p[1], p[2]>>
  <1>1. ASSUME NEW x, NEW y
        PROVE  <<x, y>> \in Ties(s, key) <=> Before(s, x, y) /\ key[x] = key[y]
    <2>1. ASSUME <<x, y>> \in Ties(s, key)
          PROVE  Before(s, x, y) /\ key[x] = key[y]
      <3>1. PICK i \in DOMAIN s, j \in DOMAIN s :
              <<x, y>> = <<s[i], s[j]>> /\ i < j /\ key[s[i]] = key[s[j]]
        BY <2>1 DEF Ties
      <3>2. x = s[i] /\ y = s[j]
        BY <3>1
      <3> QED
        BY <3>1, <3>2 DEF Before
    <2>2. ASSUME Before(s, x, y), key[x] = key[y]
          PROVE  <<x, y>> \in Ties(s, key)
      <3>1. PICK i \in DOMAIN s, j \in DOMAIN s : i < j /\ s[i] = x /\ s[j] = y
        BY <2>2 DEF Before
      <3> DEFINE ij == <<i, j>>
      <3>2. ij \in (DOMAIN s) \X (DOMAIN s) /\ ij[1] = i /\ ij[2] = j
        OBVIOUS
      <3> QED
        BY <2>2, <3>1, <3>2 DEF Ties
    <2> QED
      BY <2>1, <2>2
  <1>2. \A p \in Ties(s, key) : p = <<p[1], p[2]>>
    BY DEF Ties
  <1> QED
    BY <1>1, <1>2

(* Two keys that tie the same elements.                                     *)
LEMMA TiesOfKeys ==
  ASSUME NEW s, NEW key, NEW other,
         \A x, y \in Range(s) : (key[x] = key[y]) <=> (other[x] = other[y])
  PROVE  Ties(s, key) = Ties(s, other)
  <1>1. ASSUME NEW x, NEW y
        PROVE  <<x, y>> \in Ties(s, key) <=> <<x, y>> \in Ties(s, other)
    <2>1. Before(s, x, y) => x \in Range(s) /\ y \in Range(s)
      BY DEF Before, Range
    <2> QED
      BY <2>1, TiesAreBefore
  <1>2. \A p \in Ties(s, key) \cup Ties(s, other) : p = <<p[1], p[2]>>
    BY TiesAreBefore
  <1> QED
    BY <1>1, <1>2

(* Inserted before the first larger key, an element comes last among those  *)
(* with its own key.                                                        *)
LEMMA TiesOfInsert ==
  ASSUME NEW S, NEW s \in Seq(S), NEW e \in S, NEW key \in [S -> Int], SortedBy(s, key)
  PROVE  Ties(InsertBefore(s, {j \in DOMAIN s : key[s[j]] > key[e]}, e), key)
           = Ties(s, key) \cup {<<y, e>> : y \in {z \in Range(s) : key[z] = key[e]}}
  <1> DEFINE Stops == {j \in DOMAIN s : key[s[j]] > key[e]}
             New == {<<y, e>> : y \in {z \in Range(s) : key[z] = key[e]}}
  <1>0. DOMAIN s = 1 .. Len(s) /\ Len(s) \in Nat /\ \A j \in 1 .. Len(s) : s[j] \in S /\ s[j] \in Range(s)
    BY DEF Range
  <1>1. PICK i \in 1 .. Len(s) + 1 :
          /\ InsertBefore(s, Stops, e) = InsertAt(s, i, e)
          /\ \A j \in 1 .. i - 1 : j \notin Stops
          /\ i \in Stops \/ i = Len(s) + 1
    <2>1. Stops \in SUBSET (1 .. Len(s))
      BY <1>0
    <2> HIDE DEF Stops
    <2> QED
      BY <2>1, InsertBeforeFacts
  <1> DEFINE t == InsertAt(s, i, e)
  <1>2. \A j \in i .. Len(s) : key[s[j]] # key[e]
    <2> SUFFICES ASSUME NEW j \in i .. Len(s)
                 PROVE  key[s[j]] > key[e]
      BY <1>0
    <2>1. i \in 1 .. Len(s) /\ key[s[i]] > key[e] /\ j \in 1 .. Len(s)
      BY <1>0, <1>1
    <2>2. i = j \/ key[s[i]] <= key[s[j]]
      BY <1>0, <2>1 DEF SortedBy
    <2>3. key[s[i]] \in Int /\ key[s[j]] \in Int /\ key[e] \in Int
      BY <1>0, <2>1
    <2> QED
      BY <2>1, <2>2, <2>3
  <1>3. \A x \in Range(s) : key[x] = key[e] => \E j \in 1 .. i - 1 : s[j] = x
    <2> SUFFICES ASSUME NEW x \in Range(s), key[x] = key[e]
                 PROVE  \E j \in 1 .. i - 1 : s[j] = x
      OBVIOUS
    <2>1. PICK j \in 1 .. Len(s) : s[j] = x
      BY <1>0 DEF Range
    <2>2. ~ (j \in i .. Len(s))
      BY <1>2, <2>1
    <2> QED
      BY <1>0, <2>1, <2>2
  <1> HIDE DEF Stops
  <1>4. ASSUME NEW x, NEW y
        PROVE  <<x, y>> \in Ties(t, key) <=>
                 \/ <<x, y>> \in Ties(s, key)
                 \/ y = e /\ x \in Range(s) /\ key[x] = key[e]
    <2>1. Before(t, x, y) <=>
            \/ Before(s, x, y)
            \/ y = e /\ \E j \in 1 .. i - 1 : s[j] = x
            \/ x = e /\ \E j \in i .. Len(s) : s[j] = y
      BY InsertKeepsBefore
    <2>2. \A j \in 1 .. i - 1 : j \in 1 .. Len(s)
      BY <1>0
    <2>3. (x = e /\ \E j \in i .. Len(s) : s[j] = y) => key[x] # key[y]
      BY <1>2
    <2>4. (y = e /\ \E j \in 1 .. i - 1 : s[j] = x) /\ key[x] = key[y]
             <=> y = e /\ x \in Range(s) /\ key[x] = key[e]
      BY <1>0, <1>3, <2>2
    <2> HIDE DEF t
    <2>5. (<<x, y>> \in Ties(t, key)) <=> (Before(t, x, y) /\ key[x] = key[y])
      BY TiesAreBefore
    <2>6. (<<x, y>> \in Ties(s, key)) <=> (Before(s, x, y) /\ key[x] = key[y])
      BY TiesAreBefore
    <2> QED
      BY <2>1, <2>3, <2>4, <2>5, <2>6
  <1> HIDE DEF t
  <1>5. \A x, y : <<x, y>> \in New <=> y = e /\ x \in Range(s) /\ key[x] = key[e]
    OBVIOUS
  <1>6. \A r \in New : r = <<r[1], r[2]>>
    OBVIOUS
  <1> HIDE DEF New
  <1>7. \A r \in Ties(t, key) \cup Ties(s, key) : r = <<r[1], r[2]>>
    BY TiesAreBefore
  <1>8. \A r : r \in Ties(t, key) <=> r \in Ties(s, key) \cup New
    BY <1>4, <1>5, <1>6, <1>7
  <1> QED
    BY <1>1, <1>8 DEF t, New, Stops

(* An element that is removed is in no pair any more.                       *)
LEMMA TiesOfRemove ==
  ASSUME NEW S, NEW s \in Seq(S), IsInjective(s), NEW i \in 1 .. Len(s), NEW key
  PROVE  \A r : r \in Ties(RemoveAt(s, i), key) <=> (r \in Ties(s, key) /\ r[1] # s[i] /\ r[2] # s[i])
  <1>1. ASSUME NEW x, NEW y
        PROVE  <<x, y>> \in Ties(RemoveAt(s, i), key) <=> <<x, y>> \in Ties(s, key) /\ x # s[i] /\ y # s[i]
    <2>1. (<<x, y>> \in Ties(RemoveAt(s, i), key)) <=> (Before(RemoveAt(s, i), x, y) /\ key[x] = key[y])
      BY TiesAreBefore
    <2>2. (<<x, y>> \in Ties(s, key)) <=> (Before(s, x, y) /\ key[x] = key[y])
      BY TiesAreBefore
    <2>3. Before(RemoveAt(s, i), x, y) <=> (Before(s, x, y) /\ x # s[i] /\ y # s[i])
      BY RemoveKeepsBefore
    <2> QED
      BY <2>1, <2>2, <2>3
  <1>2. \A r \in Ties(RemoveAt(s, i), key) \cup Ties(s, key) : r = <<r[1], r[2]>>
    BY TiesAreBefore
  <1> QED
    BY <1>1, <1>2

(* The same of the removal by address.                                      *)
LEMMA TiesOfWithout ==
  ASSUME NEW S, NEW s \in Seq(S), IsInjective(s), NEW e, NEW key
  PROVE  \A r : r \in Ties(Without(s, e), key) <=> (r \in Ties(s, key) /\ r[1] # e /\ r[2] # e)
  <1>1. ASSUME NEW x, NEW y
        PROVE  <<x, y>> \in Ties(Without(s, e), key) <=> <<x, y>> \in Ties(s, key) /\ x # e /\ y # e
    <2>1. (<<x, y>> \in Ties(Without(s, e), key)) <=> (Before(Without(s, e), x, y) /\ key[x] = key[y])
      BY TiesAreBefore
    <2>2. (<<x, y>> \in Ties(s, key)) <=> (Before(s, x, y) /\ key[x] = key[y])
      BY TiesAreBefore
    <2>3. Before(Without(s, e), x, y) <=> (Before(s, x, y) /\ x # e /\ y # e)
      BY WithoutKeepsBefore
    <2> QED
      BY <2>1, <2>2, <2>3
  <1>2. \A r \in Ties(Without(s, e), key) \cup Ties(s, key) : r = <<r[1], r[2]>>
    BY TiesAreBefore
  <1> QED
    BY <1>1, <1>2
=============================================================================
