---------------------------- MODULE QueueLemmas ----------------------------
(***************************************************************************)
(* Facts about queues, whatever they hold, that the proofs about several   *)
(* components rest on: the elements of a queue, and the last one of a      *)
(* kind.                                                                   *)
(***************************************************************************)
EXTENDS Integers, Sequences, SequencesExt, SequenceTheorems,
        WellFoundedInduction, TLAPS

-----------------------------------------------------------------------------
(* The elements of a queue after the operations on it. *)

(* A list put behind a list has the elements of both. *)
LEMMA ToSetConcat ==
  ASSUME NEW S, NEW p \in Seq(S), NEW q \in Seq(S)
  PROVE  ToSet(p \o q) = ToSet(p) \cup ToSet(q)
<1>1. \A i \in 1 .. Len(p) : (p \o q)[i] = p[i]
  OBVIOUS
<1>2. \A i \in 1 .. Len(q) : (p \o q)[Len(p) + i] = q[i]
  OBVIOUS
<1>3. DOMAIN (p \o q) = 1 .. Len(p) + Len(q)
  OBVIOUS
<1>4. \A i \in 1 .. Len(p) + Len(q) :
        i \in 1 .. Len(p) \/ \E j \in 1 .. Len(q) : i = Len(p) + j
  <2>1. SUFFICES ASSUME NEW i \in 1 .. Len(p) + Len(q), i \notin 1 .. Len(p)
                 PROVE  \E j \in 1 .. Len(q) : i = Len(p) + j
    OBVIOUS
  <2>2. i - Len(p) \in 1 .. Len(q) /\ i = Len(p) + (i - Len(p))
    BY <2>1
  <2> QED
    BY <2>2
<1>5. DOMAIN p = 1 .. Len(p) /\ DOMAIN q = 1 .. Len(q)
  OBVIOUS
<1>6. \A i \in 1 .. Len(p) : i \in 1 .. Len(p) + Len(q)
  OBVIOUS
<1>7. \A j \in 1 .. Len(q) : Len(p) + j \in 1 .. Len(p) + Len(q)
  OBVIOUS
<1>8. ToSet(p \o q) \subseteq ToSet(p) \cup ToSet(q)
  <2>1. SUFFICES ASSUME NEW i \in 1 .. Len(p) + Len(q)
                 PROVE  (p \o q)[i] \in ToSet(p) \cup ToSet(q)
    BY <1>3 DEF ToSet
  <2>2. CASE i \in 1 .. Len(p)
    BY <1>1, <1>5, <2>2 DEF ToSet
  <2>3. CASE \E j \in 1 .. Len(q) : i = Len(p) + j
    BY <1>2, <1>5, <2>3 DEF ToSet
  <2> QED
    BY <1>4, <2>2, <2>3
<1>9. ToSet(p) \cup ToSet(q) \subseteq ToSet(p \o q)
  BY <1>1, <1>2, <1>3, <1>5, <1>6, <1>7 DEF ToSet
<1> QED
  BY <1>8, <1>9

(* Appending an element adds it to the set of a list. *)
LEMMA ToSetAppend ==
  ASSUME NEW S, NEW q \in Seq(S), NEW e \in S
  PROVE  ToSet(Append(q, e)) = ToSet(q) \cup {e}
<1>1. /\ DOMAIN Append(q, e) = 1 .. Len(q) + 1
      /\ \A i \in 1 .. Len(q) : Append(q, e)[i] = q[i]
      /\ Append(q, e)[Len(q) + 1] = e
  OBVIOUS
<1>2. \A i \in 1 .. Len(q) + 1 : i \in 1 .. Len(q) \/ i = Len(q) + 1
  OBVIOUS
<1> QED
  BY <1>1, <1>2 DEF ToSet

(* A list that is not empty is its head and its tail. *)
LEMMA ToSetTail ==
  ASSUME NEW S, NEW q \in Seq(S), q # <<>>
  PROVE  ToSet(q) = {Head(q)} \cup ToSet(Tail(q))
<1>1. /\ Head(q) = q[1]
      /\ DOMAIN Tail(q) = 1 .. Len(q) - 1
      /\ \A i \in 1 .. Len(q) - 1 : Tail(q)[i] = q[i + 1]
      /\ Len(q) \in Nat \ {0}
      /\ DOMAIN q = 1 .. Len(q)
  OBVIOUS
<1>2. \A i \in 1 .. Len(q) : i = 1 \/ \E j \in 1 .. Len(q) - 1 : i = j + 1
  <2>1. SUFFICES ASSUME NEW i \in 1 .. Len(q), i # 1
                 PROVE  \E j \in 1 .. Len(q) - 1 : i = j + 1
    OBVIOUS
  <2>2. Len(q) \in Nat
    BY <1>1
  <2>3. i - 1 \in 1 .. Len(q) - 1 /\ i = (i - 1) + 1
    BY <2>1, <2>2
  <2> QED
    BY <2>3
<1>3. 1 \in 1 .. Len(q) /\ \A j \in 1 .. Len(q) - 1 : j + 1 \in 1 .. Len(q)
  BY <1>1
<1>4. ASSUME NEW i \in 1 .. Len(q)
      PROVE  q[i] \in {Head(q)} \cup ToSet(Tail(q))
  <2>1. CASE i = 1
    BY <1>1, <2>1
  <2>2. CASE i # 1
    <3>1. PICK j \in 1 .. Len(q) - 1 : i = j + 1
      BY <1>2, <2>2
    <3>2. Tail(q)[j] = q[i]
      BY <1>1, <3>1
    <3> QED
      BY <1>1, <3>2 DEF ToSet
  <2> QED
    BY <2>1, <2>2
<1>5. {Head(q)} \cup ToSet(Tail(q)) \subseteq ToSet(q)
  BY <1>1, <1>3 DEF ToSet
<1> QED
  BY <1>1, <1>4, <1>5 DEF ToSet

(* The elements of the shortest lists. *)
LEMMA ToSetSmall ==
  ASSUME NEW s
  PROVE  ToSet(<<>>) = {} /\ ToSet(<<s>>) = {s} /\ ToSet(<<s, s>>) = {s}
BY DEF ToSet

(* The elements of lists of two and three. *)
LEMMA ToSetPair ==
  ASSUME NEW a, NEW b
  PROVE  ToSet(<<a, b>>) = {a, b}
<1>1. DOMAIN <<a, b>> = {1, 2} /\ <<a, b>>[1] = a /\ <<a, b>>[2] = b
  OBVIOUS
<1> QED
  BY <1>1 DEF ToSet

(* The same for three. *)
LEMMA ToSetTriple ==
  ASSUME NEW a, NEW b, NEW c
  PROVE  ToSet(<<a, b, c>>) = {a, b, c}
<1> DEFINE q == <<a, b, c>>
<1>1. DOMAIN q = {1, 2, 3} /\ q[1] = a /\ q[2] = b /\ q[3] = c
  OBVIOUS
<1> HIDE DEF q
<1>2. ToSet(q) = {a, b, c}
  BY <1>1 DEF ToSet
<1> QED
  BY <1>2 DEF q

(* The last element of a list is that of its tail, or its only one. *)
LEMMA LastOfTail ==
  ASSUME NEW S, NEW q \in Seq(S), q # <<>>
  PROVE  /\ Tail(q) # <<>> => Last(Tail(q)) = Last(q)
         /\ Tail(q) = <<>> => Head(q) = Last(q)
<1>1. PICK n \in Nat \ {0} : n = Len(q)
  OBVIOUS
<1>2. /\ Head(q) = q[1]
      /\ Len(Tail(q)) = n - 1
      /\ \A i \in 1 .. n - 1 : Tail(q)[i] = q[i + 1]
  BY <1>1
<1>3. ASSUME Tail(q) # <<>> PROVE Last(Tail(q)) = Last(q)
  <2>1. Tail(q) \in Seq(S)
    OBVIOUS
  <2>2. Len(Tail(q)) # 0
    <3>1. \A r \in Seq(S) : Len(r) = 0 => r = <<>>
      OBVIOUS
    <3> QED
      BY <1>3, <2>1, <3>1
  <2>3. n - 1 \in 1 .. n - 1
    BY <1>2, <2>2
  <2>4. Tail(q)[n - 1] = q[(n - 1) + 1]
    BY <1>2, <2>3
  <2>5. (n - 1) + 1 = n
    OBVIOUS
  <2>6. Last(Tail(q)) = Tail(q)[n - 1] /\ Last(q) = q[n]
    BY <1>1, <1>2 DEF Last
  <2> QED
    BY <2>4, <2>5, <2>6
<1>4. ASSUME Tail(q) = <<>> PROVE Head(q) = Last(q)
  <2>1. n = 1
    BY <1>2, <1>4
  <2> QED
    BY <1>1, <1>2, <2>1 DEF Last
<1> QED
  BY <1>3, <1>4

(* Two lists of one element. *)
LEMMA ConcatSingles ==
  ASSUME NEW a, NEW b
  PROVE  <<a>> \o <<b>> = <<a, b>>
<1> DEFINE S == {a, b}
           p == <<a>> \o <<b>>
           q == <<a, b>>
<1>1. <<a>> \in Seq(S) /\ <<b>> \in Seq(S) /\ <<a, b>> \in Seq(S)
  OBVIOUS
<1>2. p \in Seq(S) /\ q \in Seq(S) /\ Len(p) = 2 /\ Len(q) = 2
  BY <1>1
<1>3. p[1] = q[1] /\ p[2] = q[2]
  BY <1>1
<1> HIDE DEF p, q
<1>4. \A i \in 1 .. Len(p) : p[i] = q[i]
  BY <1>2, <1>3
<1>5. p = q
  BY <1>2, <1>4, SeqEqual
<1> QED
  BY <1>5 DEF p, q

(* An element put behind another. *)
LEMMA AppendSingle ==
  ASSUME NEW a, NEW b
  PROVE  Append(<<a>>, b) = <<a, b>>
<1> DEFINE S == {a, b}
           p == Append(<<a>>, b)
           q == <<a, b>>
<1>1. <<a>> \in Seq(S) /\ <<a, b>> \in Seq(S)
  OBVIOUS
<1>2. p \in Seq(S) /\ q \in Seq(S) /\ Len(p) = 2 /\ Len(q) = 2
  BY <1>1
<1>3. p[1] = q[1] /\ p[2] = q[2]
  BY <1>1
<1> HIDE DEF p, q
<1>4. \A i \in 1 .. Len(p) : p[i] = q[i]
  BY <1>2, <1>3
<1>5. p = q
  BY <1>2, <1>4, SeqEqual
<1> QED
  BY <1>5 DEF p, q

(* An element put behind two. *)
LEMMA AppendPair ==
  ASSUME NEW a, NEW b, NEW c
  PROVE  Append(<<a, b>>, c) = <<a, b, c>>
<1> DEFINE S == {a, b, c}
           p == Append(<<a, b>>, c)
           q == <<a, b, c>>
<1>1. <<a, b>> \in Seq(S) /\ <<a, b, c>> \in Seq(S)
  OBVIOUS
<1>2. p \in Seq(S) /\ q \in Seq(S) /\ Len(p) = 3 /\ Len(q) = 3
  BY <1>1
<1>3. p[1] = q[1] /\ p[2] = q[2] /\ p[3] = q[3]
  BY <1>1
<1> HIDE DEF p, q
<1>4. \A i \in 1 .. Len(p) : p[i] = q[i]
  BY <1>2, <1>3
<1>5. p = q
  BY <1>2, <1>4, SeqEqual
<1> QED
  BY <1>5 DEF p, q

(* A handler of one or two instructions, when the first of them has been
   done and put its own continuation in front of the rest. *)
LEMMA ShortHandlers ==
  ASSUME NEW a, NEW b, NEW c
  PROVE  /\ Tail(<<a>>) = <<>> /\ Tail(<<a, b>>) = <<b>>
         /\ Tail(<<a, b, c>>) = <<b, c>>
         /\ <<>> \o <<>> = <<>> /\ <<a>> \o <<>> = <<a>>
         /\ <<a, b>> \o <<>> = <<a, b>> /\ <<a, b, c>> \o <<>> = <<a, b, c>>
         /\ <<>> \o <<b>> = <<b>> /\ <<a>> \o <<b>> = <<a, b>>
         /\ <<>> \o <<b, c>> = <<b, c>>
         /\ <<a>> \o <<b, c>> = <<a, b, c>>
         /\ Head(<<a>>) = a /\ Head(<<a, b>>) = a /\ Head(<<a, b, c>>) = a
         /\ <<a>> # <<>> /\ <<a, b>> # <<>> /\ <<a, b, c>> # <<>>
<1> DEFINE S == {a, b, c}
<1>1. /\ <<>> \in Seq(S) /\ <<a>> \in Seq(S) /\ <<b>> \in Seq(S)
      /\ <<a, b>> \in Seq(S) /\ <<b, c>> \in Seq(S) /\ <<a, b, c>> \in Seq(S)
  OBVIOUS
<1>2. \A q \in Seq(S) : q \o <<>> = q /\ <<>> \o q = q
  OBVIOUS
<1>3. <<>> \o <<>> = <<>> /\ <<a>> \o <<>> = <<a>>
  BY <1>1, <1>2
<1>4. <<a, b>> \o <<>> = <<a, b>> /\ <<a, b, c>> \o <<>> = <<a, b, c>>
  BY <1>1, <1>2
<1>5. <<>> \o <<b>> = <<b>> /\ <<>> \o <<b, c>> = <<b, c>>
  BY <1>1, <1>2
<1>6. <<a>> \o <<b>> = <<a, b>>
  BY ConcatSingles
<1>7. <<a>> \o <<b, c>> = <<a, b, c>>
  <2> DEFINE p == <<a>> \o <<b, c>>
             q == <<a, b, c>>
  <2>1. p \in Seq(S) /\ q \in Seq(S) /\ Len(p) = 3 /\ Len(q) = 3
    BY <1>1
  <2>2. p[1] = q[1] /\ p[2] = q[2] /\ p[3] = q[3]
    BY <1>1
  <2> HIDE DEF p, q
  <2>3. \A i \in 1 .. Len(p) : p[i] = q[i]
    BY <2>1, <2>2
  <2>4. p = q
    BY <2>1, <2>3, SeqEqual
  <2> QED
    BY <2>4 DEF p, q
<1>8. Tail(<<a>>) = <<>>
  OBVIOUS
<1>9. Tail(<<a, b>>) = <<b>>
  OBVIOUS
<1>10. Tail(<<a, b, c>>) = <<b, c>>
  OBVIOUS
<1>11. Head(<<a>>) = a /\ Head(<<a, b>>) = a /\ Head(<<a, b, c>>) = a
  OBVIOUS
<1>12. <<a>> # <<>> /\ <<a, b>> # <<>> /\ <<a, b, c>> # <<>>
  OBVIOUS
<1> QED
  BY <1>3, <1>4, <1>5, <1>6, <1>7, <1>8, <1>9, <1>10, <1>11, <1>12

(* Two elements put behind a list, one after the other. *)
LEMMA AppendTwo ==
  ASSUME NEW S, NEW q \in Seq(S), NEW a \in S, NEW b \in S
  PROVE  q \o <<a, b>> = Append(Append(q, a), b)
<1> DEFINE p == q \o <<a, b>>
           r == Append(Append(q, a), b)
<1>1. /\ <<a, b>> \in Seq(S) /\ Len(<<a, b>>) = 2
      /\ <<a, b>>[1] = a /\ <<a, b>>[2] = b /\ Len(q) \in Nat
  OBVIOUS
<1>2. /\ p \in Seq(S) /\ Len(p) = Len(q) + 2
      /\ \A i \in 1 .. Len(p) :
            p[i] = IF i <= Len(q) THEN q[i] ELSE <<a, b>>[i - Len(q)]
  BY <1>1
<1>3. /\ r \in Seq(S) /\ Len(r) = Len(q) + 2
      /\ \A i \in 1 .. Len(q) : r[i] = q[i]
      /\ r[Len(q) + 1] = a /\ r[Len(q) + 2] = b
  BY <1>1
<1> HIDE DEF p, r
<1>4. ASSUME NEW i \in 1 .. Len(p) PROVE p[i] = r[i]
  <2>1. i \in 1 .. Len(q) \/ i = Len(q) + 1 \/ i = Len(q) + 2
    BY <1>1, <1>2
  <2>2. (Len(q) + 1) - Len(q) = 1 /\ (Len(q) + 2) - Len(q) = 2
    BY <1>1
  <2> QED
    BY <1>1, <1>2, <1>3, <2>1, <2>2
<1>5. p = r
  BY <1>2, <1>3, <1>4, SeqEqual
<1> QED
  BY <1>5 DEF p, r

-----------------------------------------------------------------------------
(* The last element of a kind. *)

(* Where a queue holds elements of M, and the last of these. *)
Hits(q, M) == {i \in DOMAIN q : q[i] \in M}

LastIn(q, M, default) ==
  IF Hits(q, M) = {} THEN default ELSE q[Max(Hits(q, M))]

(* A set of positions of a list has a greatest one. *)
LEMMA GreatestPosition ==
  ASSUME NEW n \in Nat, NEW I \in SUBSET (1 .. n), I # {}
  PROVE  Max(I) \in I /\ \A j \in I : Max(I) >= j
<1> DEFINE T == {n - i : i \in I}
<1>1. T \subseteq Nat /\ T # {}
  <2>1. \A i \in I : i \in Int /\ 1 <= i /\ i <= n
    OBVIOUS
  <2>2. \A i \in I : n - i \in Nat
    BY <2>1
  <2> QED
    BY <2>2
<1>2. PICK d \in T : \A e \in T : ~ (<<e, d>> \in OpToRel(<, Nat))
  BY <1>1, WFMin, NatLessThanWellFounded, Zenon
<1>3. \A e \in T : ~ (e < d)
  BY <1>1, <1>2, Zenon DEF OpToRel
<1>4. PICK i \in I : d = n - i
  BY <1>2
<1>5. \A j \in I : i >= j
  <2>1. SUFFICES ASSUME NEW j \in I PROVE i >= j
    OBVIOUS
  <2>2. n - j \in T
    OBVIOUS
  <2>3. ~ (n - j < n - i)
    BY <1>3, <1>4, <2>2
  <2> QED
    BY <2>3
<1> QED
  BY <1>5 DEF Max

(* An empty queue has no elements. *)
LEMMA LastInEmpty ==
  ASSUME NEW M, NEW d
  PROVE  LastIn(<<>>, M, d) = d
BY DEF LastIn, Hits

(* The last element of a kind, found by any means, is LastIn. *)
LEMMA LastInIs ==
  ASSUME NEW S, NEW q \in Seq(S), NEW M, NEW d,
         NEW i \in 1 .. Len(q), q[i] \in M,
         \A j \in 1 .. Len(q) : j > i => q[j] \notin M
  PROVE  LastIn(q, M, d) = q[i]
<1>1. DOMAIN q = 1 .. Len(q) /\ Len(q) \in Nat
  OBVIOUS
<1>2. i \in Hits(q, M) /\ Hits(q, M) \in SUBSET (1 .. Len(q))
  BY <1>1 DEF Hits
<1>3. Max(Hits(q, M)) \in Hits(q, M) /\ Max(Hits(q, M)) >= i
  BY <1>1, <1>2, GreatestPosition
<1>4. Max(Hits(q, M)) = i
  <2>1. \A m \in 1 .. Len(q) : q[m] \in M /\ m >= i => m = i
    OBVIOUS
  <2> QED
    BY <1>1, <1>3, <2>1 DEF Hits
<1> QED
  BY <1>2, <1>4 DEF LastIn

(* A queue without elements of a kind has no last one. *)
LEMMA LastInNone ==
  ASSUME NEW S, NEW q \in Seq(S), NEW M, NEW d,
         \A i \in 1 .. Len(q) : q[i] \notin M
  PROVE  LastIn(q, M, d) = d
<1>1. Hits(q, M) = {}
  BY DEF Hits
<1> QED
  BY <1>1 DEF LastIn

(* Every queue is in one of these two cases. *)
LEMMA LastInCases ==
  ASSUME NEW S, NEW q \in Seq(S), NEW M
  PROVE  \/ \A i \in 1 .. Len(q) : q[i] \notin M
         \/ \E i \in 1 .. Len(q) :
               /\ q[i] \in M
               /\ \A j \in 1 .. Len(q) : j > i => q[j] \notin M
<1>1. DOMAIN q = 1 .. Len(q) /\ Len(q) \in Nat
  OBVIOUS
<1>2. CASE Hits(q, M) = {}
  BY <1>1, <1>2 DEF Hits
<1>3. CASE Hits(q, M) # {}
  <2> DEFINE m == Max(Hits(q, M))
  <2>1. Hits(q, M) \in SUBSET (1 .. Len(q))
    BY <1>1 DEF Hits
  <2>2. m \in Hits(q, M) /\ \A j \in Hits(q, M) : m >= j
    BY <1>1, <1>3, <2>1, GreatestPosition
  <2>3. m \in 1 .. Len(q) /\ q[m] \in M
    BY <1>1, <2>2 DEF Hits
  <2>4. \A j \in 1 .. Len(q) : j > m => q[j] \notin M
    <3>1. SUFFICES ASSUME NEW j \in 1 .. Len(q), j > m, q[j] \in M
                   PROVE  FALSE
      OBVIOUS
    <3>2. j \in Hits(q, M)
      BY <1>1, <3>1 DEF Hits
    <3>3. m >= j
      BY <2>2, <3>2
    <3> HIDE DEF m
    <3> QED
      BY <2>3, <3>1, <3>3
  <2> QED
    BY <2>3, <2>4
<1> QED
  BY <1>2, <1>3

(* What there is of a kind does not depend on the default. *)
LEMMA LastInListed ==
  ASSUME NEW S, NEW q \in Seq(S), NEW M
  PROVE  \/ \A d : LastIn(q, M, d) = d
         \/ \E e \in M : e \in ToSet(q) /\ \A d : LastIn(q, M, d) = e
<1>1. DOMAIN q = 1 .. Len(q) /\ Len(q) \in Nat
  OBVIOUS
<1>2. CASE Hits(q, M) = {}
  BY <1>2 DEF LastIn
<1>3. CASE Hits(q, M) # {}
  <2>1. Hits(q, M) \in SUBSET (1 .. Len(q))
    BY <1>1 DEF Hits
  <2>2. Max(Hits(q, M)) \in Hits(q, M)
    BY <1>1, <1>3, <2>1, GreatestPosition
  <2>3. q[Max(Hits(q, M))] \in M /\ q[Max(Hits(q, M))] \in ToSet(q)
    BY <2>2 DEF Hits, ToSet
  <2> QED
    BY <1>3, <2>3 DEF LastIn
<1> QED
  BY <1>2, <1>3

(* In particular not where it comes from. *)
LEMMA LastInDefault ==
  ASSUME NEW S, NEW q \in Seq(S), NEW M
  PROVE  \/ \A d : LastIn(q, M, d) = d
         \/ \E e \in M : \A d : LastIn(q, M, d) = e
BY LastInListed

(* A queue put behind another does not change the last element of a kind that
   it has none of. *)
LEMMA LastInConcat ==
  ASSUME NEW S, NEW q \in Seq(S), NEW p \in Seq(S), NEW M, NEW d,
         \A e \in ToSet(p) : e \notin M
  PROVE  LastIn(q \o p, M, d) = LastIn(q, M, d)
<1> DEFINE r == q \o p
<1>1. /\ r \in Seq(S) /\ Len(r) = Len(q) + Len(p)
      /\ Len(q) \in Nat /\ Len(p) \in Nat
      /\ \A i \in 1 .. Len(q) : r[i] = q[i]
  OBVIOUS
<1>2. \A i \in 1 .. Len(r) : i > Len(q) => r[i] \notin M
  <2>1. \A i \in 1 .. Len(p) : p[i] \notin M
    BY DEF ToSet
  <2>2. ASSUME NEW i \in 1 .. Len(r), i > Len(q)
        PROVE  r[i] = p[i - Len(q)] /\ i - Len(q) \in 1 .. Len(p)
    BY <1>1, <2>2
  <2> HIDE DEF r
  <2> QED
    BY <2>1, <2>2
<1> HIDE DEF r
<1>3. CASE \A i \in 1 .. Len(q) : q[i] \notin M
  <2>1. \A i \in 1 .. Len(r) : r[i] \notin M
    BY <1>1, <1>2, <1>3
  <2>2. LastIn(r, M, d) = d
    BY <1>1, <2>1, LastInNone
  <2>3. LastIn(q, M, d) = d
    BY <1>3, LastInNone
  <2> QED
    BY <2>2, <2>3 DEF r
<1>4. ASSUME NEW i \in 1 .. Len(q), q[i] \in M,
             \A j \in 1 .. Len(q) : j > i => q[j] \notin M
      PROVE  LastIn(r, M, d) = LastIn(q, M, d)
  <2>1. i \in 1 .. Len(r) /\ r[i] = q[i]
    BY <1>1
  <2>2. ASSUME NEW j \in 1 .. Len(r), j > i
        PROVE  r[j] \notin M
    <3>1. CASE j > Len(q)
      BY <1>2, <3>1
    <3>2. CASE ~(j > Len(q))
      <4>1. j \in 1 .. Len(q)
        BY <1>1, <3>2
      <4> QED
        BY <1>1, <1>4, <2>2, <4>1
    <3> QED
      BY <3>1, <3>2
  <2>3. r[i] \in M
    BY <1>4, <2>1
  <2>4. LastIn(r, M, d) = r[i]
    <3>1. r \in Seq(S)
      BY <1>1
    <3>2. \A j \in 1 .. Len(r) : j > i => r[j] \notin M
      BY <2>2
    <3> QED
      BY <2>1, <2>3, <3>1, <3>2, LastInIs
  <2>5. LastIn(q, M, d) = q[i]
    BY <1>4, LastInIs
  <2> QED
    BY <2>1, <2>4, <2>5
<1> QED
  BY <1>3, <1>4, LastInCases DEF r

(* An element put behind a queue is the last one of its kind, and of no
   other. *)
LEMMA LastInAppend ==
  ASSUME NEW S, NEW q \in Seq(S), NEW e \in S, NEW M, NEW d
  PROVE  LastIn(Append(q, e), M, d) = IF e \in M THEN e ELSE LastIn(q, M, d)
<1> DEFINE r == Append(q, e)
<1>1. /\ r \in Seq(S) /\ Len(r) = Len(q) + 1 /\ Len(q) \in Nat
      /\ \A i \in 1 .. Len(q) : r[i] = q[i]
      /\ r[Len(q) + 1] = e
  OBVIOUS
<1> HIDE DEF r
<1>2. CASE e \in M
  <2>1. Len(q) + 1 \in 1 .. Len(r) /\ r[Len(q) + 1] \in M
    BY <1>1, <1>2
  <2>2. \A j \in 1 .. Len(r) : j > Len(q) + 1 => r[j] \notin M
    BY <1>1
  <2>3. LastIn(r, M, d) = r[Len(q) + 1]
    BY <1>1, <2>1, <2>2, LastInIs
  <2> QED
    BY <1>1, <1>2, <2>3 DEF r
<1>3. CASE e \notin M
  <2>1. CASE \A i \in 1 .. Len(q) : q[i] \notin M
    <3>1. \A i \in 1 .. Len(r) : r[i] \notin M
      BY <1>1, <1>3, <2>1
    <3>2. LastIn(r, M, d) = d /\ LastIn(q, M, d) = d
      BY <1>1, <2>1, <3>1, LastInNone
    <3> QED
      BY <1>3, <3>2 DEF r
  <2>2. CASE \E i \in 1 .. Len(q) :
               /\ q[i] \in M
               /\ \A j \in 1 .. Len(q) : j > i => q[j] \notin M
    <3>1. PICK i \in 1 .. Len(q) :
               /\ q[i] \in M
               /\ \A j \in 1 .. Len(q) : j > i => q[j] \notin M
      BY <2>2
    <3>2. i \in 1 .. Len(r) /\ r[i] = q[i]
      BY <1>1
    <3>3. \A j \in 1 .. Len(r) : j > i => r[j] \notin M
      BY <1>1, <1>3, <3>1
    <3>4. LastIn(r, M, d) = r[i]
      BY <1>1, <3>1, <3>2, <3>3, LastInIs
    <3>5. LastIn(q, M, d) = q[i]
      BY <3>1, LastInIs
    <3> QED
      BY <1>3, <3>2, <3>4, <3>5 DEF r
  <2> QED
    BY <2>1, <2>2, LastInCases
<1> QED
  BY <1>2, <1>3

(* Taking the head of a queue makes it the default, if it is of the kind. *)
LEMMA LastInTail ==
  ASSUME NEW S, NEW q \in Seq(S), q # <<>>, NEW M, NEW d
  PROVE  LastIn(q, M, d) = LastIn(Tail(q), M, IF Head(q) \in M THEN Head(q) ELSE d)
<1> DEFINE r == Tail(q)
           c == IF Head(q) \in M THEN Head(q) ELSE d
<1>1. /\ r \in Seq(S) /\ Len(q) \in Nat \ {0} /\ Len(r) = Len(q) - 1
      /\ \A i \in 1 .. Len(r) : r[i] = q[i + 1]
      /\ Head(q) = q[1]
  OBVIOUS
<1> HIDE DEF r
<1>2. CASE \A i \in 1 .. Len(r) : r[i] \notin M
  <2>1. LastIn(r, M, c) = c
    BY <1>1, <1>2, LastInNone
  <2>2. \A i \in 1 .. Len(q) : i > 1 => q[i] \notin M
    <3>1. SUFFICES ASSUME NEW i \in 1 .. Len(q), i > 1 PROVE q[i] \notin M
      OBVIOUS
    <3>2. i - 1 \in 1 .. Len(r) /\ (i - 1) + 1 = i
      BY <1>1, <3>1
    <3> QED
      BY <1>1, <1>2, <3>2
  <2>3. CASE Head(q) \in M
    <3>1. 1 \in 1 .. Len(q) /\ q[1] \in M
      BY <1>1, <2>3
    <3>2. LastIn(q, M, d) = q[1]
      BY <2>2, <3>1, LastInIs
    <3> QED
      BY <1>1, <2>1, <2>3, <3>2 DEF r
  <2>4. CASE Head(q) \notin M
    <3>1. \A i \in 1 .. Len(q) : q[i] \notin M
      BY <1>1, <2>2, <2>4
    <3>2. LastIn(q, M, d) = d
      BY <3>1, LastInNone
    <3> QED
      BY <2>1, <2>4, <3>2 DEF r
  <2> QED
    BY <2>3, <2>4
<1>3. CASE \E i \in 1 .. Len(r) :
               /\ r[i] \in M
               /\ \A j \in 1 .. Len(r) : j > i => r[j] \notin M
  <2>1. PICK i \in 1 .. Len(r) :
               /\ r[i] \in M
               /\ \A j \in 1 .. Len(r) : j > i => r[j] \notin M
    BY <1>3
  <2>2. LastIn(r, M, c) = r[i]
    BY <1>1, <2>1, LastInIs
  <2>3. i + 1 \in 1 .. Len(q) /\ q[i + 1] = r[i]
    BY <1>1
  <2>4. \A j \in 1 .. Len(q) : j > i + 1 => q[j] \notin M
    <3>1. SUFFICES ASSUME NEW j \in 1 .. Len(q), j > i + 1 PROVE q[j] \notin M
      OBVIOUS
    <3>2. j - 1 \in 1 .. Len(r) /\ (j - 1) + 1 = j /\ j - 1 > i
      BY <1>1, <3>1
    <3> QED
      BY <1>1, <2>1, <3>2
  <2>5. LastIn(q, M, d) = q[i + 1]
    BY <2>1, <2>3, <2>4, LastInIs
  <2> QED
    BY <2>2, <2>3, <2>5 DEF r
<1> QED
  BY <1>1, <1>2, <1>3, LastInCases DEF r

-----------------------------------------------------------------------------
(* e is in a queue once, if at all. *)
Once(q, e) == \A i, j \in DOMAIN q : q[i] = e /\ q[j] = e => i = j

(* It is still when an element is appended that is another or the first. *)
LEMMA OnceAppend ==
  ASSUME NEW S, NEW q \in Seq(S), NEW a \in S, NEW e,
         Once(q, e), a # e \/ e \notin ToSet(q)
  PROVE  Once(Append(q, a), e)
<1> DEFINE r == Append(q, a)
<1>1. /\ DOMAIN q = 1 .. Len(q) /\ DOMAIN r = 1 .. Len(q) + 1 /\ Len(q) \in Nat
      /\ \A i \in 1 .. Len(q) : r[i] = q[i]
      /\ r[Len(q) + 1] = a
  OBVIOUS
<1>2. \A i \in 1 .. Len(q) + 1 : i \in 1 .. Len(q) \/ i = Len(q) + 1
  BY <1>1
<1> HIDE DEF r
<1>3. a = e => \A i \in 1 .. Len(q) : q[i] # e
  BY <1>1 DEF ToSet
<1>4. ASSUME NEW i \in DOMAIN r, NEW j \in DOMAIN r, r[i] = e, r[j] = e
      PROVE  i = j
  BY <1>1, <1>2, <1>3, <1>4 DEF Once
<1> QED
  BY <1>4 DEF Once, r

(* When it is taken, there is none left. *)
LEMMA OnceTail ==
  ASSUME NEW S, NEW q \in Seq(S), q # <<>>, NEW e, Once(q, e)
  PROVE  Once(Tail(q), e) /\ (Head(q) = e => e \notin ToSet(Tail(q)))
<1> DEFINE r == Tail(q)
<1>1. /\ DOMAIN q = 1 .. Len(q) /\ DOMAIN r = 1 .. Len(q) - 1 /\ Len(q) \in Nat \ {0}
      /\ \A i \in 1 .. Len(q) - 1 : r[i] = q[i + 1]
      /\ Head(q) = q[1]
  OBVIOUS
<1>2. \A i \in 1 .. Len(q) - 1 : i + 1 \in 1 .. Len(q) /\ i + 1 # 1
  BY <1>1
<1>3. 1 \in 1 .. Len(q)
  BY <1>1
<1> HIDE DEF r
<1>4. ASSUME NEW i \in DOMAIN r, NEW j \in DOMAIN r, r[i] = e, r[j] = e
      PROVE  i = j
  <2>1. i + 1 = j + 1
    BY <1>1, <1>2, <1>4 DEF Once
  <2> QED
    BY <1>1, <2>1
<1>5. ASSUME Head(q) = e, NEW i \in DOMAIN r, r[i] = e PROVE FALSE
  BY <1>1, <1>2, <1>3, <1>5 DEF Once
<1>6. Once(r, e)
  BY <1>4 DEF Once
<1>7. Head(q) = e => e \notin ToSet(r)
  BY <1>5 DEF ToSet
<1> QED
  BY <1>6, <1>7 DEF r
============================================================================
