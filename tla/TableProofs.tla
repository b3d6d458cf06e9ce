----------------------------- MODULE TableProofs -----------------------------
(***************************************************************************)
(* Facts the proofs of the other modules share: about finite sets of ids,   *)
(* and about a sequence from which the first element is taken.              *)
(***************************************************************************)
EXTENDS Tables, Integers, Sequences, FiniteSets, FiniteSetTheorems, SequenceTheorems, TLAPS

-----------------------------------------------------------------------------
(* Induction, for the sets of naturals it is needed for.  A number missing   *)
(* from S would make k |-> k - 1 an injection of a finite set into itself     *)
(* that misses its largest element.                                          *)

LEMMA SetInduction ==
  ASSUME NEW S, 0 \in S, \A n \in Nat : n \in S => n + 1 \in S
  PROVE  Nat \subseteq S
  <1> SUFFICES ASSUME NEW m \in Nat, m \notin S PROVE FALSE
    OBVIOUS
  <1> DEFINE T == (0..m) \ S
  <1> DEFINE f == [k \in T |-> k - 1]
  <1>1. IsFiniteSet(T)
    <2>1. IsFiniteSet(0..m)
      BY FS_Interval
    <2> QED
      BY <2>1, FS_Difference, Zenon
  <1>2. \A k \in T : k \in Nat /\ k # 0 /\ k - 1 \in T
    OBVIOUS
  <1>3. f \in Injection(T, T)
    BY <1>2 DEF Injection, IsInjective
  <1>4. f \in Surjection(T, T)
    BY <1>1, <1>3, FS_Injection
  <1>5. m \in T
    OBVIOUS
  <1>6. \E k \in T : f[k] = m
    BY <1>4, <1>5 DEF Surjection
  <1> QED
    BY <1>6

\* A finite set of naturals has a largest element.
LEMMA LargestExists ==
  ASSUME NEW A \in SUBSET Nat, IsFiniteSet(A), A # {}
  PROVE  \E m \in A : \A k \in A : k <= m
  <1> DEFINE Bounded(B) == \E m \in B : \A k \in B : k <= m
  <1> DEFINE S == {n \in Nat : \A B \in SUBSET Nat :
                      IsFiniteSet(B) /\ Cardinality(B) = n /\ B # {} => Bounded(B)}
  <1>1. 0 \in S
    BY FS_EmptySet
  <1>2. ASSUME NEW n \in Nat, n \in S
        PROVE  n + 1 \in S
    <2> SUFFICES ASSUME NEW B \in SUBSET Nat, IsFiniteSet(B), Cardinality(B) = n + 1, B # {}
                 PROVE  Bounded(B)
      OBVIOUS
    <2>1. PICK x \in B : TRUE
      OBVIOUS
    <2> DEFINE C == B \ {x}
    <2>2. IsFiniteSet(C) /\ Cardinality(C) = n
      <3>1. IsFiniteSet(C) /\ Cardinality(C) = IF x \in B THEN Cardinality(B) - 1 ELSE Cardinality(B)
        BY FS_RemoveElement, Zenon
      <3> QED
        BY <3>1
    <2>3. CASE C = {}
      <3>1. B = {x} /\ x \in Nat
        BY <2>1, <2>3
      <3> QED
        BY <3>1
    <2>4. CASE C # {}
      <3>1. Bounded(C)
        BY <1>2, <2>2, <2>4
      <3>2. PICK m \in C : \A k \in C : k <= m
        BY <3>1
      <3>3. m \in Nat /\ x \in Nat /\ B = C \cup {x}
        BY <2>1
      <3>4. CASE x <= m
        BY <3>2, <3>3, <3>4
      <3>5. CASE ~(x <= m)
        <4>1. \A k \in B : k <= x
          BY <3>2, <3>3, <3>5
        <4> QED
          BY <4>1, <2>1
      <3> QED
        BY <3>4, <3>5
    <2> QED
      BY <2>3, <2>4
  <1>3. Cardinality(A) \in S
    <2> HIDE DEF S
    <2>1. Nat \subseteq S
      BY <1>1, <1>2, SetInduction
    <2> QED
      BY <2>1, FS_CardinalityType
  <1> QED
    BY <1>3

-----------------------------------------------------------------------------
(* Sequences *)

\* The elements of a sequence; a value is a sequence when it is one of them.
Elements(s) == {s[i] : i \in DOMAIN s}
IsSequence(s) == s \in Seq(Elements(s))

LEMMA SequenceOver ==
  ASSUME NEW S, NEW s \in Seq(S)
  PROVE  IsSequence(s)
  <1>1. s \in [1..Len(s) -> S] /\ Len(s) \in Nat
    BY LenProperties
  <1>2. s \in [1..Len(s) -> Elements(s)]
    BY <1>1 DEF Elements
  <1> QED
    BY <1>1, <1>2 DEF IsSequence

LEMMA TailFacts ==
  ASSUME NEW s, IsSequence(s), s # <<>>
  PROVE  /\ Len(s) \in Nat \ {0}
         /\ Head(s) = s[1]
         /\ IsSequence(Tail(s))
         /\ Len(Tail(s)) = Len(s) - 1
         /\ \A i \in 1..Len(s) - 1 : Tail(s)[i] = s[i + 1]
  <1>1. /\ Tail(s) \in Seq(Elements(s))
        /\ Len(Tail(s)) = Len(s) - 1
        /\ \A i \in 1..Len(Tail(s)) : Tail(s)[i] = s[i + 1]
    BY HeadTailProperties DEF IsSequence
  <1>2. Len(s) \in Nat \ {0}
    BY EmptySeq DEF IsSequence
  <1>3. Head(s) = s[1]
    BY DEF IsSequence
  <1> QED
    BY <1>1, <1>2, <1>3, SequenceOver

LEMMA ShortSequences ==
  /\ IsSequence(<<>>) /\ Len(<<>>) = 0
  /\ \A a : IsSequence(<<a>>) /\ Len(<<a>>) = 1 /\ <<a>>[1] = a
  /\ \A a, b : /\ IsSequence(<<a, b>>) /\ Len(<<a, b>>) = 2
               /\ <<a, b>>[1] = a /\ <<a, b>>[2] = b
  /\ \A a, b, c : /\ IsSequence(<<a, b, c>>) /\ Len(<<a, b, c>>) = 3
                  /\ <<a, b, c>>[1] = a /\ <<a, b, c>>[2] = b /\ <<a, b, c>>[3] = c
  <1>1. <<>> \in Seq({})
    OBVIOUS
  <1>2. \A a : <<a>> \in Seq({a})
    OBVIOUS
  <1>3. \A a, b : <<a, b>> \in Seq({a, b})
    OBVIOUS
  <1>4. \A a, b, c : <<a, b, c>> \in Seq({a, b, c})
    OBVIOUS
  <1> QED
    BY <1>1, <1>2, <1>3, <1>4, SequenceOver
=============================================================================
