---------------------------- MODULE CommonLemmas ----------------------------
(***************************************************************************)
(* Facts that the proofs of several components rest on: induction over the *)
(* naturals as a statement about sets, which every prover can use (to      *)
(* prove P(n) for all n, cite SetInduction for the set of the n with       *)
(* P(n)); sequences without repetition; and the number of processes that   *)
(* are in one of some states.                                              *)
(***************************************************************************)
EXTENDS Naturals, Sequences, SequencesExt, FiniteSets, FiniteSetTheorems,
        WellFoundedInduction, TLAPS

-----------------------------------------------------------------------------
(* Induction.                                                              *)

\* Every non-empty set of naturals has a least element.
LEMMA LeastElement ==
  ASSUME NEW T \in SUBSET Nat, T # {}
  PROVE  \E m \in T : \A n \in T : m <= n
<1>1. PICK m \in T : \A n \in T : ~ (<<n, m>> \in OpToRel(<, Nat))
  BY NatLessThanWellFounded, WFMin, Zenon
<1>2. ASSUME NEW n \in T PROVE m <= n
  <2>1. <<n, m>> \notin OpToRel(<, Nat)
    BY <1>1
  <2> QED
    BY <2>1 DEF OpToRel
<1> QED
  BY <1>2

\* Induction over the naturals, as a statement about sets.
LEMMA SetInduction ==
  ASSUME NEW S \in SUBSET Nat, 0 \in S, \A n \in S : n + 1 \in S
  PROVE  \A n \in Nat : n \in S
<1> SUFFICES ASSUME Nat \ S # {} PROVE FALSE
  OBVIOUS
<1>1. PICK m \in Nat \ S : \A n \in Nat \ S : m <= n
  BY LeastElement
<1>2. m # 0 /\ m - 1 \in Nat
  BY <1>1
<1>3. m - 1 \in S
  BY <1>1, <1>2
<1>4. (m - 1) + 1 \in S
  BY <1>3
<1> QED
  BY <1>1, <1>2, <1>4

-----------------------------------------------------------------------------
(* Sequences without repetition.                                           *)

InjSeqs(U) == {s \in Seq(U) : IsInjective(s)}

\* There is no room for more elements than the set has.
LEMMA InjSeqLength ==
  ASSUME NEW U, IsFiniteSet(U), NEW s \in InjSeqs(U)
  PROVE  Len(s) \in Nat /\ Cardinality(U) \in Nat /\ Len(s) <= Cardinality(U)
<1>1. s \in [1..Len(s) -> U] /\ Len(s) \in Nat /\ IsInjective(s)
  BY DEF InjSeqs
<1>2. s \in Injection(1..Len(s), U)
  BY <1>1 DEF Injection
<1>3. Cardinality(1..Len(s)) <= Cardinality(U)
  BY <1>2, FS_Injection
<1>4. Cardinality(1..Len(s)) = IF 1 > Len(s) THEN 0 ELSE Len(s) - 1 + 1
  BY <1>1, FS_Interval
<1>5. Cardinality(U) \in Nat
  BY FS_CardinalityType
<1> QED
  BY <1>1, <1>3, <1>4, <1>5

\* The empty sequence.
LEMMA InjSeqEmpty == ASSUME NEW U PROVE <<>> \in InjSeqs(U) /\ ToSet(<<>>) = {}
<1>1. <<>> \in Seq(U) /\ DOMAIN <<>> = {}
  OBVIOUS
<1> QED
  BY <1>1 DEF InjSeqs, IsInjective, ToSet

\* Taking the first element.
LEMMA InjSeqTail ==
  ASSUME NEW U, NEW s \in InjSeqs(U), s # <<>>
  PROVE  /\ Head(s) \in U /\ Head(s) \in ToSet(s) /\ Tail(s) \in InjSeqs(U)
         /\ ToSet(Tail(s)) = ToSet(s) \ {Head(s)}
<1>1. /\ s \in Seq(U) /\ IsInjective(s) /\ Len(s) \in Nat \ {0} /\ DOMAIN s = 1..Len(s)
      /\ Head(s) = s[1]
  BY DEF InjSeqs
<1> DEFINE t == Tail(s)
<1>2. /\ t \in Seq(U) /\ DOMAIN t = 1..(Len(s) - 1)
      /\ \A i \in 1..(Len(s) - 1) : t[i] = s[i + 1]
  BY <1>1
<1> HIDE DEF t
<1>3. 1 \in 1..Len(s) /\ \A i \in 1..(Len(s) - 1) : i + 1 \in 1..Len(s) /\ i + 1 # 1
  BY <1>1
<1>4. \A i \in 1..Len(s) : i # 1 => i - 1 \in 1..(Len(s) - 1) /\ (i - 1) + 1 = i
  BY <1>1
<1>5. IsInjective(t)
  <2> SUFFICES ASSUME NEW i \in 1..(Len(s) - 1), NEW j \in 1..(Len(s) - 1), t[i] = t[j]
               PROVE  i = j
    BY <1>2 DEF IsInjective
  <2>1. s[i + 1] = s[j + 1]
    BY <1>2
  <2>2. i + 1 = j + 1
    BY <1>1, <1>3, <2>1, Zenon DEF IsInjective
  <2> QED
    BY <1>1, <2>2
<1>6. Head(s) \in U /\ Head(s) \in ToSet(s)
  BY <1>1, <1>3 DEF ToSet
<1>7. ASSUME NEW x \in ToSet(t) PROVE x \in ToSet(s) /\ x # Head(s)
  <2>1. PICK i \in 1..(Len(s) - 1) : x = t[i]
    BY <1>2 DEF ToSet
  <2>2. x = s[i + 1] /\ i + 1 \in 1..Len(s) /\ i + 1 # 1
    BY <1>2, <1>3, <2>1
  <2> QED
    BY <1>1, <1>3, <2>2 DEF ToSet, IsInjective
<1>8. ASSUME NEW x \in ToSet(s), x # Head(s) PROVE x \in ToSet(t)
  <2>1. PICK i \in 1..Len(s) : x = s[i]
    BY <1>1 DEF ToSet
  <2>2. i # 1
    BY <1>1, <1>8, <2>1
  <2>3. i - 1 \in 1..(Len(s) - 1) /\ t[i - 1] = s[i]
    BY <1>2, <1>4, <2>2
  <2> QED
    BY <1>2, <2>1, <2>3 DEF ToSet
<1> QED
  BY <1>2, <1>5, <1>6, <1>7, <1>8 DEF t, InjSeqs

\* Adding an element at the end.
LEMMA InjSeqAppend ==
  ASSUME NEW U, NEW s \in InjSeqs(U), NEW p \in U, p \notin ToSet(s)
  PROVE  Append(s, p) \in InjSeqs(U) /\ ToSet(Append(s, p)) = ToSet(s) \cup {p}
<1>1. s \in Seq(U) /\ IsInjective(s)
  BY DEF InjSeqs
<1>2. Append(s, p) \in Seq(U) /\ ToSet(Append(s, p)) = ToSet(s) \cup {p}
  <2>1. /\ Append(s, p) \in Seq(U) /\ DOMAIN Append(s, p) = 1..(Len(s) + 1)
        /\ DOMAIN s = 1..Len(s) /\ Len(s) \in Nat
    BY <1>1
  <2>2. \A i \in 1..(Len(s) + 1) : Append(s, p)[i] = IF i = Len(s) + 1 THEN p ELSE s[i]
    BY <1>1
  <2>3. \A i \in 1..Len(s) : i \in 1..(Len(s) + 1) /\ i # Len(s) + 1
    BY <2>1
  <2>4. \A i \in 1..(Len(s) + 1) : i # Len(s) + 1 => i \in 1..Len(s)
    BY <2>1
  <2>5. Len(s) + 1 \in 1..(Len(s) + 1)
    BY <2>1
  <2> QED
    BY <2>1, <2>2, <2>3, <2>4, <2>5 DEF ToSet
<1>3. IsInjective(Append(s, p))
  BY <1>1 DEF IsInjective, ToSet
<1> QED
  BY <1>2, <1>3 DEF InjSeqs

\* Adding an element in front.
LEMMA InjSeqCons ==
  ASSUME NEW U, NEW s \in InjSeqs(U), NEW p \in U, p \notin ToSet(s)
  PROVE  <<p>> \o s \in InjSeqs(U) /\ ToSet(<<p>> \o s) = {p} \cup ToSet(s)
<1> DEFINE t == <<p>> \o s
<1>1. s \in Seq(U) /\ IsInjective(s) /\ DOMAIN s = 1..Len(s) /\ Len(s) \in Nat
  BY DEF InjSeqs
<1>2. t \in Seq(U) /\ DOMAIN t = 1..(Len(s) + 1)
  BY <1>1
<1>3. \A i \in 1..(Len(s) + 1) : t[i] = IF i = 1 THEN p ELSE s[i - 1]
  BY <1>1
<1> HIDE DEF t
<1>4. \A i \in 1..(Len(s) + 1) : i # 1 => i - 1 \in 1..Len(s)
  BY <1>1
<1>5. \A i \in 1..Len(s) : i + 1 \in 1..(Len(s) + 1) /\ i + 1 # 1 /\ (i + 1) - 1 = i
  BY <1>1
<1>6. 1 \in 1..(Len(s) + 1)
  BY <1>1
<1>7. ToSet(t) = {p} \cup ToSet(s)
  <2>1. ASSUME NEW x \in ToSet(t) PROVE x \in {p} \cup ToSet(s)
    BY <1>1, <1>2, <1>3, <1>4 DEF ToSet
  <2>2. p \in ToSet(t)
    BY <1>2, <1>3, <1>6 DEF ToSet
  <2>3. ASSUME NEW x \in ToSet(s) PROVE x \in ToSet(t)
    <3>1. PICK i \in 1..Len(s) : x = s[i]
      BY <1>1 DEF ToSet
    <3>2. t[i + 1] = s[i]
      BY <1>3, <1>5
    <3> QED
      BY <1>2, <1>5, <3>1, <3>2 DEF ToSet
  <2> QED
    BY <2>1, <2>2, <2>3
<1>8. IsInjective(t)
  <2> SUFFICES ASSUME NEW i \in 1..(Len(s) + 1), NEW j \in 1..(Len(s) + 1), t[i] = t[j]
               PROVE  i = j
    BY <1>2 DEF IsInjective
  <2>1. ASSUME NEW k \in 1..Len(s) PROVE s[k] # p
    BY <1>1 DEF ToSet
  <2>2. i # 1 => t[i] = s[i - 1] /\ i - 1 \in 1..Len(s)
    BY <1>3, <1>4
  <2>3. j # 1 => t[j] = s[j - 1] /\ j - 1 \in 1..Len(s)
    BY <1>3, <1>4
  <2>4. t[1] = p
    BY <1>3, <1>6
  <2>5. CASE i # 1 /\ j # 1
    <3>1. i - 1 = j - 1
      BY <1>1, <2>2, <2>3, <2>5 DEF IsInjective
    <3> QED
      BY <1>1, <3>1
  <2> QED
    BY <2>1, <2>2, <2>3, <2>4, <2>5
<1> QED
  BY <1>2, <1>7, <1>8 DEF InjSeqs, t

\* The sequence of the elements of a finite set.
LEMMA SetToSeqFacts ==
  ASSUME NEW S, IsFiniteSet(S)
  PROVE  SetToSeq(S) \in InjSeqs(S) /\ Len(SetToSeq(S)) = Cardinality(S)
<1>1. Cardinality(S) \in Nat /\ ExistsBijection(1..Cardinality(S), S)
  BY FS_CardinalityType
<1>2. \E f \in [1..Cardinality(S) -> S] : IsInjective(f)
  BY <1>1 DEF ExistsBijection, Bijection, Injection
<1>3. SetToSeq(S) \in [1..Cardinality(S) -> S] /\ IsInjective(SetToSeq(S))
  BY <1>2 DEF SetToSeq
<1> QED
  BY <1>1, <1>3 DEF InjSeqs

\* An index of a concatenation is one of the first part or of the second.
LEMMA SplitInterval ==
  ASSUME NEW a \in Nat, NEW b \in Nat, NEW c \in 1..(a + b)
  PROVE  c \in 1..a \/ (~(c <= a) /\ c - a \in 1..b)
  OBVIOUS

\* Concatenation of sequences that share no element.
LEMMA InjSeqConcat ==
  ASSUME NEW U, NEW s \in InjSeqs(U), NEW t \in InjSeqs(U), ToSet(t) \cap ToSet(s) = {}
  PROVE  s \o t \in InjSeqs(U)
<1>1. s \in Seq(U) /\ IsInjective(s)
  BY DEF InjSeqs
<1>2. t \in Seq(U) /\ IsInjective(t)
  BY DEF InjSeqs
<1>3. t \in Seq(U) /\ s \o t \in Seq(U)
  BY <1>1, <1>2
<1>4. ASSUME NEW i \in 1..Len(s), NEW j \in 1..Len(t) PROVE s[i] # t[j]
  BY <1>1, <1>2 DEF ToSet
<1> DEFINE u == s \o t
<1>5. /\ DOMAIN u = 1..(Len(s) + Len(t)) /\ Len(s) \in Nat /\ Len(t) \in Nat
      /\ \A i \in 1..(Len(s) + Len(t)) : u[i] = IF i <= Len(s) THEN s[i] ELSE t[i - Len(s)]
  BY <1>1, <1>3
<1> HIDE DEF u
<1>6. ASSUME NEW i \in 1..(Len(s) + Len(t)), NEW j \in 1..(Len(s) + Len(t)), u[i] = u[j]
      PROVE  i = j
  <2>1. Len(s) \in Nat /\ Len(t) \in Nat /\ DOMAIN s = 1..Len(s) /\ DOMAIN t = 1..Len(t)
    BY <1>1, <1>3
  <2>2. ASSUME NEW k \in 1..(Len(s) + Len(t))
        PROVE  \/ k \in 1..Len(s) /\ u[k] = s[k]
               \/ k - Len(s) \in 1..Len(t) /\ u[k] = t[k - Len(s)]
    <3>1. u[k] = IF k <= Len(s) THEN s[k] ELSE t[k - Len(s)]
      BY <1>5
    <3>2. k \in 1..Len(s) \/ (~(k <= Len(s)) /\ k - Len(s) \in 1..Len(t))
      <4>1. Len(s) \in Nat /\ Len(t) \in Nat
        BY <2>1
      <4> QED
        BY <4>1, SplitInterval
    <3>3. CASE k \in 1..Len(s)
      <4>1. k <= Len(s)
        BY <2>1, <3>3
      <4> QED
        BY <3>1, <3>3, <4>1
    <3> QED
      BY <3>1, <3>2, <3>3
  <2>3. i \in 1..Len(s) /\ j \in 1..Len(s) /\ s[i] = s[j] => i = j
    BY <1>1, <2>1 DEF IsInjective
  <2>4. i - Len(s) \in 1..Len(t) /\ j - Len(s) \in 1..Len(t) /\ t[i - Len(s)] = t[j - Len(s)]
          => i - Len(s) = j - Len(s)
    BY <1>2, <2>1, Zenon DEF IsInjective
  <2>5. i - Len(s) = j - Len(s) => i = j
    BY <2>1
  <2>6. u[i] = u[j]
    BY <1>6
  <2> QED
    BY <1>4, <2>2, <2>3, <2>4, <2>5, <2>6, Zenon
<1>7. IsInjective(u)
  BY <1>5, <1>6 DEF IsInjective
<1> QED
  BY <1>3, <1>7 DEF InjSeqs, u

-----------------------------------------------------------------------------
(* Counting                                                                *)

\* What one element's coming or going does to the number of elements.
LEMMA CountChange ==
  ASSUME NEW A, IsFiniteSet(A), NEW B, NEW c, B \ {c} = A \ {c}
  PROVE  /\ Cardinality(A) \in Nat
         /\ c \in B /\ c \notin A => Cardinality(B) = Cardinality(A) + 1
         /\ c \notin B /\ c \in A => Cardinality(B) = Cardinality(A) - 1
         /\ (c \in B <=> c \in A) => Cardinality(B) = Cardinality(A)
<1>1. Cardinality(A) \in Nat
  BY FS_CardinalityType
<1>2. ASSUME c \in B, c \notin A PROVE Cardinality(B) = Cardinality(A) + 1
  <2>1. B = A \cup {c}
    BY <1>2
  <2> QED
    BY <1>2, <2>1, FS_AddElement
<1>3. ASSUME c \notin B, c \in A PROVE Cardinality(B) = Cardinality(A) - 1
  <2>1. B = A \ {c}
    BY <1>3
  <2> QED
    BY <1>3, <2>1, FS_RemoveElement
<1>4. ASSUME c \in B <=> c \in A PROVE B = A
  BY <1>4
<1> QED
  BY <1>1, <1>2, <1>3, <1>4
=============================================================================
