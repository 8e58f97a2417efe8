------------------------- MODULE PanelSessionsProofs -------------------------
(***************************************************************************)
(* Proofs about the panels: the files of sessions stay within their bounds *)
(* and let in only who proved the stored credential, the login limiter     *)
(* keeps its budget and loses no slot, and a reset is not undone.          *)
(***************************************************************************)
EXTENDS PanelSessions, CommonLemmas

\* R is a strict total order of S; where each element of S comes in it.
Orders(R, S) ==
  /\ \A i \in S : <<i, i>> \notin R
  /\ \A i, j, k \in S : <<i, j>> \in R /\ <<j, k>> \in R => <<i, k>> \in R
  /\ \A i, j \in S : i # j => <<i, j>> \in R \/ <<j, i>> \in R
Ranks(R, S) == [i \in S |-> Cardinality({j \in S : <<j, i>> \in R})]

\* In a finite set with a strict total order, the number of elements before an
\* element is a numbering from 0 without gaps.
LEMMA RankBijection ==
  ASSUME NEW S, IsFiniteSet(S), NEW R, Orders(R, S), NEW rank, rank = Ranks(R, S)
  PROVE  /\ rank \in [S -> 0..(Cardinality(S) - 1)]
         /\ \A i, j \in S : rank[i] = rank[j] => i = j
         /\ \A k \in 0..(Cardinality(S) - 1) : \E i \in S : rank[i] = k
<1> USE DEF Orders, Ranks
<1> DEFINE Before(i) == {j \in S : <<j, i>> \in R}
<1>0. Cardinality(S) \in Nat
  BY FS_CardinalityType
<1>1. ASSUME NEW i \in S
      PROVE  /\ IsFiniteSet(Before(i)) /\ Cardinality(Before(i)) \in Nat
             /\ Cardinality(Before(i)) <= Cardinality(S) - 1
  <2>1. Before(i) \in SUBSET (S \ {i})
    OBVIOUS
  <2>2. IsFiniteSet(S \ {i}) /\ Cardinality(S \ {i}) = Cardinality(S) - 1
    BY FS_RemoveElement
  <2>3. IsFiniteSet(Before(i)) /\ Cardinality(Before(i)) <= Cardinality(S \ {i})
    BY <2>1, <2>2, FS_Subset
  <2> HIDE DEF Before
  <2> QED
    BY <2>2, <2>3, FS_CardinalityType
<1>2. \A i \in S : rank[i] = Cardinality(Before(i))
  OBVIOUS
<1>3. ASSUME NEW i \in S, NEW j \in S, <<i, j>> \in R
      PROVE  rank[i] # rank[j]
  <2>1. Before(i) \in SUBSET (Before(j) \ {i}) /\ i \in Before(j)
    BY <1>3
  <2>2. IsFiniteSet(Before(j) \ {i}) /\ Cardinality(Before(j) \ {i}) = Cardinality(Before(j)) - 1
    BY <2>1, <1>1, FS_RemoveElement
  <2>3. Cardinality(Before(i)) <= Cardinality(Before(j) \ {i})
    BY <2>1, <2>2, FS_Subset
  <2>4. rank[i] = Cardinality(Before(i)) /\ rank[j] = Cardinality(Before(j))
    BY <1>2
  <2>5. Cardinality(Before(i)) \in Nat /\ Cardinality(Before(j)) \in Nat
    BY <1>1
  <2> HIDE DEF Before
  <2> QED
    BY <2>2, <2>3, <2>4, <2>5
<1>4. \A i, j \in S : rank[i] = rank[j] => i = j
  BY <1>3
<1>5. rank \in [S -> 0..(Cardinality(S) - 1)]
  <2>1. ASSUME NEW i \in S PROVE Cardinality(Before(i)) \in 0..(Cardinality(S) - 1)
    <3> HIDE DEF Before
    <3> QED BY <1>0, <1>1
  <2> QED
    BY <2>1
<1>6. rank \in Injection(S, 0..(Cardinality(S) - 1))
  BY <1>4, <1>5 DEF Injection, IsInjective
<1>7. /\ IsFiniteSet(0..(Cardinality(S) - 1))
      /\ Cardinality(0..(Cardinality(S) - 1)) = Cardinality(S)
  BY <1>0, FS_Interval, SMTT(30)
<1>8. rank \in Surjection(S, 0..(Cardinality(S) - 1))
  BY <1>6, <1>7, FS_Injection
<1> QED
  BY <1>4, <1>5, <1>8 DEF Surjection

\* Only(list, kept) numbers the entries of kept by their position.
LEMMA OnlyOrder ==
  ASSUME NEW E, NEW list \in Seq(E), NEW kept \in SUBSET DOMAIN list
  PROVE  /\ Cardinality(kept) \in Nat
         /\ \E at \in [1..Cardinality(kept) -> kept] :
              /\ Only(list, kept) = [k \in 1..Cardinality(kept) |-> list[at[k]]]
              /\ \A k, l \in 1..Cardinality(kept) : at[k] = at[l] => k = l
              /\ \A i \in kept : \E k \in 1..Cardinality(kept) : at[k] = i
<1> DEFINE n == Cardinality(kept)
           R == {p \in kept \X kept : p[1] < p[2]}
           rank == Ranks(R, kept)
           At(k) == CHOOSE i \in kept : Cardinality({j \in kept : j < i}) = k - 1
           at == [k \in 1..n |-> At(k)]
<1>1. kept \in SUBSET Nat /\ kept \in SUBSET (1..Len(list)) /\ Len(list) \in Nat
  OBVIOUS
<1>2. IsFiniteSet(kept) /\ n \in Nat
  <2>1. IsFiniteSet(1..Len(list))
    BY <1>1, FS_Interval
  <2> QED
    BY <1>1, <2>1, FS_Subset, FS_CardinalityType
<1>3. \A i, j \in kept : <<i, j>> \in R <=> i < j
  OBVIOUS
<1>4. \A i \in kept : rank[i] = Cardinality({j \in kept : j < i})
  <2>1. \A i \in kept : {j \in kept : <<j, i>> \in R} = {j \in kept : j < i}
    BY <1>3
  <2> QED
    BY <2>1 DEF Ranks
<1>5. /\ rank \in [kept -> 0..(n - 1)]
      /\ \A i, j \in kept : rank[i] = rank[j] => i = j
      /\ \A k \in 0..(n - 1) : \E i \in kept : rank[i] = k
  <2> HIDE DEF R
  <2>1. Orders(R, kept)
    BY <1>1, <1>3 DEF Orders
  <2> QED
    BY <1>2, <2>1, RankBijection
<1> HIDE DEF R, rank, n
<1>6. ASSUME NEW k \in 1..n PROVE At(k) \in kept /\ rank[At(k)] = k - 1
  <2>1. k - 1 \in 0..(n - 1)
    BY <1>2
  <2>2. \E i \in kept : Cardinality({j \in kept : j < i}) = k - 1
    BY <1>4, <1>5, <2>1
  <2>3. At(k) \in kept /\ Cardinality({j \in kept : j < At(k)}) = k - 1
    BY <2>2
  <2> QED
    BY <2>3, <1>4
<1> HIDE DEF At
<1>7. at \in [1..n -> kept] /\ \A k \in 1..n : at[k] = At(k)
  BY <1>6
<1>8. Only(list, kept) = [k \in 1..n |-> list[at[k]]]
  BY <1>7 DEF Only, n, At
<1> HIDE DEF at
<1>9. ASSUME NEW k \in 1..n, NEW l \in 1..n, at[k] = at[l] PROVE k = l
  <2>1. k - 1 = l - 1
    BY <1>6, <1>7, <1>9
  <2> QED
    BY <2>1, <1>2
<1>10. ASSUME NEW i \in kept PROVE \E k \in 1..n : at[k] = i
  <2>1. rank[i] \in 0..(n - 1)
    BY <1>5
  <2>2. rank[i] + 1 \in 1..n /\ (rank[i] + 1) - 1 = rank[i]
    BY <2>1, <1>2
  <2>3. at[rank[i] + 1] \in kept /\ rank[at[rank[i] + 1]] = rank[i]
    BY <2>2, <1>6, <1>7
  <2>4. at[rank[i] + 1] = i
    BY <2>3, <1>5
  <2> QED
    BY <2>2, <2>4
<1> QED
  BY <1>2, <1>7, <1>8, <1>9, <1>10 DEF n

\* t takes every entry of s at most once.
Draws(s, t) ==
  \E at \in [DOMAIN t -> DOMAIN s] :
    /\ \A k, l \in DOMAIN t : at[k] = at[l] => k = l
    /\ \A k \in DOMAIN t : t[k] = s[at[k]]

\* What Only returns: the entries of kept and no others, each once.
LEMMA OnlyFacts ==
  ASSUME NEW E, NEW list \in Seq(E), NEW kept \in SUBSET DOMAIN list
  PROVE  /\ Cardinality(kept) \in Nat
         /\ Only(list, kept) \in Seq(E) /\ Len(Only(list, kept)) = Cardinality(kept)
         /\ DOMAIN Only(list, kept) = 1..Cardinality(kept)
         /\ \A k \in DOMAIN Only(list, kept) : \E i \in kept : Only(list, kept)[k] = list[i]
         /\ \A i \in kept : \E k \in DOMAIN Only(list, kept) : Only(list, kept)[k] = list[i]
         /\ Draws(list, Only(list, kept))
<1> DEFINE n == Cardinality(kept)
           t == Only(list, kept)
<1>1. n \in Nat
  BY OnlyOrder
<1>2. PICK at \in [1..n -> kept] :
              /\ t = [k \in 1..n |-> list[at[k]]]
              /\ \A k, l \in 1..n : at[k] = at[l] => k = l
              /\ \A i \in kept : \E k \in 1..n : at[k] = i
  BY OnlyOrder
<1> HIDE DEF t, n
<1>3. /\ DOMAIN t = 1..n /\ at \in [DOMAIN t -> DOMAIN list]
      /\ \A k \in 1..n : t[k] = list[at[k]] /\ at[k] \in kept /\ list[at[k]] \in E
  BY <1>2
<1>4. t \in Seq(E) /\ Len(t) = n
  BY <1>1, <1>2, <1>3
<1>5. Draws(list, t)
  BY <1>2, <1>3 DEF Draws
<1>6. /\ \A k \in DOMAIN t : \E i \in kept : t[k] = list[i]
      /\ \A i \in kept : \E k \in DOMAIN t : t[k] = list[i]
  BY <1>2, <1>3
<1> QED
  BY <1>1, <1>3, <1>4, <1>5, <1>6 DEF t, n

\* The positions in kept whose entry is in V.
Among(list, kept, V) == {i \in kept : list[i] \in V}

\* ... so the entries with a value in V are as many as there are in kept.
LEMMA OnlyCount ==
  ASSUME NEW E, NEW list \in Seq(E), NEW kept \in SUBSET DOMAIN list, NEW V
  PROVE  Cardinality(Among(Only(list, kept), DOMAIN Only(list, kept), V))
           = Cardinality(Among(list, kept, V))
<1> DEFINE n == Cardinality(kept)
           t == Only(list, kept)
           A == {k \in DOMAIN t : t[k] \in V}
           B == {i \in kept : list[i] \in V}
<1>1. n \in Nat
  BY OnlyOrder
<1>2. PICK at \in [1..n -> kept] :
              /\ t = [k \in 1..n |-> list[at[k]]]
              /\ \A k, l \in 1..n : at[k] = at[l] => k = l
              /\ \A i \in kept : \E k \in 1..n : at[k] = i
  BY OnlyOrder
<1> HIDE DEF t, n
<1>3. DOMAIN t = 1..n /\ \A k \in 1..n : t[k] = list[at[k]] /\ at[k] \in kept
  BY <1>2
<1>4. [k \in A |-> at[k]] \in Bijection(A, B)
  <2> DEFINE f == [k \in A |-> at[k]]
  <2>1. f \in [A -> B] /\ \A k \in A : f[k] = at[k] /\ k \in 1..n
    BY <1>3
  <2>2. \A i \in B : \E k \in A : f[k] = i
    BY <1>2, <1>3
  <2> HIDE DEF f, A, B
  <2>3. IsInjective(f)
    BY <1>2, <2>1 DEF IsInjective
  <2> QED
    BY <2>1, <2>2, <2>3 DEF Bijection, Injection, Surjection, f
<1>5. IsFiniteSet(A)
  BY <1>1, <1>3, FS_Interval, FS_Subset
<1> HIDE DEF A, B
<1>6. Cardinality(A) = Cardinality(B)
  BY <1>4, <1>5, FS_Bijection DEF ExistsBijection
<1> QED
  BY <1>6 DEF A, B, t, Among

\* A sequence drawn from another has no more entries with a value in V.
LEMMA DrawsCount ==
  ASSUME NEW E, NEW s \in Seq(E), NEW t \in Seq(E), Draws(s, t), NEW V
  PROVE  Cardinality(Among(t, DOMAIN t, V)) <= Cardinality(Among(s, DOMAIN s, V))
<1> DEFINE A == {k \in DOMAIN t : t[k] \in V}
           B == {i \in DOMAIN s : s[i] \in V}
<1>1. PICK at \in [DOMAIN t -> DOMAIN s] :
              /\ \A k, l \in DOMAIN t : at[k] = at[l] => k = l
              /\ \A k \in DOMAIN t : t[k] = s[at[k]]
  BY DEF Draws
<1>2. [k \in A |-> at[k]] \in Injection(A, B)
  <2> DEFINE f == [k \in A |-> at[k]]
  <2>1. f \in [A -> B] /\ \A k \in A : f[k] = at[k] /\ k \in DOMAIN t
    BY <1>1
  <2> HIDE DEF f, A, B
  <2>2. IsInjective(f)
    BY <1>1, <2>1 DEF IsInjective
  <2> QED
    BY <2>1, <2>2 DEF Injection, f
<1>3. IsFiniteSet(B)
  <2>1. DOMAIN s = 1..Len(s) /\ Len(s) \in Nat
    OBVIOUS
  <2>2. IsFiniteSet(DOMAIN s) /\ B \in SUBSET DOMAIN s
    BY <2>1, FS_Interval
  <2> QED
    BY <2>2, FS_Subset
<1> HIDE DEF A, B
<1>4. Cardinality(A) <= Cardinality(B)
  BY <1>2, <1>3, FS_Injection
<1> QED
  BY <1>4 DEF A, B, Among

-----------------------------------------------------------------------------
(* The caps on the session files.                                          *)

\* The order in which a file is sorted: what expires later comes first.
Later(file) == {p \in (DOMAIN file) \X (DOMAIN file) :
                  \/ file[p[1]].exp > file[p[2]].exp
                  \/ file[p[1]].exp = file[p[2]].exp /\ p[1] < p[2]}

\* Sorted by expiry, and by position among equals, the entries own of a file
\* have the ranks from 0 up to their number, each once.
LEMMA RankFacts ==
  ASSUME NEW file \in Seq(Entry), NEW own \in SUBSET DOMAIN file
  PROVE  /\ IsFiniteSet(own) /\ Cardinality(own) \in Nat
         /\ \A i \in own : Rank(file, own, i) \in 0..(Cardinality(own) - 1)
         /\ \A i, j \in own : Rank(file, own, i) = Rank(file, own, j) => i = j
         /\ \A k \in 0..(Cardinality(own) - 1) : \E i \in own : Rank(file, own, i) = k
<1> DEFINE R == Later(file)
           rank == Ranks(R, own)
<1>1. own \in SUBSET (1..Len(file)) /\ Len(file) \in Nat /\ own \in SUBSET DOMAIN file
  OBVIOUS
<1>2. IsFiniteSet(own) /\ Cardinality(own) \in Nat
  <2>1. IsFiniteSet(1..Len(file))
    BY <1>1, FS_Interval
  <2> QED
    BY <1>1, <2>1, FS_Subset, FS_CardinalityType
<1>3. \A i \in own : file[i].exp \in Nat /\ i \in Nat
  <2>1. \A e \in Entry : e.exp \in Nat
    BY DEF Entry
  <2> QED
    BY <1>1, <2>1
<1>4. \A i, j \in own : <<i, j>> \in R <=> \/ file[i].exp > file[j].exp
                                          \/ (file[i].exp = file[j].exp /\ i < j)
  <2> SUFFICES ASSUME NEW i \in own, NEW j \in own
               PROVE  <<i, j>> \in R <=> \/ file[i].exp > file[j].exp
                                         \/ (file[i].exp = file[j].exp /\ i < j)
    OBVIOUS
  <2>1. <<i, j>> \in (DOMAIN file) \X (DOMAIN file) /\ <<i, j>>[1] = i /\ <<i, j>>[2] = j
    OBVIOUS
  <2> QED
    BY <2>1, Zenon DEF Later
<1>5. Orders(R, own)
  <2> HIDE DEF R
  <2> QED
    BY <1>3, <1>4, SMTT(30) DEF Orders
<1>6. \A i \in own : rank[i] = Rank(file, own, i)
  <2>1. \A i \in own : {j \in own : <<j, i>> \in R} =
          {j \in own : \/ file[j].exp > file[i].exp
                       \/ file[j].exp = file[i].exp /\ j < i}
    BY <1>4
  <2> QED
    BY <2>1 DEF Ranks, Rank
<1>7. /\ rank \in [own -> 0..(Cardinality(own) - 1)]
      /\ \A i, j \in own : rank[i] = rank[j] => i = j
      /\ \A k \in 0..(Cardinality(own) - 1) : \E i \in own : rank[i] = k
  BY <1>2, <1>5, RankBijection
<1> HIDE DEF rank
<1> QED
  BY <1>2, <1>6, <1>7

\* No more than n entries are among the newest n.
LEMMA NewestFew ==
  ASSUME NEW file \in Seq(Entry), NEW own \in SUBSET DOMAIN file, NEW n \in Nat
  PROVE  /\ Newest(file, own, n) \in SUBSET own
         /\ Cardinality(Newest(file, own, n)) <= n
<1> DEFINE new == Newest(file, own, n)
           f == [i \in new |-> Rank(file, own, i)]
<1>1. new \in SUBSET own /\ \A i \in new : Rank(file, own, i) < n
  BY DEF Newest
<1>2. /\ \A i \in own : Rank(file, own, i) \in Nat
      /\ \A i, j \in own : Rank(file, own, i) = Rank(file, own, j) => i = j
  <2>1. /\ \A i \in own : Rank(file, own, i) \in 0..(Cardinality(own) - 1)
        /\ \A i, j \in own : Rank(file, own, i) = Rank(file, own, j) => i = j
    BY RankFacts
  <2> QED
    BY <2>1
<1> HIDE DEF new
<1>3. \A i \in new : Rank(file, own, i) \in 0..(n - 1)
  BY <1>1, <1>2
<1>4. f \in Injection(new, 0..(n - 1))
  BY <1>1, <1>2, <1>3 DEF Injection, IsInjective
<1>5. IsFiniteSet(0..(n - 1)) /\ Cardinality(0..(n - 1)) = n
  BY FS_Interval
<1>6. Cardinality(new) <= n
  BY <1>4, <1>5, FS_Injection
<1> QED
  BY <1>1, <1>6 DEF new

\* The first n entries of the sorted file.
LEMMA SortedFacts ==
  ASSUME NEW file \in Seq(Entry), NEW n \in Nat, n <= Len(file)
  PROVE  /\ Sorted(file, n) \in Seq(Entry) /\ Len(Sorted(file, n)) = n
         /\ Draws(file, Sorted(file, n))
<1> DEFINE D == DOMAIN file
           At(k) == CHOOSE i \in D : Rank(file, D, i) = k - 1
           at == [k \in 1..n |-> At(k)]
           t == Sorted(file, n)
<1>1. D = 1..Len(file) /\ Len(file) \in Nat /\ Cardinality(D) = Len(file)
  <2>1. D = 1..Len(file) /\ Len(file) \in Nat
    OBVIOUS
  <2>2. \A m \in Nat : Cardinality(1..m) = m
    BY FS_Interval
  <2> QED
    BY <2>1, <2>2
<1>2. \A k \in 0..(Len(file) - 1) : \E i \in D : Rank(file, D, i) = k
  BY <1>1, RankFacts
<1> HIDE DEF D
<1>3. ASSUME NEW k \in 1..n PROVE At(k) \in D /\ Rank(file, D, At(k)) = k - 1
  <2>1. k - 1 \in 0..(Len(file) - 1)
    BY <1>1
  <2>2. \E i \in D : Rank(file, D, i) = k - 1
    BY <2>1, <1>2
  <2> QED
    BY <2>2
<1> HIDE DEF At
<1>4. at \in [1..n -> D] /\ \A k \in 1..n : at[k] = At(k)
  BY <1>3
<1>5. ASSUME NEW k \in 1..n, NEW l \in 1..n, at[k] = at[l] PROVE k = l
  <2>1. k - 1 = l - 1
    BY <1>3, <1>4, <1>5
  <2> QED
    BY <2>1
<1>6. t = [k \in 1..n |-> file[at[k]]]
  BY <1>4 DEF Sorted, D, At
<1> HIDE DEF at, t
<1>7. /\ DOMAIN t = 1..n
      /\ \A k \in 1..n : t[k] = file[at[k]] /\ file[at[k]] \in Entry
  BY <1>4, <1>6 DEF D
<1>8. t \in Seq(Entry) /\ Len(t) = n
  BY <1>6, <1>7
<1>9. Draws(file, t)
  BY <1>4, <1>5, <1>7 DEF Draws, D
<1> QED
  BY <1>8, <1>9 DEF t

\* The accounts that have an entry in a file.
Owners(file) == {file[i].user : i \in DOMAIN file}

\* Dropping entries drops at least as many of them as of their owners.
LEMMA DrawsOwners ==
  ASSUME NEW s \in Seq(Entry), NEW t \in Seq(Entry), Draws(s, t)
  PROVE  /\ IsFiniteSet(Owners(s)) /\ IsFiniteSet(Owners(t)) /\ Owners(t) \subseteq Owners(s)
         /\ Len(t) <= Len(s)
         /\ Len(t) + Cardinality(Owners(s)) <= Len(s) + Cardinality(Owners(t))
<1> DEFINE D == DOMAIN s
           P == Owners(s)
           Q == Owners(t)
<1>1. PICK at \in [DOMAIN t -> D] :
              /\ \A k, l \in DOMAIN t : at[k] = at[l] => k = l
              /\ \A k \in DOMAIN t : t[k] = s[at[k]]
  BY DEF Draws
<1> DEFINE used == {at[k] : k \in DOMAIN t}
           rest == D \ used
           f == [i \in D |-> s[i].user]
           g == [i \in rest |-> s[i].user]
           G == {s[i].user : i \in rest}
<1>2. /\ D = 1..Len(s) /\ Len(s) \in Nat /\ DOMAIN t = 1..Len(t) /\ Len(t) \in Nat
      /\ IsFiniteSet(D) /\ Cardinality(D) = Len(s)
      /\ IsFiniteSet(DOMAIN t) /\ Cardinality(DOMAIN t) = Len(t)
  <2>1. D = 1..Len(s) /\ Len(s) \in Nat /\ DOMAIN t = 1..Len(t) /\ Len(t) \in Nat
    OBVIOUS
  <2>2. \A n \in Nat : IsFiniteSet(1..n) /\ Cardinality(1..n) = n
    BY FS_Interval
  <2> QED
    BY <2>1, <2>2
<1>3. Cardinality(used) = Len(t)
  <2>1. at \in Bijection(DOMAIN t, used)
    BY <1>1 DEF Bijection, Injection, Surjection, IsInjective
  <2> HIDE DEF used
  <2> QED
    BY <1>2, <2>1, FS_Bijection DEF ExistsBijection
<1>4. IsFiniteSet(rest) /\ Cardinality(rest) = Len(s) - Len(t)
  <2>1. used \in SUBSET D /\ D \cap used = used
    BY <1>1
  <2>2. IsFiniteSet(D) /\ Cardinality(D) = Len(s)
    BY <1>2
  <2> HIDE DEF used, D
  <2>3. IsFiniteSet(D \ used) /\ Cardinality(D \ used) = Cardinality(D) - Cardinality(D \cap used)
    BY <2>2, FS_Difference
  <2> QED
    BY <1>3, <2>1, <2>2, <2>3
<1>5. IsFiniteSet(P)
  <2>1. f \in Surjection(D, P)
    BY DEF Surjection, Owners
  <2> HIDE DEF f, D, P
  <2> QED
    BY <1>2, <2>1, FS_Surjection
<1>6. IsFiniteSet(G) /\ Cardinality(G) <= Cardinality(rest)
  <2>1. g \in Surjection(rest, G)
    BY DEF Surjection
  <2> HIDE DEF g, G, rest
  <2> QED
    BY <1>4, <2>1, FS_Surjection
<1>7. Q \in SUBSET P
  BY <1>1 DEF Owners
<1>8. P \ Q \in SUBSET G
  <2> SUFFICES ASSUME NEW i \in D, s[i].user \notin Q PROVE i \notin used
    BY DEF Owners
  <2> QED
    BY <1>1 DEF Owners
<1>9. IsFiniteSet(Q) /\ Cardinality(P \ Q) = Cardinality(P) - Cardinality(Q) /\ P \cap Q = Q
  <2> HIDE DEF P, Q
  <2>1. IsFiniteSet(Q) /\ P \cap Q = Q
    BY <1>5, <1>7, FS_Subset
  <2> QED
    BY <1>5, <2>1, FS_Difference
<1>10. Cardinality(P \ Q) <= Cardinality(G)
  <2> HIDE DEF P, Q, G
  <2> QED
    BY <1>6, <1>8, FS_Subset
<1>11. Cardinality(P) \in Nat /\ Cardinality(Q) \in Nat /\ Cardinality(G) \in Nat
       /\ Cardinality(rest) \in Nat /\ Cardinality(P \ Q) \in Int
  <2> HIDE DEF P, Q, G, rest
  <2> QED
    BY <1>4, <1>5, <1>6, <1>9, FS_CardinalityType
<1> HIDE DEF P, Q, G, rest, D
<1> QED
  BY <1>2, <1>4, <1>5, <1>6, <1>7, <1>9, <1>10, <1>11 DEF P, Q

\* The bounds of one session file, as they are kept: it passes SESSION_MAX_GLOBAL
\* by no more than the accounts in it after the first.
FileOK(file) ==
  /\ file \in Seq(Entry)
  /\ Len(file) + 1 <= SessionMaxGlobal + Cardinality(Owners(file))
  /\ \A a \in Accounts : Cardinality(Own(file, a)) <= SessionMaxPerIdentity

\* Every entry of t is one of s.
From(s, t) == \A k \in DOMAIN t : \E i \in DOMAIN s : t[k] = s[i]

\* The numbers in FileOK are numbers.
LEMMA FileNumbers ==
  ASSUME NEW file \in Seq(Entry)
  PROVE  /\ IsFiniteSet(Owners(file)) /\ Cardinality(Owners(file)) \in Nat
         /\ \A a : IsFiniteSet(Own(file, a)) /\ Cardinality(Own(file, a)) \in Nat
<1> DEFINE D == DOMAIN file
<1>1. IsFiniteSet(D)
  <2>1. D = 1..Len(file) /\ Len(file) \in Nat
    OBVIOUS
  <2>2. \A m \in Nat : IsFiniteSet(1..m)
    BY FS_Interval
  <2> QED
    BY <2>1, <2>2
<1>2. IsFiniteSet(Owners(file))
  <2>1. [i \in D |-> file[i].user] \in Surjection(D, Owners(file))
    BY DEF Surjection, Owners
  <2> HIDE DEF D
  <2> QED
    BY <1>1, <2>1, FS_Surjection
<1>3. \A a : Own(file, a) \in SUBSET D
  BY DEF Own
<1> HIDE DEF D
<1> QED
  BY <1>1, <1>2, <1>3, FS_Subset, FS_CardinalityType

\* Dropping entries keeps a file within its bounds.
LEMMA DrawsFile ==
  ASSUME PanelAssumption, NEW s, FileOK(s), NEW t \in Seq(Entry), Draws(s, t)
  PROVE  /\ FileOK(t) /\ From(s, t) /\ Len(t) <= Len(s)
         /\ \A a : Cardinality(Own(t, a)) <= Cardinality(Own(s, a))
<1>1. s \in Seq(Entry)
  BY DEF FileOK
<1>2. /\ Len(t) <= Len(s)
      /\ Len(t) + Cardinality(Owners(s)) <= Len(s) + Cardinality(Owners(t))
  BY <1>1, DrawsOwners
<1>3. ASSUME NEW a
      PROVE  Cardinality(Own(t, a)) <= Cardinality(Own(s, a))
  <2> DEFINE V == {e \in Entry : e.user = a}
  <2>1. Own(t, a) = Among(t, DOMAIN t, V) /\ Own(s, a) = Among(s, DOMAIN s, V)
    BY <1>1 DEF Own, Among
  <2> HIDE DEF V
  <2> QED
    BY <1>1, <2>1, DrawsCount
<1>4. Cardinality(Owners(t)) \in Nat /\ \A a : Cardinality(Own(t, a)) \in Nat
  BY FileNumbers
<1>5. Cardinality(Owners(s)) \in Nat /\ \A a : Cardinality(Own(s, a)) \in Nat
  BY <1>1, FileNumbers
<1>6. Len(s) \in Nat /\ Len(t) \in Nat /\ SessionMaxGlobal \in Nat /\ SessionMaxPerIdentity \in Nat
  BY <1>1 DEF PanelAssumption
<1>7. Len(t) + 1 <= SessionMaxGlobal + Cardinality(Owners(t))
  BY <1>2, <1>4, <1>5, <1>6, SMTT(30) DEF FileOK
<1>8. \A a \in Accounts : Cardinality(Own(t, a)) <= SessionMaxPerIdentity
  BY <1>3, <1>4, <1>5, <1>6 DEF FileOK
<1>9. From(s, t)
  BY DEF Draws, From
<1> QED
  BY <1>2, <1>3, <1>7, <1>8, <1>9 DEF FileOK

\* What Only leaves of a file.
LEMMA OnlyFile ==
  ASSUME PanelAssumption, NEW s, FileOK(s), NEW kept \in SUBSET DOMAIN s
  PROVE  /\ FileOK(Only(s, kept)) /\ From(s, Only(s, kept))
         /\ \A k \in DOMAIN Only(s, kept) : \E i \in kept : Only(s, kept)[k] = s[i]
         /\ \A a : Cardinality(Own(Only(s, kept), a)) = Cardinality({i \in kept : s[i].user = a})
<1>1. s \in Seq(Entry)
  BY DEF FileOK
<1>2. /\ Only(s, kept) \in Seq(Entry) /\ Draws(s, Only(s, kept))
      /\ \A k \in DOMAIN Only(s, kept) : \E i \in kept : Only(s, kept)[k] = s[i]
  BY <1>1, OnlyFacts
<1>3. FileOK(Only(s, kept)) /\ From(s, Only(s, kept))
  BY <1>2, DrawsFile
<1>4. ASSUME NEW a
      PROVE  Cardinality(Own(Only(s, kept), a)) = Cardinality({i \in kept : s[i].user = a})
  <2> DEFINE V == {e \in Entry : e.user = a}
             t == Only(s, kept)
  <2>1. Own(t, a) = Among(t, DOMAIN t, V)
    BY <1>2 DEF Own, Among
  <2>2. {i \in kept : s[i].user = a} = Among(s, kept, V)
    BY <1>1 DEF Among
  <2> HIDE DEF V
  <2> QED
    BY <1>1, <2>1, <2>2, OnlyCount
<1> QED
  BY <1>2, <1>3, <1>4

\* One entry more.
LEMMA AppendFile ==
  ASSUME PanelAssumption, NEW s, FileOK(s), NEW e \in Entry,
         Cardinality(Own(s, e.user)) + 1 <= SessionMaxPerIdentity,
         Len(s) + 1 <= SessionMaxGlobal \/ Own(s, e.user) = {}
  PROVE  FileOK(Append(s, e))
<1> DEFINE t == Append(s, e)
           n == Len(s) + 1
<1>1. s \in Seq(Entry) /\ Len(s) \in Nat /\ DOMAIN s = 1..Len(s)
  BY DEF FileOK
<1>2. /\ t \in Seq(Entry) /\ Len(t) = n /\ DOMAIN t = 1..n /\ t[n] = e
      /\ \A i \in 1..Len(s) : t[i] = s[i]
      /\ n \notin 1..Len(s) /\ 1..n = 1..Len(s) \cup {n}
  BY <1>1
<1>3. Owners(t) = Owners(s) \cup {e.user}
  BY <1>1, <1>2 DEF Owners
<1>4. \A a : Own(t, a) = IF a = e.user THEN Own(s, a) \cup {n} ELSE Own(s, a)
  BY <1>1, <1>2 DEF Own
<1>5. \A a : n \notin Own(s, a)
  BY <1>1, <1>2 DEF Own
<1>6. /\ IsFiniteSet(Owners(s)) /\ Cardinality(Owners(s)) \in Nat
      /\ \A a : IsFiniteSet(Own(s, a)) /\ Cardinality(Own(s, a)) \in Nat
  BY <1>1, FileNumbers
<1>7. SessionMaxGlobal \in Nat /\ SessionMaxPerIdentity \in Nat
  BY DEF PanelAssumption
<1> HIDE DEF t, n
<1>8. Cardinality(Owners(t)) =
        IF e.user \in Owners(s) THEN Cardinality(Owners(s)) ELSE Cardinality(Owners(s)) + 1
  BY <1>3, <1>6, FS_AddElement
<1>9. Own(s, e.user) = {} => e.user \notin Owners(s)
  BY DEF Own, Owners
<1>10. e.user \in Owners(s) => Cardinality(Owners(s)) >= 1
  BY <1>6, FS_EmptySet
<1>11. Len(t) + 1 <= SessionMaxGlobal + Cardinality(Owners(t))
  <2>1. Len(s) + 1 <= SessionMaxGlobal + Cardinality(Owners(s))
    BY DEF FileOK
  <2> QED
    BY <1>1, <1>2, <1>6, <1>7, <1>8, <1>9, <1>10, <2>1, SMTT(30) DEF n
<1>12. ASSUME NEW a \in Accounts PROVE Cardinality(Own(t, a)) <= SessionMaxPerIdentity
  <2>1. CASE a = e.user
    <3>1. Cardinality(Own(t, a)) = Cardinality(Own(s, a)) + 1
      BY <1>4, <1>5, <1>6, <2>1, FS_AddElement
    <3> QED
      BY <2>1, <3>1
  <2>2. CASE a # e.user
    BY <1>4, <2>2 DEF FileOK
  <2> QED
    BY <2>1, <2>2
<1> QED
  BY <1>2, <1>11, <1>12 DEF FileOK, t

\* _create_session makes room for one entry of user.
LEMMA Capped ==
  ASSUME PanelAssumption, NEW s, FileOK(s), NEW user \in Accounts
  PROVE  LET t == CapGlobal(CapIdentity(s, user))
         IN  /\ FileOK(t) /\ From(s, t) /\ Len(t) + 1 <= SessionMaxGlobal
             /\ Cardinality(Own(t, user)) + 1 <= SessionMaxPerIdentity
<1> DEFINE own == Own(s, user)
           new == Newest(s, own, SessionMaxPerIdentity - 1)
           kept == (DOMAIN s \ own) \cup new
           c == Only(s, kept)
           t == CapGlobal(c)
<1>1. s \in Seq(Entry)
  BY DEF FileOK
<1>2. /\ SessionMaxGlobal \in Nat /\ SessionMaxPerIdentity \in Nat
      /\ SessionMaxGlobal - 1 \in Nat /\ SessionMaxPerIdentity - 1 \in Nat
  BY DEF PanelAssumption
<1>3. own \in SUBSET DOMAIN s
  BY DEF Own
<1>4. new \in SUBSET own /\ Cardinality(new) <= SessionMaxPerIdentity - 1
  BY <1>1, <1>2, <1>3, NewestFew
<1>5. kept \in SUBSET DOMAIN s
  BY <1>3, <1>4
<1>6. {i \in kept : s[i].user = user} = new
  BY <1>4 DEF Own
<1> HIDE DEF kept, new
<1>7. /\ FileOK(c) /\ From(s, c)
      /\ Cardinality(Own(c, user)) = Cardinality({i \in kept : s[i].user = user})
  BY <1>5, OnlyFile
<1>8. Cardinality(Own(c, user)) <= SessionMaxPerIdentity - 1
  BY <1>4, <1>6, <1>7
<1>9. CapIdentity(s, user) = c
  BY DEF CapIdentity, kept, new
<1> HIDE DEF c
<1>10. c \in Seq(Entry) /\ Len(c) \in Nat /\ Cardinality(Own(c, user)) \in Nat
  BY <1>7, FileNumbers DEF FileOK
<1>11. CASE Len(c) >= SessionMaxGlobal
  <2>1. t = Sorted(c, SessionMaxGlobal - 1)
    BY <1>11 DEF CapGlobal
  <2>2. t \in Seq(Entry) /\ Len(t) = SessionMaxGlobal - 1 /\ Draws(c, t)
    BY <1>2, <1>10, <1>11, <2>1, SortedFacts, SMTT(30)
  <2> HIDE DEF t
  <2>3. FileOK(t) /\ From(c, t) /\ Cardinality(Own(t, user)) <= Cardinality(Own(c, user))
    BY <1>7, <2>2, DrawsFile
  <2>4. Cardinality(Own(t, user)) \in Nat
    BY <2>2, FileNumbers
  <2>5. From(s, t)
    BY <1>7, <2>3 DEF From
  <2>6. Cardinality(Own(t, user)) + 1 <= SessionMaxPerIdentity
    BY <1>2, <1>8, <1>10, <2>3, <2>4
  <2> QED
    BY <1>2, <1>9, <2>2, <2>3, <2>5, <2>6 DEF t
<1>12. CASE Len(c) < SessionMaxGlobal
  <2>1. t = c
    BY <1>2, <1>10, <1>12 DEF CapGlobal
  <2> HIDE DEF t
  <2> QED
    BY <1>2, <1>7, <1>8, <1>9, <1>10, <1>12, <2>1 DEF t
<1> QED
  BY <1>2, <1>10, <1>11, <1>12

\* What the limiter keeps of one panel: no address twice, none without a failure.
DictOK(dict) ==
  /\ dict \in Seq(Tracked) /\ Len(dict) <= MaxIps
  /\ \A i, j \in DOMAIN dict : /\ dict[i].times # <<>>
                               /\ dict[i].ip = dict[j].ip => i = j

\* The failures of an address are those of its entry.
LEMMA TimesAt ==
  ASSUME NEW dict, DictOK(dict), NEW c
  PROVE  /\ \A i \in DOMAIN dict : dict[i].ip = c => Times(dict, c) = dict[i].times
         /\ (\A i \in DOMAIN dict : dict[i].ip # c) => Times(dict, c) = <<>>
         /\ Times(dict, c) = <<>> => Places(dict, c) = {}
         /\ Times(dict, c) \in Seq(0..now)
<1> DEFINE P == Places(dict, c)
           at == CHOOSE i \in P : TRUE
<1>1. ASSUME NEW i \in DOMAIN dict, dict[i].ip = c
      PROVE  P # {} /\ Times(dict, c) = dict[i].times
  <2>1. i \in P
    BY <1>1 DEF Places
  <2>2. at \in P
    BY <2>1
  <2>3. at \in DOMAIN dict /\ dict[at].ip = c
    BY <2>2 DEF Places
  <2>4. at = i
    BY <1>1, <2>3 DEF DictOK
  <2> QED
    BY <2>1, <2>4 DEF Times
<1>2. P = {} => Times(dict, c) = <<>>
  BY DEF Times
<1>3. \A i \in DOMAIN dict : dict[i].times # <<>> /\ dict[i].times \in Seq(0..now)
  <2>1. \A e \in Tracked : e.times \in Seq(0..now)
    BY DEF Tracked
  <2>2. \A i \in DOMAIN dict : dict[i] \in Tracked /\ dict[i].times # <<>>
    BY DEF DictOK
  <2> QED
    BY <2>1, <2>2
<1>4. (\A i \in DOMAIN dict : dict[i].ip # c) => P = {}
  BY DEF Places
<1>5. P # {} => \E i \in DOMAIN dict : dict[i].ip = c
  BY DEF Places
<1>6. <<>> \in Seq(0..now)
  OBVIOUS
<1> QED
  BY <1>1, <1>2, <1>3, <1>4, <1>5, <1>6

\* del d[ip]
LEMMA WithoutOK ==
  ASSUME NEW dict, DictOK(dict), NEW ip, MaxIps \in Nat
  PROVE  /\ DictOK(Without(dict, ip))
         /\ \A c : Times(Without(dict, ip), c) = IF c = ip THEN <<>> ELSE Times(dict, c)
<1> DEFINE kept == DOMAIN dict \ Places(dict, ip)
           t == Only(dict, kept)
<1>1. dict \in Seq(Tracked) /\ Len(dict) \in Nat /\ Len(dict) <= MaxIps /\ kept \in SUBSET DOMAIN dict
  BY DEF DictOK
<1>2. /\ t \in Seq(Tracked) /\ Draws(dict, t)
      /\ \A k \in DOMAIN t : \E i \in kept : t[k] = dict[i]
      /\ \A i \in kept : \E k \in DOMAIN t : t[k] = dict[i]
      /\ Cardinality(kept) \in Nat /\ Len(t) = Cardinality(kept)
  BY <1>1, OnlyFacts
<1>3. Len(t) <= Len(dict)
  <2> DEFINE D == DOMAIN dict
  <2>1. D = 1..Len(dict)
    BY <1>1
  <2>2. \A m \in Nat : IsFiniteSet(1..m) /\ Cardinality(1..m) = m
    BY FS_Interval
  <2>3. IsFiniteSet(D) /\ Cardinality(D) = Len(dict)
    BY <1>1, <2>1, <2>2
  <2>4. kept \in SUBSET D
    OBVIOUS
  <2> HIDE DEF kept, D
  <2>5. Cardinality(kept) <= Cardinality(D)
    BY <2>3, <2>4, FS_Subset
  <2> QED
    BY <1>2, <2>3, <2>5
<1>4. Without(dict, ip) = t
  BY DEF Without
<1> HIDE DEF t
<1>5. ASSUME NEW k \in DOMAIN t, NEW l \in DOMAIN t
      PROVE  t[k].times # <<>> /\ (t[k].ip = t[l].ip => k = l)
  <2>1. PICK at \in [DOMAIN t -> DOMAIN dict] :
              /\ \A m, n \in DOMAIN t : at[m] = at[n] => m = n
              /\ \A m \in DOMAIN t : t[m] = dict[at[m]]
    BY <1>2 DEF Draws
  <2>2. at[k] \in DOMAIN dict /\ at[l] \in DOMAIN dict /\ t[k] = dict[at[k]] /\ t[l] = dict[at[l]]
    BY <2>1
  <2>3. t[k].ip = t[l].ip => at[k] = at[l]
    BY <2>2 DEF DictOK
  <2>4. t[k].times # <<>>
    BY <2>2 DEF DictOK
  <2> QED
    BY <2>1, <2>3, <2>4
<1>6. DictOK(t)
  <2>1. t \in Seq(Tracked) /\ Len(t) \in Nat /\ Len(t) <= MaxIps
    BY <1>1, <1>2, <1>3
  <2> QED
    BY <1>5, <2>1 DEF DictOK
<1>7. ASSUME NEW c PROVE Times(t, c) = IF c = ip THEN <<>> ELSE Times(dict, c)
  <2>1. \A k \in DOMAIN t : t[k].ip # ip /\ \E i \in DOMAIN dict : t[k] = dict[i]
    BY <1>2 DEF Places
  <2>2. CASE c = ip
    BY <1>6, <2>1, <2>2, TimesAt
  <2>3. CASE c # ip /\ \E i \in DOMAIN dict : dict[i].ip = c
    <3>1. PICK i \in DOMAIN dict : dict[i].ip = c
      BY <2>3
    <3>2. i \in kept
      BY <2>3, <3>1 DEF Places
    <3>3. PICK k \in DOMAIN t : t[k] = dict[i]
      BY <1>2, <3>2
    <3>4. Times(t, c) = t[k].times /\ Times(dict, c) = dict[i].times
      BY <1>6, <3>1, <3>3, TimesAt
    <3> QED
      BY <2>3, <3>3, <3>4
  <2>4. CASE c # ip /\ \A i \in DOMAIN dict : dict[i].ip # c
    <3>1. \A k \in DOMAIN t : t[k].ip # c
      BY <2>1, <2>4
    <3>2. Times(t, c) = <<>> /\ Times(dict, c) = <<>>
      BY <1>6, <2>4, <3>1, TimesAt
    <3> QED
      BY <2>4, <3>2
  <2> QED
    BY <2>2, <2>3, <2>4
<1> QED
  BY <1>4, <1>6, <1>7

\* d[ip] = times
LEMMA PutOK ==
  ASSUME NEW dict, DictOK(dict), NEW ip \in Clients, NEW times \in Seq(0..now), times # <<>>,
         MaxIps \in Nat, Places(dict, ip) # {} \/ Len(dict) < MaxIps
  PROVE  /\ DictOK(Put(dict, ip, times))
         /\ \A c : Times(Put(dict, ip, times), c) = IF c = ip THEN times ELSE Times(dict, c)
<1> DEFINE new == [ip |-> ip, times |-> times]
           t == Put(dict, ip, times)
<1>1. dict \in Seq(Tracked) /\ Len(dict) \in Nat /\ Len(dict) <= MaxIps /\ DOMAIN dict = 1..Len(dict)
  BY DEF DictOK
<1>2. new \in Tracked /\ new.ip = ip /\ new.times = times
  BY DEF Tracked
<1> HIDE DEF new
<1>3. CASE Places(dict, ip) # {}
  <2>1. PICK p \in DOMAIN dict : dict[p].ip = ip
    BY <1>3 DEF Places
  <2>2. t = [i \in DOMAIN dict |-> IF dict[i].ip = ip THEN new ELSE dict[i]]
    BY <1>3 DEF Put, new
  <2> HIDE DEF t
  <2>3. /\ DOMAIN t = DOMAIN dict /\ t \in Seq(Tracked) /\ Len(t) = Len(dict)
        /\ \A i \in DOMAIN dict : t[i] = IF i = p THEN new ELSE dict[i]
    <3>1. \A i \in DOMAIN dict : dict[i].ip = ip <=> i = p
      BY <2>1 DEF DictOK
    <3>2. \A i \in DOMAIN dict : dict[i] \in Tracked
      BY <1>1
    <3>3. DOMAIN t = 1..Len(dict) /\ \A i \in 1..Len(dict) : t[i] \in Tracked
      BY <1>1, <1>2, <2>2, <3>2
    <3>4. t \in [1..Len(dict) -> Tracked]
      BY <1>1, <2>2, <3>3
    <3>5. t \in Seq(Tracked) /\ Len(t) = Len(dict)
      BY <1>1, <3>4
    <3> QED
      BY <1>1, <2>2, <3>1, <3>3, <3>5
  <2>4. \A i \in DOMAIN dict : t[i].ip = dict[i].ip
    BY <1>2, <2>1, <2>3
  <2>5. DictOK(t)
    BY <1>1, <1>2, <2>3, <2>4 DEF DictOK
  <2>6. ASSUME NEW c PROVE Times(t, c) = IF c = ip THEN times ELSE Times(dict, c)
    <3>1. CASE c = ip
      BY <1>2, <2>1, <2>3, <2>4, <2>5, <3>1, TimesAt
    <3>2. CASE c # ip /\ \E i \in DOMAIN dict : dict[i].ip = c
      <4>1. PICK i \in DOMAIN dict : dict[i].ip = c
        BY <3>2
      <4>2. t[i] = dict[i]
        BY <2>1, <2>3, <3>2, <4>1
      <4>3. Times(t, c) = t[i].times /\ Times(dict, c) = dict[i].times
        BY <2>3, <2>5, <4>1, <4>2, TimesAt
      <4> QED
        BY <3>2, <4>2, <4>3
    <3>3. CASE c # ip /\ \A i \in DOMAIN dict : dict[i].ip # c
      <4>1. Times(t, c) = <<>> /\ Times(dict, c) = <<>>
        BY <2>3, <2>4, <2>5, <3>3, TimesAt, ZenonT(40)
      <4> QED
        BY <3>3, <4>1
    <3> QED
      BY <3>1, <3>2, <3>3
  <2> QED
    BY <2>5, <2>6 DEF t
<1>4. CASE Places(dict, ip) = {}
  <2>1. \A i \in DOMAIN dict : dict[i].ip # ip
    BY <1>4 DEF Places
  <2>2. t = Append(dict, new) /\ Len(dict) < MaxIps
    BY <1>4 DEF Put, new
  <2> HIDE DEF t
  <2> DEFINE n == Len(dict) + 1
  <2>3. /\ t \in Seq(Tracked) /\ Len(t) = n /\ DOMAIN t = 1..n /\ t[n] = new
        /\ \A i \in 1..Len(dict) : t[i] = dict[i]
        /\ n \notin 1..Len(dict) /\ 1..n = 1..Len(dict) \cup {n} /\ n <= MaxIps
    BY <1>1, <1>2, <2>2
  <2> HIDE DEF n
  <2>4. DictOK(t)
    BY <1>1, <1>2, <2>1, <2>3 DEF DictOK
  <2>5. ASSUME NEW c PROVE Times(t, c) = IF c = ip THEN times ELSE Times(dict, c)
    <3>1. CASE c = ip
      BY <1>2, <2>3, <2>4, <3>1, TimesAt
    <3>2. CASE c # ip /\ \E i \in DOMAIN dict : dict[i].ip = c
      <4>1. PICK i \in DOMAIN dict : dict[i].ip = c
        BY <3>2
      <4>2. t[i] = dict[i] /\ i \in DOMAIN t
        BY <1>1, <2>3, <4>1
      <4>3. Times(t, c) = t[i].times /\ Times(dict, c) = dict[i].times
        BY <2>4, <4>1, <4>2, TimesAt
      <4> QED
        BY <3>2, <4>2, <4>3
    <3>3. CASE c # ip /\ \A i \in DOMAIN dict : dict[i].ip # c
      <4>1. \A i \in DOMAIN t : t[i].ip # c
        BY <1>1, <1>2, <2>3, <3>3
      <4>2. Times(t, c) = <<>> /\ Times(dict, c) = <<>>
        BY <2>4, <3>3, <4>1, TimesAt
      <4> QED
        BY <3>3, <4>2
    <3> QED
      BY <3>1, <3>2, <3>3
  <2> QED
    BY <2>4, <2>5 DEF t
<1> QED
  BY <1>3, <1>4

\* The address tracked longest is dropped.
LEMMA TailOK ==
  ASSUME NEW dict, DictOK(dict), dict # <<>>, MaxIps \in Nat
  PROVE  /\ DictOK(Tail(dict)) /\ Len(Tail(dict)) = Len(dict) - 1
         /\ \A c : Times(Tail(dict), c) = IF c = Head(dict).ip THEN <<>> ELSE Times(dict, c)
<1> DEFINE t == Tail(dict)
           n == Len(dict)
<1>1. /\ dict \in Seq(Tracked) /\ n \in Nat /\ n <= MaxIps /\ DOMAIN dict = 1..n /\ n # 0
      /\ Head(dict) = dict[1] /\ 1 \in DOMAIN dict
  BY DEF DictOK
<1>2. /\ t \in Seq(Tracked) /\ Len(t) = n - 1 /\ DOMAIN t = 1..(n - 1)
      /\ \A i \in 1..(n - 1) : t[i] = dict[i + 1] /\ i + 1 \in DOMAIN dict /\ i + 1 # 1
  BY <1>1
<1> HIDE DEF t, n
<1>3. \A i, j \in DOMAIN t : t[i].times # <<>> /\ (t[i].ip = t[j].ip => i = j)
  <2> SUFFICES ASSUME NEW i \in DOMAIN t, NEW j \in DOMAIN t
               PROVE  t[i].times # <<>> /\ (t[i].ip = t[j].ip => i = j)
    OBVIOUS
  <2>1. /\ t[i] = dict[i + 1] /\ t[j] = dict[j + 1]
        /\ i + 1 \in DOMAIN dict /\ j + 1 \in DOMAIN dict
    BY <1>2
  <2>2. t[i].times # <<>> /\ (t[i].ip = t[j].ip => i + 1 = j + 1)
    BY <2>1 DEF DictOK
  <2> QED
    BY <1>1, <1>2, <2>2
<1>4. DictOK(t)
  <2>1. Len(t) <= MaxIps
    BY <1>1, <1>2
  <2> QED
    BY <1>2, <1>3, <2>1 DEF DictOK
<1>5. ASSUME NEW c PROVE Times(t, c) = IF c = Head(dict).ip THEN <<>> ELSE Times(dict, c)
  <2>1. CASE c = Head(dict).ip
    <3>1. ASSUME NEW i \in DOMAIN t PROVE t[i].ip # c
      <4>1. t[i] = dict[i + 1] /\ i + 1 \in DOMAIN dict /\ i + 1 # 1
        BY <1>2
      <4> QED
        BY <1>1, <2>1, <4>1 DEF DictOK
    <3> QED
      BY <1>4, <2>1, <3>1, TimesAt
  <2>2. CASE c # Head(dict).ip /\ \E i \in DOMAIN dict : dict[i].ip = c
    <3>1. PICK i \in DOMAIN dict : dict[i].ip = c
      BY <2>2
    <3>2. i # 1
      BY <1>1, <2>2, <3>1
    <3>3. i - 1 \in DOMAIN t /\ t[i - 1] = dict[i]
      <4>1. i \in 1..n /\ i - 1 \in 1..(n - 1) /\ (i - 1) + 1 = i
        BY <1>1, <3>2
      <4> QED
        BY <1>2, <4>1
    <3>4. Times(t, c) = t[i - 1].times /\ Times(dict, c) = dict[i].times
      BY <1>4, <3>1, <3>3, TimesAt
    <3> QED
      BY <2>2, <3>3, <3>4
  <2>3. CASE c # Head(dict).ip /\ \A i \in DOMAIN dict : dict[i].ip # c
    <3>1. \A i \in DOMAIN t : t[i].ip # c
      BY <1>2, <2>3
    <3>2. Times(t, c) = <<>> /\ Times(dict, c) = <<>>
      BY <1>4, <2>3, <3>1, TimesAt
    <3> QED
      BY <2>3, <3>2
  <2> QED
    BY <2>1, <2>2, <2>3
<1> QED
  BY <1>2, <1>4, <1>5 DEF t, n

-----------------------------------------------------------------------------
(* Counting times.                                                         *)

\* How many of some times are not before t.
Since(times, t) == {i \in DOMAIN times : times[i] >= t}
Count(times, t) == Cardinality(Since(times, t))

\* The moments that count: what is dated then is still in the window.
Recent == {t \in 0..now : now < t + LoginWindow}

\* Counts are numbers, at most the length.
LEMMA CountType ==
  ASSUME NEW T, NEW times \in Seq(T), NEW t
  PROVE  IsFiniteSet(Since(times, t)) /\ Count(times, t) \in Nat /\ Count(times, t) <= Len(times)
<1> DEFINE D == DOMAIN times
<1>1. D = 1..Len(times) /\ Len(times) \in Nat
  OBVIOUS
<1>2. \A m \in Nat : IsFiniteSet(1..m) /\ Cardinality(1..m) = m
  BY FS_Interval
<1>3. IsFiniteSet(D) /\ Cardinality(D) = Len(times)
  BY <1>1, <1>2
<1>4. Since(times, t) \in SUBSET D
  BY DEF Since
<1> HIDE DEF D
<1>5. IsFiniteSet(Since(times, t)) /\ Cardinality(Since(times, t)) <= Cardinality(D)
  BY <1>3, <1>4, FS_Subset
<1> QED
  BY <1>3, <1>5, FS_CardinalityType DEF Count

\* Nothing is counted in no times.
LEMMA CountEmpty == \A t : Count(<<>>, t) = 0
<1>1. \A t : Since(<<>>, t) = {}
  BY DEF Since
<1> QED
  BY <1>1, FS_EmptySet DEF Count

\* A time that is added counts.
LEMMA CountAppend ==
  ASSUME now \in Nat, NEW times \in Seq(0..now), NEW t \in 0..now
  PROVE  Append(times, now) \in Seq(0..now) /\ Count(Append(times, now), t) = Count(times, t) + 1
<1> DEFINE s == Append(times, now)
           n == Len(times) + 1
<1>1. Len(times) \in Nat /\ DOMAIN times = 1..Len(times) /\ now \in 0..now
  OBVIOUS
<1>2. /\ s \in Seq(0..now) /\ DOMAIN s = 1..n /\ s[n] = now
      /\ \A i \in 1..Len(times) : s[i] = times[i]
      /\ n \notin 1..Len(times) /\ 1..n = 1..Len(times) \cup {n}
  BY <1>1
<1>3. Since(s, t) = Since(times, t) \cup {n} /\ n \notin Since(times, t)
  BY <1>1, <1>2 DEF Since
<1>4. IsFiniteSet(Since(times, t))
  BY CountType
<1> HIDE DEF s, n
<1>5. Cardinality(Since(s, t)) = Cardinality(Since(times, t)) + 1
  BY <1>3, <1>4, FS_AddElement
<1> QED
  BY <1>2, <1>5 DEF Count, s

\* Fresh drops only what does not count any more.
LEMMA FreshFacts ==
  ASSUME now \in Nat, LoginWindow \in Nat, NEW times \in Seq(0..now)
  PROVE  /\ Fresh(times) \in Seq(0..now)
         /\ \A t \in Recent : Count(Fresh(times), t) = Count(times, t)
<1> DEFINE kept == {i \in DOMAIN times : now - times[i] < LoginWindow}
           s == Only(times, kept)
<1>1. Fresh(times) = s
  BY DEF Fresh
<1>2. kept \in SUBSET DOMAIN times
  OBVIOUS
<1>3. s \in Seq(0..now)
  BY <1>2, OnlyFacts
<1>4. ASSUME NEW t \in Recent PROVE Count(s, t) = Count(times, t)
  <2> DEFINE V == t..now
  <2>1. t \in 0..now /\ now < t + LoginWindow
    BY DEF Recent
  <2>2. Among(times, kept, V) = Since(times, t)
    <3>1. ASSUME NEW i \in DOMAIN times
          PROVE  (now - times[i] < LoginWindow /\ times[i] \in V) <=> times[i] >= t
      <4>1. times[i] \in 0..now
        OBVIOUS
      <4> QED
        BY <2>1, <4>1
    <3> QED
      BY <3>1 DEF Among, Since
  <2> HIDE DEF s, kept
  <2>3. Among(s, DOMAIN s, V) = Since(s, t)
    <3>1. ASSUME NEW i \in DOMAIN s PROVE s[i] \in V <=> s[i] >= t
      <4>1. s[i] \in 0..now
        BY <1>3
      <4> QED
        BY <2>1, <4>1
    <3> QED
      BY <3>1 DEF Among, Since
  <2> HIDE DEF V
  <2>4. Cardinality(Among(s, DOMAIN s, V)) = Cardinality(Among(times, kept, V))
    BY <1>2, OnlyCount DEF s
  <2> QED
    BY <2>2, <2>3, <2>4 DEF Count
<1> QED
  BY <1>1, <1>3, <1>4

\* The length of what is fresh is a count.
LEMMA FreshLength ==
  ASSUME now \in Nat, LoginWindow \in Nat \ {0}, NEW times \in Seq(0..now)
  PROVE  \E t \in Recent : Len(Fresh(times)) = Count(times, t)
<1> DEFINE kept == {i \in DOMAIN times : now - times[i] < LoginWindow}
           t == IF now < LoginWindow THEN 0 ELSE now - LoginWindow + 1
<1>1. t \in Recent
  BY DEF Recent
<1>2. kept = Since(times, t)
  <2>1. ASSUME NEW i \in DOMAIN times
        PROVE  now - times[i] < LoginWindow <=> times[i] >= t
    <3>1. times[i] \in 0..now
      OBVIOUS
    <3> QED
      BY <3>1
  <2> QED
    BY <2>1 DEF Since
<1>3. kept \in SUBSET DOMAIN times
  OBVIOUS
<1> HIDE DEF t, kept
<1>4. Len(Fresh(times)) = Cardinality(kept)
  BY <1>3, OnlyFacts DEF Fresh, kept
<1> QED
  BY <1>1, <1>2, <1>4 DEF Count

\* _prune_failures_locked
LEMMA PruneOK ==
  ASSUME PanelAssumption, now \in Nat, NEW dict, DictOK(dict), NEW ip \in Clients
  PROVE  /\ DictOK(Prune(dict, ip))
         /\ \A c : Times(Prune(dict, ip), c) = IF c = ip THEN Fresh(Times(dict, ip))
                                                        ELSE Times(dict, c)
<1> DEFINE times == Fresh(Times(dict, ip))
<1>1. MaxIps \in Nat /\ LoginWindow \in Nat \ {0}
  BY DEF PanelAssumption
<1>2. Times(dict, ip) \in Seq(0..now)
  BY TimesAt
<1>3. times \in Seq(0..now)
  BY <1>1, <1>2, FreshFacts
<1>4. CASE times = <<>>
  <2>1. Prune(dict, ip) = Without(dict, ip)
    BY <1>4 DEF Prune
  <2> QED
    BY <1>1, <1>4, <2>1, WithoutOK
<1>5. CASE times # <<>>
  <2>1. Prune(dict, ip) = Put(dict, ip, times)
    BY <1>5 DEF Prune
  <2>2. Places(dict, ip) # {}
    <3> SUFFICES ASSUME Places(dict, ip) = {} PROVE FALSE
      OBVIOUS
    <3>1. Times(dict, ip) = <<>>
      BY DEF Times
    <3>2. Fresh(<<>>) = <<>>
      <4>1. <<>> \in Seq(0..now)
        OBVIOUS
      <4>2. Fresh(<<>>) \in Seq(0..now) /\ \E t \in Recent : Len(Fresh(<<>>)) = Count(<<>>, t)
        BY <1>1, <4>1, FreshFacts, FreshLength
      <4>3. Len(Fresh(<<>>)) = 0
        BY <4>2, CountEmpty
      <4> QED
        BY <4>2, <4>3
    <3> QED
      BY <1>5, <3>1, <3>2
  <2> HIDE DEF times
  <2> QED
    BY <1>1, <1>3, <1>5, <2>1, <2>2, PutOK, SMTT(30) DEF times
<1> QED
  BY <1>4, <1>5

\* _record_failure and the line that dates it: at the limit the first address goes.
LEMMA RecordOK ==
  ASSUME PanelAssumption, now \in Nat, NEW dict, DictOK(dict), NEW ip \in Clients
  PROVE  /\ DictOK(RecordFailure(dict, ip))
         /\ ip \notin Evicted(dict, ip)
         /\ \A c : Times(RecordFailure(dict, ip), c) =
                     IF c = ip THEN Append(Times(dict, ip), now)
                     ELSE IF c \in Evicted(dict, ip) THEN <<>> ELSE Times(dict, c)
<1>1. MaxIps \in Nat \ {0} /\ dict \in Seq(Tracked) /\ Len(dict) \in Nat /\ Len(dict) <= MaxIps
  BY DEF PanelAssumption, DictOK
<1> DEFINE room == IF Evicted(dict, ip) = {} THEN dict ELSE Tail(dict)
           times == Append(Times(room, ip), now)
<1>2. /\ DictOK(room) /\ Times(room, ip) = Times(dict, ip) /\ ip \notin Evicted(dict, ip)
      /\ Places(room, ip) # {} \/ Len(room) < MaxIps
      /\ \A c : Times(room, c) = IF c \in Evicted(dict, ip) THEN <<>> ELSE Times(dict, c)
  <2>1. CASE Times(dict, ip) = <<>> /\ Len(dict) >= MaxIps
    <3>1. Evicted(dict, ip) = {Head(dict).ip} /\ room = Tail(dict)
      BY <2>1 DEF Evicted
    <3>2. dict # <<>> /\ 1 \in DOMAIN dict /\ Head(dict) = dict[1]
      BY <1>1, <2>1
    <3>3. Places(dict, ip) = {}
      BY <2>1, TimesAt
    <3>4. ip # Head(dict).ip
      BY <3>2, <3>3 DEF Places
    <3>5. /\ DictOK(Tail(dict)) /\ Len(Tail(dict)) = Len(dict) - 1
          /\ \A c : Times(Tail(dict), c) = IF c = Head(dict).ip THEN <<>> ELSE Times(dict, c)
      BY <1>1, <3>2, TailOK
    <3> HIDE DEF room
    <3>6. Len(room) < MaxIps
      BY <1>1, <3>1, <3>5
    <3>7. DictOK(room) /\ ip \notin Evicted(dict, ip)
      BY <3>1, <3>4, <3>5
    <3>8. \A c : Times(room, c) = IF c \in Evicted(dict, ip) THEN <<>> ELSE Times(dict, c)
      BY <3>1, <3>5, Zenon
    <3> QED
      BY <3>6, <3>7, <3>8
  <2>2. CASE ~ (Times(dict, ip) = <<>> /\ Len(dict) >= MaxIps)
    <3>1. Evicted(dict, ip) = {} /\ room = dict
      BY <2>2 DEF Evicted
    <3>2. Places(dict, ip) = {} => Times(dict, ip) = <<>>
      BY DEF Times
    <3> QED
      BY <1>1, <2>2, <3>1, <3>2
  <2> QED
    BY <2>1, <2>2
<1>3. RecordFailure(dict, ip) = Put(room, ip, times)
  BY DEF RecordFailure
<1> HIDE DEF room
<1>4. Times(room, ip) \in Seq(0..now)
  BY <1>2, TimesAt
<1>5. times \in Seq(0..now) /\ times # <<>>
  <2>1. now \in 0..now
    OBVIOUS
  <2>2. Append(Times(room, ip), now) \in Seq(0..now) /\ Len(Append(Times(room, ip), now)) # 0
    BY <1>4, <2>1
  <2> QED
    BY <2>2, SMTT(30)
<1> HIDE DEF times
<1>6. /\ DictOK(Put(room, ip, times))
      /\ \A c : Times(Put(room, ip, times), c) = IF c = ip THEN times ELSE Times(room, c)
  BY <1>1, <1>2, <1>5, PutOK
<1>7. times = Append(Times(dict, ip), now)
  BY <1>2 DEF times
<1> QED
  BY <1>2, <1>3, <1>6, <1>7

-----------------------------------------------------------------------------
(* The inductive invariant.                                                *)

\* What a request stands for: a session is minted only from a credential that was
\* given and found right, and the address the limiter counts is the visitor's own.
Genuine(q) ==
  /\ q.pc \in {"minting", "replacing"} => q.guess = q.hash
  /\ q.pc \in {"arrived", "begun", "verified"} =>
       /\ q.ip = q.client
       /\ q.user = Admin => q.hash \in Versions
       /\ q.ok = "yes" => q.pc = "verified" /\ q.guess = q.hash /\ q.hash \in Versions
Queries == {q \in {Idle} \cup Attempt \cup Task \cup Form : Genuine(q)}

Scalars ==
  /\ now \in 0..MaxTime
  /\ secret \in [Accounts -> Versions] /\ token \in [Users -> Versions]
  /\ mustChange \in [Users -> BOOLEAN] /\ disabled \in [Users -> BOOLEAN]
  /\ requests \in 0..MaxRequests /\ faults \in 0..MaxFaults /\ purged \subseteq Accounts

RequestsOK == req \in [Workers -> Queries]

\* A session carries the generation that was proved, or is one of an older release
\* that has not been revoked.
SessionOK(r, s, revoked) ==
  /\ Realm(s.user) = r
  /\ IF s.gen = NoGeneration THEN s.user \notin revoked ELSE s.gen = s.proof

FilesOK ==
  /\ sessions \in [Realms -> Seq(Entry)]
  /\ \A r \in Realms : /\ FileOK(sessions[r])
                       /\ \A i \in DOMAIN sessions[r] : SessionOK(r, sessions[r][i], purged)

LimiterOK ==
  /\ failures \in [Realms -> Seq(Tracked)] /\ \A r \in Realms : DictOK(failures[r])
  /\ wrong \in [Realms -> [Clients -> Seq(0..now)]]
  /\ inflight \in [Realms -> [Clients -> Nat]] /\ leaked \in [Realms -> [Clients -> Nat]]

\* A request that has a slot of c; one whose wrong password is not dated yet.
Holds(q, r, c) == q.pc \in {"begun", "verified"} /\ Realm(q.user) = r /\ q.ip = c
Waits(q, r, c) == q.pc = "verified" /\ q.ok = "no" /\ Realm(q.user) = r /\ q.client = c
InUse(at, r, c) == Cardinality({w \in Workers : Holds(at[w], r, c)})
Undated(at, r, c) == Cardinality({w \in Workers : Waits(at[w], r, c)})

Slots == \A r \in Realms, c \in Clients :
           inflight[r][c] = leaked[r][c] + InUse(req, r, c)

\* At every moment that counts, the failures dated since and the slots in use
\* together stay within the limit, and every wrong verification since is dated or
\* about to be.
Budget ==
  \A r \in Realms, c \in Clients : \A t \in Recent :
    /\ Count(Times(failures[r], c), t) + inflight[r][c] <= LoginMax
    /\ Count(wrong[r][c], t) <= Count(Times(failures[r], c), t) + Undated(req, r, c)

IInv == Scalars /\ RequestsOK /\ FilesOK /\ LimiterOK /\ Slots /\ Budget

-----------------------------------------------------------------------------
(* The requests.                                                           *)

\* The step of a request tells which kind of record it is.
LEMMA Kinds ==
  ASSUME NEW q \in Queries
  PROVE  /\ q.pc \in {"arrived", "begun", "verified"} => q \in Attempt
         /\ q.pc \in {"minting", "changing", "replacing"} => q \in Task
         /\ q.pc \in {"reset", "disable", "enable", "rotate", "purging"} => q \in Form
         /\ Genuine(q)
<1>1. \A x \in Attempt : x.pc \in {"arrived", "begun", "verified"}
  BY DEF Attempt
<1>2. \A x \in Task : x.pc \in {"minting", "changing", "replacing"}
  BY DEF Task
<1>3. \A x \in Form : x.pc \in {"reset", "disable", "enable", "rotate", "purging"}
  BY DEF Form
<1>4. Idle.pc = "idle"
  BY DEF Idle
<1> QED
  BY <1>1, <1>2, <1>3, <1>4 DEF Queries

\* A worker that is done.
LEMMA IdleQuery == Idle \in Queries /\ Idle.pc = "idle"
BY DEF Queries, Genuine, Idle

\* The account of a request belongs to one of the panels.
LEMMA RealmFacts ==
  ASSUME PanelAssumption
  PROVE  /\ \A a : Realm(a) \in Realms
         /\ \A u \in Users : Realm(u) = "user" /\ u # Admin /\ u \in Accounts
         /\ Realm(Admin) = "admin" /\ Admin \in Accounts
         /\ \A a \in Accounts : a # Admin => a \in Users
BY DEF PanelAssumption, Realm, Realms, Accounts

\* The versions of a secret and the two numbers past them.
LEMMA VersionFacts ==
  ASSUME PanelAssumption
  PROVE  /\ MaxVersion \in Nat /\ NoGeneration \notin Versions /\ NoGeneration \in 0..NoGeneration
         /\ \A v \in Versions : v \in 0..NoGeneration /\ v \in 0..Wrong /\ v \in Nat /\ v # NoGeneration
         /\ \A v \in Versions : v < MaxVersion => v + 1 \in Versions
         /\ 0 \in Versions
BY DEF PanelAssumption, Versions, NoGeneration, Wrong

\* A password that a visitor may give.
LEMMA GuessFacts ==
  ASSUME PanelAssumption, Scalars, NEW a \in Accounts, NEW g \in Guesses(a)
  PROVE  g \in 0..Wrong
BY DEF Scalars, Guesses, Wrong, Versions, PanelAssumption

\* Every request that is taken is genuine ...
LEMMA LoginQuery ==
  ASSUME PanelAssumption, Scalars, NEW w \in Workers, NEW a \in Accounts,
         NEW peer \in Clients \cup {Loopback}, NEW header \in Clients, NEW g \in Guesses(a),
         Login(w, a, peer, header, g)
  PROVE  \E q \in Queries : /\ req' = [req EXCEPT ![w] = q] /\ q.pc = "arrived" /\ req[w] = Idle
                            /\ requests' \in 0..MaxRequests
<1> DEFINE ip == request_client_ip(peer, header)
           hash == IF a = Admin THEN secret[a] ELSE NoGeneration
           q == [pc |-> "arrived", user |-> a, kind |-> Password, guess |-> g, ip |-> ip,
                 client |-> IF peer = Loopback THEN header ELSE peer, hash |-> hash, ok |-> "no"]
<1>1. ip \in Clients /\ (IF peer = Loopback THEN header ELSE peer) = ip
  BY DEF request_client_ip
<1>2. hash \in 0..NoGeneration /\ (a = Admin => hash \in Versions)
  BY VersionFacts DEF Scalars
<1>3. g \in 0..Wrong
  BY GuessFacts
<1>4. req' = [req EXCEPT ![w] = q] /\ req[w] = Idle /\ requests' = requests + 1 /\ requests < MaxRequests
  BY DEF Login, Take
<1>5. requests' \in 0..MaxRequests
  BY <1>4 DEF Scalars, PanelAssumption
<1> HIDE DEF ip, hash
<1>6. /\ q \in Attempt /\ q.pc = "arrived" /\ q.ip = q.client /\ q.hash = hash /\ q.user = a
      /\ q.ok = "no"
  BY <1>1, <1>2, <1>3 DEF Attempt
<1> HIDE DEF q
<1>7. q \in Queries
  BY <1>2, <1>6 DEF Queries, Genuine
<1> QED
  BY <1>4, <1>5, <1>6, <1>7

\* A record that is to be made into a session.
LEMMA MintQuery ==
  ASSUME PanelAssumption, NEW a \in Accounts, NEW kind \in {Password, Token}, NEW v \in Versions,
         NEW pc \in {"minting", "replacing"}
  PROVE  [pc |-> pc, user |-> a, kind |-> kind, guess |-> v, hash |-> v] \in Queries
<1> DEFINE q == [pc |-> pc, user |-> a, kind |-> kind, guess |-> v, hash |-> v]
<1>1. v \in 0..Wrong
  BY VersionFacts
<1>2. q \in Task /\ q.pc = pc /\ q.guess = v /\ q.hash = v
  BY <1>1 DEF Task
<1> HIDE DEF q
<1>3. q \in Queries
  BY <1>2 DEF Queries, Genuine
<1> QED
  BY <1>3 DEF q

\* ... a link, ...
LEMMA LinkQuery ==
  ASSUME PanelAssumption, Scalars, NEW w \in Workers,
         (\E u \in Users : UserLink(w, u)) \/ AdminLink(w)
  PROVE  \E q \in Queries : /\ req' = [req EXCEPT ![w] = q] /\ q.pc = "minting" /\ req[w] = Idle
                            /\ requests' \in 0..MaxRequests
<1>1. CASE \E u \in Users : UserLink(w, u)
  <2>1. PICK u \in Users : UserLink(w, u)
    BY <1>1
  <2> DEFINE q == [pc |-> "minting", user |-> u, kind |-> Token, guess |-> token[u], hash |-> token[u]]
  <2>2. token[u] \in Versions /\ u \in Accounts
    BY RealmFacts DEF Scalars
  <2>3. q \in Queries /\ q.pc = "minting"
    BY <2>2, MintQuery
  <2>4. req' = [req EXCEPT ![w] = q] /\ req[w] = Idle /\ requests' = requests + 1 /\ requests < MaxRequests
    BY <2>1 DEF UserLink, Take
  <2>5. requests' \in 0..MaxRequests
    BY <2>4 DEF Scalars, PanelAssumption
  <2> QED
    BY <2>3, <2>4, <2>5
<1>2. CASE AdminLink(w)
  <2> DEFINE q == [pc |-> "minting", user |-> Admin, kind |-> Password,
                   guess |-> secret[Admin], hash |-> secret[Admin]]
  <2>2. secret[Admin] \in Versions /\ Admin \in Accounts
    BY RealmFacts DEF Scalars
  <2>3. q \in Queries /\ q.pc = "minting"
    BY <2>2, MintQuery
  <2>4. req' = [req EXCEPT ![w] = q] /\ req[w] = Idle /\ requests' = requests + 1 /\ requests < MaxRequests
    BY <1>2 DEF AdminLink, Take
  <2>5. requests' \in 0..MaxRequests
    BY <2>4 DEF Scalars, PanelAssumption
  <2> QED
    BY <2>3, <2>4, <2>5
<1> QED
  BY <1>1, <1>2

\* ... a change of password, ...
LEMMA ChangeQuery ==
  ASSUME PanelAssumption, Scalars, FilesOK, NEW w \in Workers, NEW f \in Realms,
         NEW i \in 1..Len(sessions[f]), NEW g \in Guesses(sessions[f][i].user),
         ChangeRequest(w, f, i, g)
  PROVE  \E q \in Queries : /\ req' = [req EXCEPT ![w] = q] /\ q.pc = "changing" /\ req[w] = Idle
                            /\ requests' \in 0..MaxRequests
<1> DEFINE a == sessions[f][i].user
           q == [pc |-> "changing", user |-> a, kind |-> Password, guess |-> g, hash |-> secret[a]]
<1>1. a \in Accounts
  <2>1. sessions[f] \in Seq(Entry)
    BY DEF FilesOK
  <2>2. sessions[f][i] \in Entry
    BY <2>1
  <2> QED
    BY <2>2 DEF Entry
<1>2. secret[a] \in Versions
  BY <1>1 DEF Scalars
<1>3. g \in 0..Wrong
  BY <1>1, GuessFacts
<1>4. req' = [req EXCEPT ![w] = q] /\ req[w] = Idle /\ requests' = requests + 1 /\ requests < MaxRequests
  BY DEF ChangeRequest, Take
<1>5. requests' \in 0..MaxRequests
  BY <1>4 DEF Scalars, PanelAssumption
<1> HIDE DEF a
<1>6. q \in Task /\ q.pc = "changing"
  BY <1>1, <1>2, <1>3 DEF Task
<1> HIDE DEF q
<1>7. q \in Queries
  BY <1>6 DEF Queries, Genuine
<1> QED
  BY <1>4, <1>5, <1>6, <1>7

\* ... and a form of the administrator.
LEMMA FormQuery ==
  ASSUME PanelAssumption, Scalars, NEW w \in Workers, NEW u \in Users,
         NEW op \in {"reset", "disable", "enable", "rotate"}, AdminForm(w, u, op)
  PROVE  \E q \in Queries : /\ req' = [req EXCEPT ![w] = q] /\ q.pc = op /\ req[w] = Idle
                            /\ requests' \in 0..MaxRequests
<1> DEFINE q == [pc |-> op, user |-> u, seen |-> Revision(u)]
<1>1. Revision(u) \in Versions \X Versions \X BOOLEAN \X BOOLEAN
  <2>1. secret[u] \in Versions /\ token[u] \in Versions /\ mustChange[u] \in BOOLEAN /\ disabled[u] \in BOOLEAN
    BY RealmFacts DEF Scalars
  <2> QED
    BY <2>1 DEF Revision
<1>4. req' = [req EXCEPT ![w] = q] /\ req[w] = Idle /\ requests' = requests + 1 /\ requests < MaxRequests
  BY DEF AdminForm, Take
<1>5. requests' \in 0..MaxRequests
  BY <1>4 DEF Scalars, PanelAssumption
<1>6. q \in Form /\ q.pc = op
  BY <1>1 DEF Form
<1> HIDE DEF q
<1>7. q \in Queries
  BY <1>6 DEF Queries, Genuine
<1> QED
  BY <1>4, <1>5, <1>6, <1>7

\* The limiter's verdict.
LEMMA BeginQuery ==
  ASSUME PanelAssumption, RequestsOK, NEW w \in Workers, req[w].pc = "arrived"
  PROVE  LET b == [req[w] EXCEPT !.pc = "begun"]
         IN  /\ b \in Queries /\ b.pc = "begun" /\ b.user = req[w].user /\ b.ip = req[w].ip
             /\ req[w].user \in Accounts /\ req[w].ip \in Clients
<1> DEFINE q == req[w]
           b == [q EXCEPT !.pc = "begun"]
<1>1. q \in Queries
  BY DEF RequestsOK
<1>2. q \in Attempt /\ Genuine(q)
  BY <1>1, Kinds
<1> HIDE DEF q
<1>3. /\ b \in Attempt /\ b.pc = "begun" /\ b.user = q.user /\ b.ip = q.ip /\ b.client = q.client
      /\ b.hash = q.hash /\ b.ok = q.ok /\ b.guess = q.guess /\ q.user \in Accounts /\ q.ip \in Clients
  BY <1>2 DEF Attempt
<1>4. Genuine(b)
  <2> HIDE DEF b
  <2>1. q.pc = "arrived"
    BY DEF q
  <2> QED
    BY <1>2, <1>3, <2>1 DEF Genuine
<1> HIDE DEF b
<1>5. b \in Queries
  BY <1>3, <1>4 DEF Queries
<1> QED
  BY <1>3, <1>5 DEF b, q

\* The verification: only the right password of an account that may be used is
\* a "yes", and it was the right one for the hash that is kept.
LEMMA VerifyQuery ==
  ASSUME PanelAssumption, Scalars, RequestsOK, NEW w \in Workers, VerifyLogin(w)
  PROVE  \E q \in Queries :
           /\ req' = [req EXCEPT ![w] = q]
           /\ q.pc = "verified" /\ q.user = req[w].user /\ q.ip = req[w].ip /\ q.client = req[w].client
           /\ req[w].pc = "begun" /\ req[w].ip = req[w].client
           /\ req[w].user \in Accounts /\ req[w].ip \in Clients
           /\ wrong' = IF q.ok = "no"
                       THEN [wrong EXCEPT ![Realm(req[w].user)][req[w].client] = Append(Fresh(@), now)]
                       ELSE wrong
<1> DEFINE r == req[w]
           hash == IF r.user = Admin THEN r.hash ELSE secret[r.user]
           ok == CASE ~ verify_secret(r.guess, hash) -> "no"
                   [] Blocked(r.user) -> "blocked"
                   [] OTHER -> "yes"
           q == [r EXCEPT !.pc = "verified", !.hash = hash, !.ok = ok]
<1>1. r \in Queries /\ r.pc = "begun"
  BY DEF RequestsOK, VerifyLogin
<1>2. r \in Attempt /\ Genuine(r)
  BY <1>1, Kinds
<1>3. /\ req' = [req EXCEPT ![w].pc = "verified", ![w].hash = hash, ![w].ok = ok]
      /\ wrong' = IF ok = "no" THEN [wrong EXCEPT ![Realm(r.user)][r.client] = Append(Fresh(@), now)]
                  ELSE wrong
  BY DEF VerifyLogin
<1>4. req' = [req EXCEPT ![w] = q]
  <2> HIDE DEF hash, ok
  <2> QED
    BY <1>3 DEF RequestsOK
<1>5. r.user \in Accounts /\ r.ip \in Clients /\ r.guess \in 0..Wrong /\ r.ip = r.client
  BY <1>1, <1>2 DEF Attempt, Genuine
<1>6. hash \in Versions
  BY <1>1, <1>2, <1>5 DEF Genuine, Scalars
<1>7. ok \in {"yes", "no", "blocked"} /\ (ok = "yes" => r.guess = hash)
  BY DEF verify_secret
<1>8. hash \in 0..NoGeneration
  BY <1>6, VersionFacts
<1> HIDE DEF hash, ok, r
<1>9. /\ q \in Attempt /\ q.pc = "verified" /\ q.user = r.user /\ q.ip = r.ip /\ q.client = r.client
      /\ q.hash = hash /\ q.ok = ok /\ q.guess = r.guess
  BY <1>2, <1>7, <1>8 DEF Attempt
<1> HIDE DEF q
<1>10. q \in Queries
  BY <1>5, <1>6, <1>7, <1>9 DEF Queries, Genuine
<1> QED
  BY <1>1, <1>3, <1>4, <1>5, <1>9, <1>10 DEF r

\* The end of a verification.
LEMMA FinishQuery ==
  ASSUME PanelAssumption, RequestsOK, NEW w \in Workers, FinishLoginAttempt(w)
  PROVE  \E q \in Queries :
           /\ req' = [req EXCEPT ![w] = q] /\ q.pc \in {"minting", "idle"}
           /\ req[w].pc = "verified" /\ req[w].ip = req[w].client
           /\ req[w].user \in Accounts /\ req[w].ip \in Clients
           /\ req[w].ok \in {"yes", "no", "blocked"}
<1> DEFINE r == req[w]
<1>1. r \in Queries /\ r.pc = "verified"
  BY DEF RequestsOK, FinishLoginAttempt
<1>2. r \in Attempt /\ Genuine(r)
  BY <1>1, Kinds
<1>3. /\ r.user \in Accounts /\ r.ip \in Clients /\ r.ip = r.client /\ r.kind = Password
      /\ r.ok \in {"yes", "no", "blocked"}
      /\ r.ok = "yes" => r.guess = r.hash /\ r.hash \in Versions
  BY <1>1, <1>2 DEF Attempt, Genuine
<1>4. CASE r.ok = "yes"
  <2>1. req' = [req EXCEPT ![w] = Minting(r)]
    BY <1>4 DEF FinishLoginAttempt, RequestsOK
  <2>2. Minting(r) = [pc |-> "minting", user |-> r.user, kind |-> Password, guess |-> r.hash,
                      hash |-> r.hash]
    BY <1>3, <1>4 DEF Minting
  <2>3. Minting(r) \in Queries
    BY <1>3, <1>4, <2>2, MintQuery
  <2>4. Minting(r).pc = "minting"
    BY DEF Minting
  <2> QED
    BY <1>1, <1>3, <2>1, <2>3, <2>4
<1>5. CASE r.ok # "yes"
  <2>1. req' = [req EXCEPT ![w] = Idle]
    BY <1>3, <1>5 DEF FinishLoginAttempt, Done
  <2> QED
    BY <1>1, <1>3, <2>1, IdleQuery
<1> QED
  BY <1>4, <1>5

\* The rest of the steps of a request: none of them has a verification slot.
LEMMA OtherQuery ==
  ASSUME PanelAssumption, Scalars, RequestsOK, NEW w \in Workers,
         \/ CreateSession(w) \/ SessionStoreFails(w) \/ ReplaceSessionsWithNew(w)
         \/ DeleteSessionsFor(w) \/ EnableUser(w) \/ RotateToken(w) \/ Conflict(w)
         \/ ChangePassword(w) \/ ResetPassword(w) \/ DisableUser(w)
  PROVE  \E q \in Queries :
           /\ req' = [req EXCEPT ![w] = q]
           /\ q.pc \notin {"begun", "verified"} /\ req[w].pc \notin {"begun", "verified"}
<1> DEFINE r == req[w]
<1>1. r \in Queries
  BY DEF RequestsOK
<1>2. CASE \/ CreateSession(w) \/ SessionStoreFails(w) \/ ReplaceSessionsWithNew(w)
           \/ DeleteSessionsFor(w) \/ EnableUser(w) \/ RotateToken(w) \/ Conflict(w)
  <2>1. req' = [req EXCEPT ![w] = Idle] /\ r.pc \notin {"begun", "verified"}
    BY <1>2 DEF CreateSession, SessionStoreFails, ReplaceSessionsWithNew, DeleteSessionsFor,
                EnableUser, RotateToken, Conflict, Matches, Done
  <2> QED
    BY <2>1, IdleQuery
<1>3. CASE ChangePassword(w)
  <2>1. r.pc = "changing" /\ r \in Task
    BY <1>1, <1>3, Kinds DEF ChangePassword
  <2>2. CASE PasswordGiven(r) /\ ~ Blocked(r.user)
    <3> DEFINE v == secret[r.user] + 1
               q == [r EXCEPT !.pc = "replacing", !.hash = v, !.guess = v]
    <3>1. req' = [req EXCEPT ![w] = q]
      BY <1>3, <2>2 DEF ChangePassword, RequestsOK
    <3>2. r.user \in Accounts /\ r.kind \in {Password, Token}
      BY <2>1 DEF Task
    <3>3. secret[r.user] \in Versions /\ secret[r.user] < MaxVersion
      BY <1>3, <2>2, <3>2 DEF ChangePassword, NewSecret, Scalars
    <3>4. v \in Versions
      BY <3>3, VersionFacts
    <3> HIDE DEF v, r
    <3>5. v \in 0..Wrong
      BY <3>4, VersionFacts
    <3>6. q \in Task /\ q.pc = "replacing" /\ q.guess = v /\ q.hash = v
      BY <2>1, <3>4, <3>5 DEF Task
    <3> HIDE DEF q
    <3>7. q \in Queries
      BY <3>6 DEF Queries, Genuine
    <3> QED
      BY <2>1, <3>1, <3>6, <3>7 DEF r
  <2>3. CASE ~ (PasswordGiven(r) /\ ~ Blocked(r.user))
    <3>1. req' = [req EXCEPT ![w] = Idle]
      BY <1>3, <2>3 DEF ChangePassword, Done
    <3> QED
      BY <2>1, <3>1, IdleQuery
  <2> QED
    BY <2>2, <2>3
<1>4. CASE ResetPassword(w) \/ DisableUser(w)
  <2> DEFINE q == [r EXCEPT !.pc = "purging"]
  <2>1. req' = [req EXCEPT ![w] = q] /\ r.pc \in {"reset", "disable"}
    BY <1>4 DEF ResetPassword, DisableUser, Matches, RequestsOK
  <2>2. r \in Form
    BY <1>1, <2>1, Kinds
  <2> HIDE DEF r
  <2>3. q \in Form /\ q.pc = "purging"
    BY <2>2 DEF Form
  <2> HIDE DEF q
  <2>4. q \in Queries
    BY <2>3 DEF Queries, Genuine
  <2> QED
    BY <2>1, <2>3, <2>4 DEF r
<1> QED
  BY <1>2, <1>3, <1>4

-----------------------------------------------------------------------------
(* The session files.                                                      *)

\* Replacing one file by one that is in order.
LEMMA FileStep ==
  ASSUME PanelAssumption, FilesOK, NEW f \in Realms, NEW t, sessions' = [sessions EXCEPT ![f] = t],
         FileOK(t), NEW P, purged' = purged \cup P, \A u \in P : Realm(u) = f,
         \A k \in DOMAIN t : SessionOK(f, t[k], purged \cup P)
  PROVE  FilesOK'
<1>1. /\ sessions' \in [Realms -> Seq(Entry)] /\ sessions'[f] = t
      /\ \A r \in Realms : r # f => sessions'[r] = sessions[r]
  <2>1. t \in Seq(Entry)
    BY DEF FileOK
  <2> QED
    BY <2>1 DEF FilesOK
<1>2. ASSUME NEW r \in Realms
      PROVE  /\ FileOK(sessions'[r])
             /\ \A i \in DOMAIN sessions'[r] : SessionOK(r, sessions'[r][i], purged')
  <2>1. CASE r = f
    BY <1>1, <2>1
  <2>2. CASE r # f
    <3>1. sessions'[r] = sessions[r] /\ FileOK(sessions[r])
      BY <1>1, <2>2 DEF FilesOK
    <3>2. ASSUME NEW i \in DOMAIN sessions[r] PROVE SessionOK(r, sessions[r][i], purged')
      <4>1. SessionOK(r, sessions[r][i], purged)
        BY DEF FilesOK
      <4>2. sessions[r][i].user \notin P
        BY <2>2, <4>1 DEF SessionOK
      <4> QED
        BY <4>1, <4>2 DEF SessionOK
    <3> QED
      BY <3>1, <3>2
  <2> QED
    BY <2>1, <2>2
<1> QED
  BY <1>1, <1>2 DEF FilesOK

\* The entry that is made of a genuine request.
LEMMA NewEntry ==
  ASSUME PanelAssumption, Scalars, RequestsOK, NEW w \in Workers,
         req[w].pc \in {"minting", "replacing"}
  PROVE  LET s == Session(req[w])
         IN  /\ s \in Entry /\ s.user = req[w].user /\ s.gen # NoGeneration /\ s.gen = s.proof
             /\ req[w].user \in Accounts
<1> DEFINE q == req[w]
           s == Session(q)
<1>1. q \in Queries
  BY DEF RequestsOK
<1>2. q \in Task /\ Genuine(q) /\ q.pc \in {"minting", "replacing"}
  BY <1>1, Kinds
<1>3. q.user \in Accounts /\ q.kind \in {Password, Token} /\ q.hash \in Versions /\ q.guess = q.hash
  BY <1>2 DEF Task, Genuine
<1>4. now + SessionTtl \in 1..(MaxTime + SessionTtl)
  BY DEF Scalars, PanelAssumption
<1>5. q.hash \in 0..NoGeneration /\ q.hash # NoGeneration
  BY <1>3, VersionFacts
<1> HIDE DEF q
<1>6. s \in Entry /\ s.user = q.user /\ s.gen = q.hash /\ s.proof = q.guess
  BY <1>3, <1>4, <1>5 DEF Session, Entry
<1> HIDE DEF s
<1> QED
  BY <1>3, <1>5, <1>6 DEF s, q

\* _create_session
LEMMA CreateFiles ==
  ASSUME PanelAssumption, Scalars, RequestsOK, FilesOK, NEW w \in Workers, CreateSession(w)
  PROVE  FilesOK'
<1> DEFINE r == req[w]
           f == Realm(r.user)
           a == AliveSessions(sessions[f])
           c == CapGlobal(CapIdentity(a, r.user))
           e == Session(r)
           t == Append(c, e)
           P == {}
<1>1. /\ e \in Entry /\ e.user = r.user /\ e.gen # NoGeneration /\ e.gen = e.proof
      /\ r.user \in Accounts
  BY NewEntry DEF CreateSession
<1>2. f \in Realms
  BY RealmFacts
<1>3. FileOK(sessions[f])
  BY <1>2 DEF FilesOK
<1>4. FileOK(a) /\ From(sessions[f], a)
  BY <1>3, OnlyFile DEF AliveSessions, Alive
<1>5. /\ FileOK(c) /\ From(a, c) /\ Len(c) + 1 <= SessionMaxGlobal
      /\ Cardinality(Own(c, r.user)) + 1 <= SessionMaxPerIdentity
  BY <1>1, <1>4, Capped
<1>6. sessions' = [sessions EXCEPT ![f] = t] /\ purged' = purged \cup P
  BY <1>2 DEF CreateSession, FilesOK
<1> HIDE DEF a, c, e, f, r, P
<1>7. FileOK(t)
  BY <1>1, <1>5, AppendFile
<1>8. ASSUME NEW k \in DOMAIN t
      PROVE  SessionOK(f, t[k], purged \cup P)
  <2>1. c \in Seq(Entry)
    BY <1>5 DEF FileOK
  <2>2. t[k] = e \/ (k \in DOMAIN c /\ t[k] = c[k])
    BY <1>1, <2>1
  <2>3. CASE t[k] = e
    BY <1>1, <2>3 DEF f, SessionOK
  <2>4. CASE k \in DOMAIN c /\ t[k] = c[k]
    <3>1. \E i \in DOMAIN sessions[f] : t[k] = sessions[f][i]
      BY <1>4, <1>5, <2>4 DEF From
    <3> QED
      BY <1>2, <3>1 DEF FilesOK, SessionOK, P
  <2> QED
    BY <2>2, <2>3, <2>4
<1> HIDE DEF t
<1> QED
  <2>1. \A u \in P : Realm(u) = f
    BY DEF P
  <2> QED
    BY <1>2, <1>6, <1>7, <1>8, <2>1, FileStep

\* _replace_sessions_with_new
LEMMA ReplaceFiles ==
  ASSUME PanelAssumption, Scalars, RequestsOK, FilesOK, NEW w \in Workers, ReplaceSessionsWithNew(w)
  PROVE  FilesOK'
<1> DEFINE r == req[w]
           f == Realm(r.user)
           kept == Alive(sessions[f]) \ Own(sessions[f], r.user)
           c == IF r.user = Admin THEN <<>> ELSE Only(sessions[f], kept)
           e == Session(r)
           t == Append(c, e)
<1>1. /\ e \in Entry /\ e.user = r.user /\ e.gen # NoGeneration /\ e.gen = e.proof
      /\ r.user \in Accounts
  BY NewEntry DEF ReplaceSessionsWithNew
<1>2. f \in Realms
  BY RealmFacts
<1>3. FileOK(sessions[f])
  BY <1>2 DEF FilesOK
<1>4. kept \in SUBSET DOMAIN sessions[f] /\ \A i \in kept : sessions[f][i].user # r.user
  BY DEF Alive, Own
<1>5. SessionMaxGlobal \in Nat \ {0} /\ SessionMaxPerIdentity \in Nat \ {0}
  BY DEF PanelAssumption
<1>6. sessions' = [sessions EXCEPT ![f] = t] /\ purged' = purged \cup {r.user}
  BY <1>2 DEF ReplaceSessionsWithNew, FilesOK
<1> HIDE DEF kept
<1>7. /\ FileOK(c) /\ \A k \in DOMAIN c : c[k].user # r.user /\ \E i \in DOMAIN sessions[f] : c[k] = sessions[f][i]
  <2>1. CASE r.user = Admin
    <3>1. c = <<>> /\ c \in Seq(Entry) /\ DOMAIN c = {} /\ Len(c) = 0
      BY <2>1
    <3> HIDE DEF c
    <3>2. \A a : Cardinality(Own(c, a)) = 0
      <4>1. \A a : Own(c, a) = {}
        BY <3>1 DEF Own
      <4> QED
        BY <4>1, FS_EmptySet
    <3>3. Cardinality(Owners(c)) \in Nat
      BY <3>1, FileNumbers
    <3>4. FileOK(c)
      BY <1>5, <3>1, <3>2, <3>3 DEF FileOK
    <3> QED
      BY <3>1, <3>4
  <2>2. CASE r.user # Admin
    <3>1. c = Only(sessions[f], kept)
      BY <2>2
    <3> HIDE DEF c
    <3>2. FileOK(c) /\ \A k \in DOMAIN c : \E i \in kept : c[k] = sessions[f][i]
      BY <1>3, <1>4, <3>1, OnlyFile
    <3> QED
      BY <1>4, <3>2
  <2> QED
    BY <2>1, <2>2
<1> HIDE DEF c, e, f, r
<1>8. FileOK(t)
  <2>1. Own(c, e.user) = {}
    BY <1>1, <1>7 DEF Own
  <2>2. Cardinality(Own(c, e.user)) + 1 <= SessionMaxPerIdentity
    BY <1>5, <2>1, FS_EmptySet
  <2> QED
    BY <1>1, <1>7, <2>1, <2>2, AppendFile
<1>9. ASSUME NEW k \in DOMAIN t
      PROVE  SessionOK(f, t[k], purged \cup {r.user})
  <2>1. c \in Seq(Entry)
    BY <1>7 DEF FileOK
  <2>2. t[k] = e \/ (k \in DOMAIN c /\ t[k] = c[k])
    BY <1>1, <2>1
  <2>3. CASE t[k] = e
    BY <1>1, <2>3 DEF f, SessionOK
  <2>4. CASE k \in DOMAIN c /\ t[k] = c[k]
    <3>1. t[k].user # r.user /\ \E i \in DOMAIN sessions[f] : t[k] = sessions[f][i]
      BY <1>7, <2>4
    <3> QED
      BY <1>2, <3>1 DEF FilesOK, SessionOK
  <2> QED
    BY <2>2, <2>3, <2>4
<1> HIDE DEF t
<1> QED
  BY <1>2, <1>6, <1>8, <1>9, FileStep DEF f

\* delete_user_sessions_for
LEMMA DeleteFiles ==
  ASSUME PanelAssumption, RequestsOK, FilesOK, NEW w \in Workers, DeleteSessionsFor(w)
  PROVE  FilesOK'
<1> DEFINE u == req[w].user
           s == sessions["user"]
           kept == Alive(s) \ Own(s, u)
           t == Only(s, kept)
<1>1. req[w] \in Form
  BY Kinds DEF DeleteSessionsFor, RequestsOK
<1>2. u \in Users /\ Realm(u) = "user" /\ "user" \in Realms
  BY <1>1, RealmFacts DEF Form, Realms
<1>3. FileOK(s)
  BY <1>2 DEF FilesOK
<1>4. kept \in SUBSET DOMAIN s /\ \A i \in kept : s[i].user # u
  BY DEF Alive, Own
<1>5. sessions' = [sessions EXCEPT !["user"] = t] /\ purged' = purged \cup {u}
  BY <1>2 DEF DeleteSessionsFor, FilesOK
<1> HIDE DEF kept
<1>6. FileOK(t) /\ \A k \in DOMAIN t : \E i \in kept : t[k] = s[i]
  BY <1>3, <1>4, OnlyFile
<1> HIDE DEF t, u
<1>7. ASSUME NEW k \in DOMAIN t
      PROVE  SessionOK("user", t[k], purged \cup {u})
  <2>1. PICK i \in kept : t[k] = s[i]
    BY <1>6
  <2>2. i \in DOMAIN s /\ s[i].user # u
    BY <1>4
  <2> QED
    BY <1>2, <2>1, <2>2 DEF FilesOK, SessionOK
<1> QED
  <2>1. \A x \in {u} : Realm(x) = "user"
    BY <1>2
  <2> QED
    BY <1>2, <1>5, <1>6, <1>7, <2>1, FileStep, ZenonT(40)

\* A page or a logout.
LEMMA RemoveFiles ==
  ASSUME PanelAssumption, FilesOK, NEW f \in Realms, NEW i \in 1..Len(sessions[f]),
         RemoveSession(f, i), UNCHANGED purged
  PROVE  FilesOK'
<1> DEFINE s == sessions[f]
           kept == Alive(s) \ {i}
           t == Only(s, kept)
           P == {}
<1>1. FileOK(s)
  BY DEF FilesOK
<1>2. kept \in SUBSET DOMAIN s
  BY DEF Alive
<1>3. sessions' = [sessions EXCEPT ![f] = t] /\ purged' = purged \cup P
  BY DEF RemoveSession, FilesOK
<1> HIDE DEF kept, P
<1>4. FileOK(t) /\ \A k \in DOMAIN t : \E j \in kept : t[k] = s[j]
  BY <1>1, <1>2, OnlyFile
<1> HIDE DEF t
<1>5. ASSUME NEW k \in DOMAIN t
      PROVE  SessionOK(f, t[k], purged \cup P)
  <2>1. PICK j \in kept : t[k] = s[j]
    BY <1>4
  <2>2. j \in DOMAIN s
    BY <1>2
  <2> QED
    BY <2>1, <2>2 DEF FilesOK, SessionOK, P
<1> QED
  <2>1. \A u \in P : Realm(u) = f
    BY DEF P
  <2> QED
    BY <1>3, <1>4, <1>5, <2>1, FileStep

-----------------------------------------------------------------------------
(* The limiter.                                                            *)

\* A request takes a step, from its record in at to the one in to: it gets a slot,
LEMMA SlotTaken ==
  ASSUME PanelAssumption, NEW at, NEW to, NEW w \in Workers, NEW r, NEW c,
         \A x \in Workers : x # w => to[x] = at[x],
         Holds(to[w], r, c), ~ Holds(at[w], r, c)
  PROVE  InUse(to, r, c) = InUse(at, r, c) + 1
<1> DEFINE H == {x \in Workers : Holds(at[x], r, c)}
           G == {x \in Workers : Holds(to[x], r, c)}
<1>1. IsFiniteSet(H)
  BY FS_Subset DEF PanelAssumption
<1>2. /\ G \ {w} = H \ {w}
      /\ w \in H <=> Holds(at[w], r, c)
      /\ w \in G <=> Holds(to[w], r, c)
  OBVIOUS
<1>3. InUse(at, r, c) = Cardinality(H) /\ InUse(to, r, c) = Cardinality(G)
  BY DEF InUse
<1> HIDE DEF H, G
<1> QED
  BY <1>1, <1>2, <1>3, CountChange

\* ... gives it back,
LEMMA SlotGiven ==
  ASSUME PanelAssumption, NEW at, NEW to, NEW w \in Workers, NEW r, NEW c,
         \A x \in Workers : x # w => to[x] = at[x],
         ~ Holds(to[w], r, c), Holds(at[w], r, c)
  PROVE  InUse(to, r, c) = InUse(at, r, c) - 1
<1> DEFINE H == {x \in Workers : Holds(at[x], r, c)}
           G == {x \in Workers : Holds(to[x], r, c)}
<1>1. IsFiniteSet(H)
  BY FS_Subset DEF PanelAssumption
<1>2. /\ G \ {w} = H \ {w}
      /\ w \in H <=> Holds(at[w], r, c)
      /\ w \in G <=> Holds(to[w], r, c)
  OBVIOUS
<1>3. InUse(at, r, c) = Cardinality(H) /\ InUse(to, r, c) = Cardinality(G)
  BY DEF InUse
<1> HIDE DEF H, G
<1> QED
  BY <1>1, <1>2, <1>3, CountChange

\* ... or neither.
LEMMA SlotKept ==
  ASSUME PanelAssumption, NEW at, NEW to, NEW w \in Workers, NEW r, NEW c,
         \A x \in Workers : x # w => to[x] = at[x],
         Holds(to[w], r, c) <=> Holds(at[w], r, c)
  PROVE  InUse(to, r, c) = InUse(at, r, c)
<1> DEFINE H == {x \in Workers : Holds(at[x], r, c)}
           G == {x \in Workers : Holds(to[x], r, c)}
<1>1. IsFiniteSet(H)
  BY FS_Subset DEF PanelAssumption
<1>2. /\ G \ {w} = H \ {w}
      /\ w \in H <=> Holds(at[w], r, c)
      /\ w \in G <=> Holds(to[w], r, c)
  OBVIOUS
<1>3. InUse(at, r, c) = Cardinality(H) /\ InUse(to, r, c) = Cardinality(G)
  BY DEF InUse
<1> HIDE DEF H, G
<1> QED
  BY <1>1, <1>2, <1>3, CountChange

\* The same of the failures that are not dated yet: one more,
LEMMA WaitTaken ==
  ASSUME PanelAssumption, NEW at, NEW to, NEW w \in Workers, NEW r, NEW c,
         \A x \in Workers : x # w => to[x] = at[x],
         Waits(to[w], r, c), ~ Waits(at[w], r, c)
  PROVE  Undated(to, r, c) = Undated(at, r, c) + 1
<1> DEFINE H == {x \in Workers : Waits(at[x], r, c)}
           G == {x \in Workers : Waits(to[x], r, c)}
<1>1. IsFiniteSet(H)
  BY FS_Subset DEF PanelAssumption
<1>2. /\ G \ {w} = H \ {w}
      /\ w \in H <=> Waits(at[w], r, c)
      /\ w \in G <=> Waits(to[w], r, c)
  OBVIOUS
<1>3. Undated(at, r, c) = Cardinality(H) /\ Undated(to, r, c) = Cardinality(G)
  BY DEF Undated
<1> HIDE DEF H, G
<1> QED
  BY <1>1, <1>2, <1>3, CountChange

\* ... one less,
LEMMA WaitGiven ==
  ASSUME PanelAssumption, NEW at, NEW to, NEW w \in Workers, NEW r, NEW c,
         \A x \in Workers : x # w => to[x] = at[x],
         ~ Waits(to[w], r, c), Waits(at[w], r, c)
  PROVE  Undated(to, r, c) = Undated(at, r, c) - 1
<1> DEFINE H == {x \in Workers : Waits(at[x], r, c)}
           G == {x \in Workers : Waits(to[x], r, c)}
<1>1. IsFiniteSet(H)
  BY FS_Subset DEF PanelAssumption
<1>2. /\ G \ {w} = H \ {w}
      /\ w \in H <=> Waits(at[w], r, c)
      /\ w \in G <=> Waits(to[w], r, c)
  OBVIOUS
<1>3. Undated(at, r, c) = Cardinality(H) /\ Undated(to, r, c) = Cardinality(G)
  BY DEF Undated
<1> HIDE DEF H, G
<1> QED
  BY <1>1, <1>2, <1>3, CountChange

\* ... or the same.
LEMMA WaitKept ==
  ASSUME PanelAssumption, NEW at, NEW to, NEW w \in Workers, NEW r, NEW c,
         \A x \in Workers : x # w => to[x] = at[x],
         Waits(to[w], r, c) <=> Waits(at[w], r, c)
  PROVE  Undated(to, r, c) = Undated(at, r, c)
<1> DEFINE H == {x \in Workers : Waits(at[x], r, c)}
           G == {x \in Workers : Waits(to[x], r, c)}
<1>1. IsFiniteSet(H)
  BY FS_Subset DEF PanelAssumption
<1>2. /\ G \ {w} = H \ {w}
      /\ w \in H <=> Waits(at[w], r, c)
      /\ w \in G <=> Waits(to[w], r, c)
  OBVIOUS
<1>3. Undated(at, r, c) = Cardinality(H) /\ Undated(to, r, c) = Cardinality(G)
  BY DEF Undated
<1> HIDE DEF H, G
<1> QED
  BY <1>1, <1>2, <1>3, CountChange

\* The numbers of slots in use are numbers.
LEMMA SlotTypes ==
  ASSUME PanelAssumption, NEW at, NEW r, NEW c
  PROVE  InUse(at, r, c) \in Nat /\ Undated(at, r, c) \in Nat
<1> DEFINE H == {w \in Workers : Holds(at[w], r, c)}
           P == {w \in Workers : Waits(at[w], r, c)}
<1>1. H \in SUBSET Workers /\ P \in SUBSET Workers
  OBVIOUS
<1> HIDE DEF H, P
<1>2. IsFiniteSet(H) /\ IsFiniteSet(P)
  BY <1>1, FS_Subset DEF PanelAssumption
<1>3. Cardinality(H) \in Nat /\ Cardinality(P) \in Nat
  BY <1>2, FS_CardinalityType
<1> QED
  BY <1>3 DEF InUse, Undated, H, P

\* What the limiter keeps stays in order as long as the clock stands still.
LEMMA DictStays ==
  ASSUME now' = now
  PROVE  Tracked' = Tracked /\ Recent' = Recent
BY DEF Tracked, Recent

\* Steps that leave the limiter and the slots alone.
LEMMA LimiterSame ==
  ASSUME LimiterOK, Slots, Budget, UNCHANGED <<now, limiter>>,
         \A r \in Realms, c \in Clients :
           /\ InUse(req', r, c) = InUse(req, r, c)
           /\ Undated(req', r, c) = Undated(req, r, c)
  PROVE  LimiterOK' /\ Slots' /\ Budget'
<1>1. /\ now' = now /\ failures' = failures /\ inflight' = inflight /\ leaked' = leaked
      /\ wrong' = wrong
  BY DEF limiter
<1>2. Tracked' = Tracked /\ Recent' = Recent
  BY <1>1, DictStays
<1>3. LimiterOK'
  <2>1. \A r \in Realms : DictOK(failures[r])'
    BY <1>1, <1>2 DEF LimiterOK, DictOK
  <2> QED
    BY <1>1, <1>2, <2>1 DEF LimiterOK
<1>4. Slots'
  BY <1>1 DEF Slots
<1>5. Budget'
  BY <1>1, <1>2 DEF Budget
<1> QED
  BY <1>3, <1>4, <1>5

\* The request of worker w takes a step and is then q.
Moves(w, q) == req'[w] = q /\ \A x \in Workers : x # w => req'[x] = req[x]

\* A step that replaces the record of one request is such a step.
LEMMA MovesTo ==
  ASSUME RequestsOK, NEW w \in Workers, NEW q, req' = [req EXCEPT ![w] = q]
  PROVE  Moves(w, q)
BY DEF RequestsOK, Moves

\* A step of a request that neither had a slot nor gets one.
LEMMA Elsewhere ==
  ASSUME PanelAssumption, LimiterOK, Slots, Budget, UNCHANGED <<now, limiter>>,
         NEW w \in Workers, NEW q, Moves(w, q),
         q.pc \notin {"begun", "verified"}, req[w].pc \notin {"begun", "verified"}
  PROVE  LimiterOK' /\ Slots' /\ Budget'
<1>1. req'[w] = q /\ \A x \in Workers : x # w => req'[x] = req[x]
  BY DEF Moves
<1>2. ASSUME NEW r \in Realms, NEW c \in Clients
      PROVE  /\ InUse(req', r, c) = InUse(req, r, c)
             /\ Undated(req', r, c) = Undated(req, r, c)
  <2>1. /\ ~ Holds(req'[w], r, c) /\ ~ Holds(req[w], r, c)
        /\ ~ Waits(req'[w], r, c) /\ ~ Waits(req[w], r, c)
    BY <1>1 DEF Holds, Waits
  <2>2. InUse(req', r, c) = InUse(req, r, c)
    BY <1>1, <2>1, SlotKept
  <2>3. Undated(req', r, c) = Undated(req, r, c)
    BY <1>1, <2>1, WaitKept
  <2> QED
    BY <2>2, <2>3
<1> QED
  BY <1>2, LimiterSame

\* No step of a request at all.
LEMMA NobodyMoves ==
  ASSUME LimiterOK, Slots, Budget, UNCHANGED <<now, limiter, req>>
  PROVE  LimiterOK' /\ Slots' /\ Budget'
<1>1. \A r \in Realms, c \in Clients : /\ InUse(req', r, c) = InUse(req, r, c)
                                       /\ Undated(req', r, c) = Undated(req, r, c)
  BY DEF InUse, Undated
<1> QED
  BY <1>1, LimiterSame

\* A sequence over a smaller set.
LEMMA SeqWiden ==
  ASSUME NEW S, NEW T, S \subseteq T, NEW s \in Seq(S)
  PROVE  s \in Seq(T)
OBVIOUS

\* Nothing is dated in the future.
LEMMA CountFuture ==
  ASSUME NEW n \in Nat, NEW s \in Seq(0..n)
  PROVE  Count(s, n + 1) = 0
<1>1. ASSUME NEW i \in DOMAIN s PROVE ~ (s[i] >= n + 1)
  <2>1. s[i] \in 0..n
    OBVIOUS
  <2> QED
    BY <2>1
<1>2. Since(s, n + 1) = {}
  BY <1>1 DEF Since
<1> QED
  BY <1>2, FS_EmptySet DEF Count

\* The clock.
LEMMA TickLimiter ==
  ASSUME PanelAssumption, Scalars, LimiterOK, Slots, Budget, Tick
  PROVE  LimiterOK' /\ Slots' /\ Budget'
<1>1. /\ now \in Nat /\ now' = now + 1 /\ failures' = failures /\ inflight' = inflight
      /\ leaked' = leaked /\ wrong' = wrong /\ req' = req
  BY DEF Tick, Scalars, limiter
<1>2. /\ \A s : s \in Seq(0..now) => s \in Seq(0..now')
      /\ \A e : e \in Tracked => e \in Tracked'
  <2>1. \A s : s \in Seq(0..now) => s \in Seq(0..now')
    <3>1. 0..now \subseteq 0..now'
      BY <1>1
    <3> QED
      BY <3>1, SeqWiden
  <2> QED
    BY <2>1 DEF Tracked
<1>3. \A d : DictOK(d) => d \in Seq(Tracked')
  <2> SUFFICES ASSUME NEW d, DictOK(d) PROVE d \in Seq(Tracked')
    OBVIOUS
  <2>1. d \in Seq(Tracked) /\ \A i \in 1..Len(d) : d[i] \in Tracked'
    BY <1>2 DEF DictOK
  <2> QED
    BY <2>1
<1>4. LimiterOK'
  <2>1. \A r \in Realms : DictOK(failures[r])'
    BY <1>1, <1>3 DEF LimiterOK, DictOK
  <2>2. failures' \in [Realms -> Seq(Tracked')]
    BY <1>1, <1>3 DEF LimiterOK
  <2>3. wrong' \in [Realms -> [Clients -> Seq(0..now')]]
    BY <1>1, <1>2 DEF LimiterOK
  <2>4. inflight' \in [Realms -> [Clients -> Nat]] /\ leaked' \in [Realms -> [Clients -> Nat]]
    BY <1>1 DEF LimiterOK
  <2> QED
    BY <2>1, <2>2, <2>3, <2>4 DEF LimiterOK
<1>5. /\ \A r, c : InUse(req', r, c) = InUse(req, r, c)
      /\ \A r, c : Undated(req', r, c) = Undated(req, r, c)
  BY <1>1 DEF InUse, Undated
<1>6. Slots'
  BY <1>1, <1>5 DEF Slots
<1>7. ASSUME NEW s \in Seq(0..now) PROVE Count(s, now + 1) = 0
  BY <1>1, CountFuture
<1>8. ASSUME NEW r \in Realms, NEW c \in Clients, NEW t \in Recent'
      PROVE  /\ Count(Times(failures[r], c), t) + inflight[r][c] <= LoginMax
             /\ Count(wrong[r][c], t) <= Count(Times(failures[r], c), t) + Undated(req, r, c)
  <2>1. t \in 0..(now + 1) /\ now + 1 < t + LoginWindow
    BY <1>1 DEF Recent
  <2>2. CASE t \in Recent
    BY <2>2 DEF Budget
  <2>3. CASE t \notin Recent
    <3>1. LoginWindow \in Nat \ {0} /\ LoginMax \in Nat
      BY DEF PanelAssumption
    <3>2. t = now + 1 /\ now \in Recent
      BY <1>1, <2>1, <2>3, <3>1 DEF Recent
    <3>3. Times(failures[r], c) \in Seq(0..now) /\ wrong[r][c] \in Seq(0..now)
      BY TimesAt DEF LimiterOK
    <3>4. Count(Times(failures[r], c), t) = 0 /\ Count(wrong[r][c], t) = 0
      BY <1>7, <3>2, <3>3
    <3>5. Count(Times(failures[r], c), now) \in Nat
      BY <3>3, CountType
    <3>6. Count(Times(failures[r], c), now) + inflight[r][c] <= LoginMax
      BY <3>2 DEF Budget
    <3>7. inflight[r][c] \in Nat /\ Undated(req, r, c) \in Nat
      BY SlotTypes DEF LimiterOK
    <3> QED
      BY <3>1, <3>4, <3>5, <3>6, <3>7
  <2> QED
    BY <2>2, <2>3
<1>9. Budget'
  <2> SUFFICES ASSUME NEW r \in Realms, NEW c \in Clients, NEW t \in Recent'
               PROVE  /\ Count(Times(failures'[r], c), t) + inflight'[r][c] <= LoginMax
                      /\ Count(wrong'[r][c], t) <= Count(Times(failures'[r], c), t) + Undated(req', r, c)
    BY DEF Budget
  <2> QED
    BY <1>1, <1>5, <1>8
<1> QED
  BY <1>4, <1>6, <1>9

\* A restart of the panel.
LEMMA RestartLimiter ==
  ASSUME PanelAssumption, Scalars, Restart
  PROVE  LimiterOK' /\ Slots' /\ Budget'
<1>1. /\ now' = now /\ now \in Nat
      /\ failures' = [r \in Realms |-> <<>>] /\ req' = [w \in Workers |-> Idle]
      /\ inflight' = [r \in Realms |-> [c \in Clients |-> 0]]
      /\ wrong' = [r \in Realms |-> [c \in Clients |-> <<>>]]
      /\ leaked' = [r \in Realms |-> [c \in Clients |-> 0]]
  BY DEF Restart, Scalars
<1>2. /\ \A r \in Realms : failures'[r] = <<>>
      /\ \A r \in Realms, c \in Clients : /\ inflight'[r][c] = 0 /\ leaked'[r][c] = 0
                                          /\ wrong'[r][c] = <<>>
  BY <1>1
<1>3. LoginMax \in Nat /\ MaxIps \in Nat
  BY DEF PanelAssumption
<1>4. LimiterOK'
  <2>1. \A S : <<>> \in Seq(S)
    OBVIOUS
  <2>2. \A r \in Realms : DictOK(failures[r])'
    <3>1. DOMAIN <<>> = {} /\ Len(<<>>) = 0 /\ 0 <= MaxIps /\ <<>> \in Seq(Tracked')
      BY <1>3, <2>1
    <3> QED
      BY <1>2, <3>1 DEF DictOK
  <2>3. failures' \in [Realms -> Seq(Tracked')] /\ wrong' \in [Realms -> [Clients -> Seq(0..now')]]
    BY <1>1, <2>1
  <2>4. inflight' \in [Realms -> [Clients -> Nat]] /\ leaked' \in [Realms -> [Clients -> Nat]]
    BY <1>1
  <2> QED
    BY <2>2, <2>3, <2>4 DEF LimiterOK
<1>5. /\ \A r, c : InUse(req', r, c) = 0
      /\ \A r, c : Undated(req', r, c) = 0
  <2>1. \A w \in Workers : req'[w] = Idle
    BY <1>1
  <2>2. \A r, c : /\ {w \in Workers : Holds(req'[w], r, c)} = {}
                   /\ {w \in Workers : Waits(req'[w], r, c)} = {}
    BY <2>1, IdleQuery DEF Holds, Waits
  <2> QED
    BY <2>2, FS_EmptySet DEF InUse, Undated
<1>6. Slots'
  BY <1>2, <1>5 DEF Slots
<1>7. \A c, t : Count(Times(<<>>, c), t) = 0 /\ Count(<<>>, t) = 0
  <2>1. \A c : Times(<<>>, c) = <<>>
    BY DEF Times, Places
  <2> QED
    BY <2>1, CountEmpty
<1>8. Budget'
  BY <1>2, <1>3, <1>5, <1>7 DEF Budget
<1> QED
  BY <1>4, <1>6, <1>8

-----------------------------------------------------------------------------
(* The steps of a login.                                                   *)

\* What a step of a login has to show of the limiter, address by address.
LEMMA LimiterStep ==
  ASSUME LimiterOK, now' = now,
         failures' \in [Realms -> Seq(Tracked)], \A r \in Realms : DictOK(failures'[r]),
         wrong' \in [Realms -> [Clients -> Seq(0..now)]],
         inflight' \in [Realms -> [Clients -> Nat]], leaked' \in [Realms -> [Clients -> Nat]],
         \A r \in Realms, c \in Clients : inflight'[r][c] = leaked'[r][c] + InUse(req', r, c),
         \A r \in Realms, c \in Clients : \A t \in Recent :
           /\ Count(Times(failures'[r], c), t) + inflight'[r][c] <= LoginMax
           /\ Count(wrong'[r][c], t) <= Count(Times(failures'[r], c), t) + Undated(req', r, c)
  PROVE  LimiterOK' /\ Slots' /\ Budget'
<1>1. Tracked' = Tracked /\ Recent' = Recent
  BY DictStays
<1>2. LimiterOK'
  <2>1. \A r \in Realms : DictOK(failures[r])'
    BY <1>1 DEF DictOK
  <2> QED
    BY <1>1, <2>1 DEF LimiterOK
<1>3. Slots'
  BY DEF Slots
<1>4. Budget'
  BY <1>1 DEF Budget
<1> QED
  BY <1>2, <1>3, <1>4

\* What the limiter knows of one address.
LEMMA AddressFacts ==
  ASSUME PanelAssumption, Scalars, LimiterOK, NEW r \in Realms, NEW c \in Clients
  PROVE  /\ DictOK(failures[r]) /\ Times(failures[r], c) \in Seq(0..now) /\ wrong[r][c] \in Seq(0..now)
         /\ inflight[r][c] \in Nat /\ leaked[r][c] \in Nat
         /\ InUse(req, r, c) \in Nat /\ Undated(req, r, c) \in Nat
         /\ \A t : Count(Times(failures[r], c), t) \in Nat /\ Count(wrong[r][c], t) \in Nat
<1>1. DictOK(failures[r]) /\ wrong[r][c] \in Seq(0..now) /\ inflight[r][c] \in Nat /\ leaked[r][c] \in Nat
  BY DEF LimiterOK
<1>2. Times(failures[r], c) \in Seq(0..now)
  BY <1>1, TimesAt
<1>3. \A t : Count(Times(failures[r], c), t) \in Nat /\ Count(wrong[r][c], t) \in Nat
  BY <1>1, <1>2, CountType
<1> QED
  BY <1>1, <1>2, <1>3, SlotTypes

\* What the limiter keeps for one address is replaced.
LEMMA OneAddress ==
  ASSUME NEW S, NEW f \in [Realms -> [Clients -> S]], NEW r \in Realms, NEW ip \in Clients, NEW v \in S
  PROVE  /\ [f EXCEPT ![r][ip] = v] \in [Realms -> [Clients -> S]]
         /\ \A s \in Realms, c \in Clients :
              [f EXCEPT ![r][ip] = v][s][c] = IF s = r /\ c = ip THEN v ELSE f[s][c]
<1> DEFINE m == [f[r] EXCEPT ![ip] = v]
           g == [f EXCEPT ![r] = m]
<1>1. m \in [Clients -> S] /\ \A c \in Clients : m[c] = IF c = ip THEN v ELSE f[r][c]
  OBVIOUS
<1>2. [f EXCEPT ![r][ip] = v] = g
  OBVIOUS
<1> HIDE DEF m
<1>3. g \in [Realms -> [Clients -> S]] /\ \A s \in Realms : g[s] = IF s = r THEN m ELSE f[s]
  BY <1>1
<1> HIDE DEF g
<1>4. \A s \in Realms, c \in Clients : g[s][c] = IF s = r /\ c = ip THEN v ELSE f[s][c]
  BY <1>1, <1>3
<1> QED
  BY <1>2, <1>3, <1>4

\* A slot is asked for.
LEMMA BeginLimiter ==
  ASSUME PanelAssumption, Scalars, RequestsOK, LimiterOK, Slots, Budget,
         NEW w \in Workers, BeginLoginAttempt(w)
  PROVE  LimiterOK' /\ Slots' /\ Budget'
<1> DEFINE r == Realm(req[w].user)
           ip == req[w].ip
           dict == Prune(failures[r], ip)
<1>1. /\ req[w].pc = "arrived" /\ now' = now /\ wrong' = wrong /\ leaked' = leaked
      /\ failures' = [failures EXCEPT ![r] = dict] /\ now \in Nat
  BY DEF BeginLoginAttempt, Scalars
<1>2. r \in Realms /\ ip \in Clients /\ req[w].user \in Accounts
  BY <1>1, BeginQuery, RealmFacts
<1>3. /\ DictOK(dict)
      /\ \A c : Times(dict, c) = IF c = ip THEN Fresh(Times(failures[r], ip)) ELSE Times(failures[r], c)
  BY <1>1, <1>2, AddressFacts, PruneOK
<1>4. LoginWindow \in Nat /\ LoginMax \in Nat
  BY DEF PanelAssumption
<1> HIDE DEF dict
<1>5. /\ failures' \in [Realms -> Seq(Tracked)] /\ failures'[r] = dict
      /\ \A s \in Realms : s # r => failures'[s] = failures[s]
  BY <1>1, <1>2, <1>3 DEF LimiterOK, DictOK
<1>6. \A s \in Realms : DictOK(failures'[s])
  BY <1>3, <1>5 DEF LimiterOK
<1>7. ASSUME NEW s \in Realms, NEW c \in Clients, NEW t \in Recent
      PROVE  Count(Times(failures'[s], c), t) = Count(Times(failures[s], c), t)
  <2>1. CASE s = r /\ c = ip
    <3>1. Times(failures[r], ip) \in Seq(0..now)
      BY <1>2, AddressFacts
    <3>2. Count(Fresh(Times(failures[r], ip)), t) = Count(Times(failures[r], ip), t)
      BY <1>1, <1>4, <3>1, FreshFacts
    <3>3. Times(failures'[s], c) = Fresh(Times(failures[r], ip))
      BY <1>3, <1>5, <2>1
    <3> QED
      BY <2>1, <3>2, <3>3
  <2>2. CASE ~ (s = r /\ c = ip)
    <3>1. Times(failures'[s], c) = Times(failures[s], c)
      BY <1>3, <1>5, <2>2
    <3> QED
      BY <3>1
  <2> QED
    BY <2>1, <2>2
<1>8. CASE Len(Times(dict, ip)) + inflight[r][ip] >= LoginMax
  <2>1. req' = [req EXCEPT ![w] = Idle] /\ inflight' = inflight
    BY <1>8 DEF BeginLoginAttempt, dict, Done
  <2>2. req'[w] = Idle /\ \A x \in Workers : x # w => req'[x] = req[x]
    BY <2>1 DEF RequestsOK
  <2>3. ASSUME NEW s \in Realms, NEW c \in Clients
        PROVE  InUse(req', s, c) = InUse(req, s, c) /\ Undated(req', s, c) = Undated(req, s, c)
    <3>1. /\ ~ Holds(req'[w], s, c) /\ ~ Holds(req[w], s, c)
          /\ ~ Waits(req'[w], s, c) /\ ~ Waits(req[w], s, c)
      BY <1>1, <2>2, IdleQuery DEF Holds, Waits
    <3>2. InUse(req', s, c) = InUse(req, s, c)
      BY <2>2, <3>1, SlotKept
    <3>3. Undated(req', s, c) = Undated(req, s, c)
      BY <2>2, <3>1, WaitKept
    <3> QED
      BY <3>2, <3>3
  <2>4. \A s \in Realms, c \in Clients : inflight'[s][c] = leaked'[s][c] + InUse(req', s, c)
    BY <1>1, <2>1, <2>3 DEF Slots
  <2>5. \A s \in Realms, c \in Clients : \A t \in Recent :
          /\ Count(Times(failures'[s], c), t) + inflight'[s][c] <= LoginMax
          /\ Count(wrong'[s][c], t) <= Count(Times(failures'[s], c), t) + Undated(req', s, c)
    BY <1>1, <1>7, <2>1, <2>3 DEF Budget
  <2>6. /\ wrong' \in [Realms -> [Clients -> Seq(0..now)]] /\ inflight' \in [Realms -> [Clients -> Nat]]
        /\ leaked' \in [Realms -> [Clients -> Nat]]
    BY <1>1, <2>1 DEF LimiterOK
  <2> QED
    BY <1>1, <1>5, <1>6, <2>4, <2>5, <2>6, LimiterStep
<1>9. CASE ~ (Len(Times(dict, ip)) + inflight[r][ip] >= LoginMax)
  <2> DEFINE b == [req[w] EXCEPT !.pc = "begun"]
  <2>1. req' = [req EXCEPT ![w].pc = "begun"] /\ inflight' = [inflight EXCEPT ![r][ip] = @ + 1]
    BY <1>9 DEF BeginLoginAttempt, dict
  <2>2. b.pc = "begun" /\ b.user = req[w].user /\ b.ip = ip
    BY <1>1, BeginQuery
  <2>3. req'[w] = b /\ \A x \in Workers : x # w => req'[x] = req[x]
    BY <2>1 DEF RequestsOK
  <2> HIDE DEF b
  <2>4. /\ inflight' \in [Realms -> [Clients -> Nat]]
        /\ \A s \in Realms, c \in Clients :
             inflight'[s][c] = IF s = r /\ c = ip THEN inflight[r][ip] + 1 ELSE inflight[s][c]
    <3>1. inflight \in [Realms -> [Clients -> Nat]] /\ inflight[r][ip] + 1 \in Nat
      <4>1. inflight[r][ip] \in Nat
        BY <1>2, AddressFacts
      <4> QED
        BY <4>1, SMTT(30) DEF LimiterOK
    <3>2. inflight' = [inflight EXCEPT ![r][ip] = inflight[r][ip] + 1]
      BY <2>1
    <3> QED
      BY <1>2, <3>1, <3>2, OneAddress
  <2>5. ASSUME NEW s \in Realms, NEW c \in Clients
        PROVE  /\ s = r /\ c = ip => InUse(req', s, c) = InUse(req, s, c) + 1
               /\ ~ (s = r /\ c = ip) => InUse(req', s, c) = InUse(req, s, c)
               /\ Undated(req', s, c) = Undated(req, s, c)
    <3>1. /\ Holds(req'[w], s, c) <=> s = r /\ c = ip
          /\ ~ Holds(req[w], s, c) /\ ~ Waits(req'[w], s, c) /\ ~ Waits(req[w], s, c)
      BY <1>1, <2>2, <2>3 DEF Holds, Waits
    <3>2. ASSUME s = r /\ c = ip PROVE InUse(req', s, c) = InUse(req, s, c) + 1
      BY <2>3, <3>1, <3>2, SlotTaken, SMTT(30)
    <3>3. ASSUME ~ (s = r /\ c = ip) PROVE InUse(req', s, c) = InUse(req, s, c)
      BY <2>3, <3>1, <3>3, SlotKept
    <3>4. Undated(req', s, c) = Undated(req, s, c)
      BY <2>3, <3>1, WaitKept, SMTT(30)
    <3> QED
      BY <3>2, <3>3, <3>4
  <2>6. ASSUME NEW s \in Realms, NEW c \in Clients
        PROVE  inflight'[s][c] = leaked'[s][c] + InUse(req', s, c)
    <3>1. inflight[s][c] = leaked[s][c] + InUse(req, s, c)
      BY DEF Slots
    <3>2. inflight[s][c] \in Nat /\ leaked[s][c] \in Nat /\ InUse(req, s, c) \in Nat
      BY AddressFacts
    <3>3. CASE s = r /\ c = ip
      BY <1>1, <2>4, <2>5, <3>1, <3>2, <3>3
    <3>4. CASE ~ (s = r /\ c = ip)
      BY <1>1, <2>4, <2>5, <3>1, <3>4
    <3> QED
      BY <3>3, <3>4
  <2>7. ASSUME NEW s \in Realms, NEW c \in Clients, NEW t \in Recent
        PROVE  /\ Count(Times(failures'[s], c), t) + inflight'[s][c] <= LoginMax
               /\ Count(wrong'[s][c], t) <= Count(Times(failures'[s], c), t) + Undated(req', s, c)
    <3>1. /\ Count(Times(failures[s], c), t) + inflight[s][c] <= LoginMax
          /\ Count(wrong[s][c], t) <= Count(Times(failures[s], c), t) + Undated(req, s, c)
      BY DEF Budget
    <3>2. Count(Times(failures'[s], c), t) = Count(Times(failures[s], c), t)
      BY <1>7
    <3>3. CASE s = r /\ c = ip
      <4>1. /\ Count(Times(dict, ip), t) <= Len(Times(dict, ip)) /\ Len(Times(dict, ip)) \in Nat
            /\ Count(Times(dict, ip), t) \in Nat
        <5>1. Times(dict, ip) \in Seq(0..now)
          BY <1>3, TimesAt
        <5> QED
          BY <5>1, CountType
      <4>2. inflight[s][c] \in Nat /\ inflight'[s][c] = inflight[s][c] + 1 /\ Times(failures'[s], c) = Times(dict, ip)
        BY <1>5, <2>4, <3>3, AddressFacts
      <4>3. Count(Times(failures'[s], c), t) + inflight'[s][c] <= LoginMax
        BY <1>4, <1>9, <3>3, <4>1, <4>2, SMTT(30)
      <4> QED
        BY <1>1, <2>5, <3>1, <3>2, <4>3
    <3>4. CASE ~ (s = r /\ c = ip)
      BY <1>1, <2>4, <2>5, <3>1, <3>2, <3>4
    <3> QED
      BY <3>3, <3>4
  <2>8. wrong' \in [Realms -> [Clients -> Seq(0..now)]] /\ leaked' \in [Realms -> [Clients -> Nat]]
    BY <1>1 DEF LimiterOK
  <2> QED
    BY <1>1, <1>5, <1>6, <2>4, <2>6, <2>7, <2>8, LimiterStep
<1> QED
  BY <1>8, <1>9

\* A password is verified.
LEMMA VerifyLimiter ==
  ASSUME PanelAssumption, Scalars, RequestsOK, LimiterOK, Slots, Budget,
         NEW w \in Workers, VerifyLogin(w)
  PROVE  LimiterOK' /\ Slots' /\ Budget'
<1> DEFINE r == Realm(req[w].user)
           ip == req[w].ip
<1>1. /\ now' = now /\ failures' = failures /\ inflight' = inflight /\ leaked' = leaked /\ now \in Nat
  BY DEF VerifyLogin, Scalars
<1>2. PICK q \in Queries :
           /\ req' = [req EXCEPT ![w] = q]
           /\ q.pc = "verified" /\ q.user = req[w].user /\ q.ip = req[w].ip /\ q.client = req[w].client
           /\ req[w].pc = "begun" /\ req[w].ip = req[w].client
           /\ req[w].user \in Accounts /\ req[w].ip \in Clients
           /\ wrong' = IF q.ok = "no"
                       THEN [wrong EXCEPT ![Realm(req[w].user)][req[w].client] = Append(Fresh(@), now)]
                       ELSE wrong
  BY VerifyQuery
<1>3. /\ q.pc = "verified" /\ q.user = req[w].user /\ q.ip = ip /\ q.client = ip
      /\ req[w].pc = "begun" /\ r \in Realms /\ ip \in Clients
  BY <1>2, RealmFacts
<1>4. req'[w] = q /\ \A x \in Workers : x # w => req'[x] = req[x]
  BY <1>2 DEF RequestsOK
<1>5. LoginWindow \in Nat /\ LoginMax \in Nat
  BY DEF PanelAssumption
<1>6. ASSUME NEW s \in Realms, NEW c \in Clients
      PROVE  /\ InUse(req', s, c) = InUse(req, s, c)
             /\ q.ok = "no" /\ s = r /\ c = ip => Undated(req', s, c) = Undated(req, s, c) + 1
             /\ ~ (q.ok = "no" /\ s = r /\ c = ip) => Undated(req', s, c) = Undated(req, s, c)
  <2>1. /\ Holds(req'[w], s, c) <=> Holds(req[w], s, c)
        /\ ~ Waits(req[w], s, c)
        /\ Waits(req'[w], s, c) <=> q.ok = "no" /\ s = r /\ c = ip
    BY <1>3, <1>4 DEF Holds, Waits
  <2>2. InUse(req', s, c) = InUse(req, s, c)
    BY <1>4, <2>1, SlotKept
  <2>3. ASSUME q.ok = "no" /\ s = r /\ c = ip PROVE Undated(req', s, c) = Undated(req, s, c) + 1
    BY <1>4, <2>1, <2>3, WaitTaken
  <2>4. ASSUME ~ (q.ok = "no" /\ s = r /\ c = ip) PROVE Undated(req', s, c) = Undated(req, s, c)
    <3>1. ~ Waits(req'[w], s, c) /\ ~ Waits(req[w], s, c)
      BY <2>1, <2>4
    <3> QED
      BY <1>4, <3>1, WaitKept
  <2> QED
    BY <2>2, <2>3, <2>4
<1> DEFINE old == Fresh(wrong[r][ip])
           new == Append(old, now)
<1>7. /\ new \in Seq(0..now)
      /\ \A t \in Recent : Count(new, t) = Count(wrong[r][ip], t) + 1
  <2>1. wrong[r][ip] \in Seq(0..now)
    BY <1>3, AddressFacts
  <2>2. old \in Seq(0..now) /\ \A t \in Recent : Count(old, t) = Count(wrong[r][ip], t)
    BY <1>1, <1>5, <2>1, FreshFacts
  <2> HIDE DEF old
  <2>3. \A t \in Recent : t \in 0..now
    BY DEF Recent
  <2>4. \A t \in Recent : Count(new, t) = Count(old, t) + 1
    BY <1>1, <2>2, <2>3, CountAppend
  <2>5. new \in Seq(0..now)
    BY <1>1, <2>2
  <2> QED
    BY <2>2, <2>4, <2>5
<1>8. /\ wrong' \in [Realms -> [Clients -> Seq(0..now)]]
      /\ \A s \in Realms, c \in Clients :
           wrong'[s][c] = IF q.ok = "no" /\ s = r /\ c = ip THEN new ELSE wrong[s][c]
  <2>1. CASE q.ok = "no"
    <3>1. wrong' = [wrong EXCEPT ![r][ip] = new]
      BY <1>2, <2>1
    <3> HIDE DEF new
    <3>2. wrong \in [Realms -> [Clients -> Seq(0..now)]]
      BY DEF LimiterOK
    <3> QED
      BY <1>3, <1>7, <2>1, <3>1, <3>2, OneAddress
  <2>2. CASE q.ok # "no"
    <3>1. wrong' = wrong
      BY <1>2, <2>2
    <3> QED
      BY <2>2, <3>1 DEF LimiterOK
  <2> QED
    BY <2>1, <2>2
<1> HIDE DEF new, old
<1>9. ASSUME NEW s \in Realms, NEW c \in Clients
      PROVE  inflight'[s][c] = leaked'[s][c] + InUse(req', s, c)
  BY <1>1, <1>6 DEF Slots
<1>10. ASSUME NEW s \in Realms, NEW c \in Clients, NEW t \in Recent
       PROVE  /\ Count(Times(failures'[s], c), t) + inflight'[s][c] <= LoginMax
              /\ Count(wrong'[s][c], t) <= Count(Times(failures'[s], c), t) + Undated(req', s, c)
  <2>1. /\ Count(Times(failures[s], c), t) + inflight[s][c] <= LoginMax
        /\ Count(wrong[s][c], t) <= Count(Times(failures[s], c), t) + Undated(req, s, c)
    BY DEF Budget
  <2>2. CASE q.ok = "no" /\ s = r /\ c = ip
    <3>1. Count(wrong'[s][c], t) = Count(wrong[s][c], t) + 1
      BY <1>7, <1>8, <2>2
    <3>2. Undated(req', s, c) = Undated(req, s, c) + 1
      BY <1>6, <2>2
    <3>3. /\ Count(wrong[s][c], t) \in Nat /\ Count(Times(failures[s], c), t) \in Nat
          /\ Undated(req, s, c) \in Nat
      BY AddressFacts
    <3> QED
      BY <1>1, <2>1, <3>1, <3>2, <3>3
  <2>3. CASE ~ (q.ok = "no" /\ s = r /\ c = ip)
    BY <1>1, <1>6, <1>8, <2>1, <2>3
  <2> QED
    BY <2>2, <2>3
<1>11. /\ failures' \in [Realms -> Seq(Tracked)] /\ \A s \in Realms : DictOK(failures'[s])
       /\ inflight' \in [Realms -> [Clients -> Nat]] /\ leaked' \in [Realms -> [Clients -> Nat]]
  BY <1>1 DEF LimiterOK
<1>12. \A s \in Realms, c \in Clients : inflight'[s][c] = leaked'[s][c] + InUse(req', s, c)
  BY <1>9
<1>13. \A s \in Realms, c \in Clients : \A t \in Recent :
              /\ Count(Times(failures'[s], c), t) + inflight'[s][c] <= LoginMax
              /\ Count(wrong'[s][c], t) <= Count(Times(failures'[s], c), t) + Undated(req', s, c)
  BY <1>10
<1> QED
  BY <1>1, <1>8, <1>11, <1>12, <1>13, LimiterStep

\* The accounts cannot be read: the slot stays with the address.
LEMMA ReadFailsLimiter ==
  ASSUME PanelAssumption, Scalars, RequestsOK, LimiterOK, Slots, Budget,
         NEW w \in Workers, UserReadFails(w)
  PROVE  LimiterOK' /\ Slots' /\ Budget'
<1> DEFINE r == "user"
           ip == req[w].ip
<1>1. /\ now' = now /\ failures' = failures /\ inflight' = inflight /\ wrong' = wrong
      /\ leaked' = [leaked EXCEPT ![r][ip] = leaked[r][ip] + 1] /\ req' = [req EXCEPT ![w] = Idle]
      /\ req[w].pc = "begun" /\ req[w].user # Admin
  BY DEF UserReadFails, Done
<1>2. req[w] \in Attempt
  BY <1>1, Kinds DEF RequestsOK
<1>3. r \in Realms /\ ip \in Clients /\ Realm(req[w].user) = r
  BY <1>1, <1>2, RealmFacts DEF Attempt, Realms, Realm
<1>4. req'[w] = Idle /\ \A x \in Workers : x # w => req'[x] = req[x]
  BY <1>1 DEF RequestsOK
<1>5. /\ leaked' \in [Realms -> [Clients -> Nat]]
      /\ \A s \in Realms, c \in Clients :
           leaked'[s][c] = IF s = r /\ c = ip THEN leaked[r][ip] + 1 ELSE leaked[s][c]
  <2>1. leaked \in [Realms -> [Clients -> Nat]] /\ leaked[r][ip] + 1 \in Nat
    <3>1. leaked[r][ip] \in Nat
      BY <1>3, AddressFacts
    <3> QED
      BY <3>1, SMTT(30) DEF LimiterOK
  <2> QED
    BY <1>1, <1>3, <2>1, OneAddress
<1>6. ASSUME NEW s \in Realms, NEW c \in Clients
      PROVE  /\ s = r /\ c = ip => InUse(req', s, c) = InUse(req, s, c) - 1
             /\ ~ (s = r /\ c = ip) => InUse(req', s, c) = InUse(req, s, c)
             /\ Undated(req', s, c) = Undated(req, s, c)
  <2>1. /\ Holds(req[w], s, c) <=> s = r /\ c = ip
        /\ ~ Holds(req'[w], s, c) /\ ~ Waits(req'[w], s, c) /\ ~ Waits(req[w], s, c)
    BY <1>1, <1>3, <1>4, IdleQuery DEF Holds, Waits
  <2>2. ASSUME s = r /\ c = ip PROVE InUse(req', s, c) = InUse(req, s, c) - 1
    BY <1>4, <2>1, <2>2, SlotGiven
  <2>3. ASSUME ~ (s = r /\ c = ip) PROVE InUse(req', s, c) = InUse(req, s, c)
    BY <1>4, <2>1, <2>3, SlotKept
  <2>4. Undated(req', s, c) = Undated(req, s, c)
    BY <1>4, <2>1, WaitKept
  <2> QED
    BY <2>2, <2>3, <2>4
<1>7. ASSUME NEW s \in Realms, NEW c \in Clients
      PROVE  inflight'[s][c] = leaked'[s][c] + InUse(req', s, c)
  <2>1. inflight[s][c] = leaked[s][c] + InUse(req, s, c)
    BY DEF Slots
  <2>2. inflight[s][c] \in Nat /\ leaked[s][c] \in Nat /\ InUse(req, s, c) \in Nat
    BY AddressFacts
  <2>3. CASE s = r /\ c = ip
    <3>1. leaked'[s][c] = leaked[s][c] + 1 /\ InUse(req', s, c) = InUse(req, s, c) - 1 /\ inflight'[s][c] = inflight[s][c]
      BY <1>1, <1>5, <1>6, <2>3
    <3> QED
      BY <2>1, <2>2, <3>1
  <2>4. CASE ~ (s = r /\ c = ip)
    BY <1>1, <1>5, <1>6, <2>1, <2>4
  <2> QED
    BY <2>3, <2>4
<1>8. ASSUME NEW s \in Realms, NEW c \in Clients, NEW t \in Recent
       PROVE  /\ Count(Times(failures'[s], c), t) + inflight'[s][c] <= LoginMax
              /\ Count(wrong'[s][c], t) <= Count(Times(failures'[s], c), t) + Undated(req', s, c)
  BY <1>1, <1>6 DEF Budget
<1>9. /\ failures' \in [Realms -> Seq(Tracked)] /\ \A s \in Realms : DictOK(failures'[s])
      /\ inflight' \in [Realms -> [Clients -> Nat]] /\ wrong' \in [Realms -> [Clients -> Seq(0..now)]]
  BY <1>1 DEF LimiterOK
<1>10. \A s \in Realms, c \in Clients : inflight'[s][c] = leaked'[s][c] + InUse(req', s, c)
  BY <1>7
<1>11. \A s \in Realms, c \in Clients : \A t \in Recent :
              /\ Count(Times(failures'[s], c), t) + inflight'[s][c] <= LoginMax
              /\ Count(wrong'[s][c], t) <= Count(Times(failures'[s], c), t) + Undated(req', s, c)
  BY <1>8
<1>12. now' = now
  BY <1>1
<1> QED
  BY <1>5, <1>9, <1>10, <1>11, <1>12, LimiterStep

\* The dictionary of one panel is replaced.
LEMMA OneRealm ==
  ASSUME LimiterOK, NEW r \in Realms, NEW dict, DictOK(dict), failures' = [failures EXCEPT ![r] = dict]
  PROVE  /\ failures' \in [Realms -> Seq(Tracked)] /\ \A s \in Realms : DictOK(failures'[s])
         /\ failures'[r] = dict /\ \A s \in Realms : s # r => failures'[s] = failures[s]
<1>1. dict \in Seq(Tracked)
  BY DEF DictOK
<1> QED
  BY <1>1 DEF LimiterOK

\* What a finished attempt leaves of the failures and of the history: in every case
\* at most one failure more, and every wrong verification accounted for.
Settled(r, ip) ==
  /\ failures' \in [Realms -> Seq(Tracked)] /\ \A s \in Realms : DictOK(failures'[s])
  /\ wrong' \in [Realms -> [Clients -> Seq(0..now)]]
  /\ \A s \in Realms, c \in Clients : \A t \in Recent :
       /\ Count(Times(failures'[s], c), t)
            <= Count(Times(failures[s], c), t) + (IF s = r /\ c = ip THEN 1 ELSE 0)
       /\ Count(wrong'[s][c], t) <= Count(Times(failures'[s], c), t) + Undated(req', s, c)

\* A right password forgives the address.
LEMMA SettledYes ==
  ASSUME PanelAssumption, Scalars, LimiterOK, Budget, NEW r \in Realms, NEW ip \in Clients,
         failures' = [failures EXCEPT ![r] = Without(failures[r], ip)],
         wrong' = [wrong EXCEPT ![r][ip] = <<>>],
         \A s \in Realms, c \in Clients : Undated(req', s, c) = Undated(req, s, c)
  PROVE  Settled(r, ip)
<1> DEFINE dict == Without(failures[r], ip)
<1>1. /\ DictOK(dict)
      /\ \A c : Times(dict, c) = IF c = ip THEN <<>> ELSE Times(failures[r], c)
  <2>1. DictOK(failures[r]) /\ MaxIps \in Nat
    BY AddressFacts DEF PanelAssumption
  <2> QED
    BY <2>1, WithoutOK
<1>2. failures' = [failures EXCEPT ![r] = dict]
  OBVIOUS
<1> HIDE DEF dict
<1>3. /\ failures' \in [Realms -> Seq(Tracked)] /\ \A s \in Realms : DictOK(failures'[s])
      /\ failures'[r] = dict /\ \A s \in Realms : s # r => failures'[s] = failures[s]
  BY <1>1, <1>2, OneRealm
<1>4. /\ wrong' \in [Realms -> [Clients -> Seq(0..now)]]
      /\ \A s \in Realms, c \in Clients : wrong'[s][c] = IF s = r /\ c = ip THEN <<>> ELSE wrong[s][c]
  <2>1. wrong \in [Realms -> [Clients -> Seq(0..now)]] /\ <<>> \in Seq(0..now)
    BY DEF LimiterOK
  <2> DEFINE e == <<>>
  <2>2. wrong' = [wrong EXCEPT ![r][ip] = e] /\ e \in Seq(0..now)
    BY <2>1
  <2> HIDE DEF e
  <2>3. /\ wrong' \in [Realms -> [Clients -> Seq(0..now)]]
        /\ \A s \in Realms, c \in Clients : wrong'[s][c] = IF s = r /\ c = ip THEN e ELSE wrong[s][c]
    BY <2>1, <2>2, OneAddress
  <2> QED
    BY <2>3 DEF e
<1>5. ASSUME NEW s \in Realms, NEW c \in Clients, NEW t \in Recent
      PROVE  /\ Count(Times(failures'[s], c), t)
                  <= Count(Times(failures[s], c), t) + (IF s = r /\ c = ip THEN 1 ELSE 0)
             /\ Count(wrong'[s][c], t) <= Count(Times(failures'[s], c), t) + Undated(req', s, c)
  <2>1. /\ Count(Times(failures[s], c), t) \in Nat /\ Undated(req', s, c) \in Nat
        /\ Undated(req', s, c) = Undated(req, s, c)
    BY AddressFacts
  <2>2. CASE s = r /\ c = ip
    <3>1. Count(Times(failures'[s], c), t) = 0 /\ Count(wrong'[s][c], t) = 0
      BY <1>1, <1>3, <1>4, <2>2, CountEmpty
    <3> QED
      BY <2>1, <2>2, <3>1
  <2>3. CASE ~ (s = r /\ c = ip)
    <3>1. Times(failures'[s], c) = Times(failures[s], c) /\ wrong'[s][c] = wrong[s][c]
      BY <1>1, <1>3, <1>4, <2>3
    <3>2. Count(wrong[s][c], t) <= Count(Times(failures[s], c), t) + Undated(req, s, c)
      BY DEF Budget
    <3> QED
      BY <2>1, <2>3, <3>1, <3>2
  <2> QED
    BY <2>2, <2>3
<1> QED
  BY <1>3, <1>4, <1>5 DEF Settled

\* A disabled account changes nothing.
LEMMA SettledBlocked ==
  ASSUME PanelAssumption, Scalars, LimiterOK, Budget, NEW r \in Realms, NEW ip \in Clients,
         failures' = failures, wrong' = wrong,
         \A s \in Realms, c \in Clients : Undated(req', s, c) = Undated(req, s, c)
  PROVE  Settled(r, ip)
<1>1. ASSUME NEW s \in Realms, NEW c \in Clients, NEW t \in Recent
      PROVE  /\ Count(Times(failures'[s], c), t)
                  <= Count(Times(failures[s], c), t) + (IF s = r /\ c = ip THEN 1 ELSE 0)
             /\ Count(wrong'[s][c], t) <= Count(Times(failures'[s], c), t) + Undated(req', s, c)
  <2>1. Count(Times(failures[s], c), t) \in Nat /\ Undated(req', s, c) = Undated(req, s, c)
    BY AddressFacts
  <2>2. Count(wrong[s][c], t) <= Count(Times(failures[s], c), t) + Undated(req, s, c)
    BY DEF Budget
  <2> QED
    BY <2>1, <2>2
<1>2. /\ failures' \in [Realms -> Seq(Tracked)] /\ \A s \in Realms : DictOK(failures'[s])
      /\ wrong' \in [Realms -> [Clients -> Seq(0..now)]]
  BY DEF LimiterOK
<1> QED
  BY <1>1, <1>2 DEF Settled

\* A wrong password is dated, and the address that makes room is forgotten.
LEMMA SettledNo ==
  ASSUME PanelAssumption, Scalars, LimiterOK, Budget, NEW r \in Realms, NEW ip \in Clients,
         failures' = [failures EXCEPT ![r] = RecordFailure(failures[r], ip)],
         wrong' = [wrong EXCEPT ![r] = [c \in Clients |-> IF c \in Evicted(failures[r], ip) THEN <<>>
                                                          ELSE wrong[r][c]]],
         \A s \in Realms, c \in Clients :
           /\ s = r /\ c = ip => Undated(req', s, c) = Undated(req, s, c) - 1
           /\ ~ (s = r /\ c = ip) => Undated(req', s, c) = Undated(req, s, c)
  PROVE  Settled(r, ip)
<1> DEFINE dict == RecordFailure(failures[r], ip)
           gone == Evicted(failures[r], ip)
           hist == [c \in Clients |-> IF c \in gone THEN <<>> ELSE wrong[r][c]]
<1>1. /\ DictOK(dict) /\ ip \notin gone
      /\ \A c : Times(dict, c) = IF c = ip THEN Append(Times(failures[r], ip), now)
                                 ELSE IF c \in gone THEN <<>> ELSE Times(failures[r], c)
  <2>1. DictOK(failures[r]) /\ now \in Nat
    BY AddressFacts DEF Scalars
  <2> QED
    BY <2>1, RecordOK
<1>2. failures' = [failures EXCEPT ![r] = dict] /\ wrong' = [wrong EXCEPT ![r] = hist]
  OBVIOUS
<1> HIDE DEF dict, gone
<1>3. /\ failures' \in [Realms -> Seq(Tracked)] /\ \A s \in Realms : DictOK(failures'[s])
      /\ failures'[r] = dict /\ \A s \in Realms : s # r => failures'[s] = failures[s]
  BY <1>1, <1>2, OneRealm
<1>4. hist \in [Clients -> Seq(0..now)] /\ \A c \in Clients : hist[c] = IF c \in gone THEN <<>> ELSE wrong[r][c]
  <2>1. <<>> \in Seq(0..now) /\ \A c \in Clients : wrong[r][c] \in Seq(0..now)
    BY AddressFacts
  <2> DEFINE e == <<>>
  <2>2. /\ hist = [c \in Clients |-> IF c \in gone THEN e ELSE wrong[r][c]]
        /\ e \in Seq(0..now)
    BY <2>1
  <2> HIDE DEF e
  <2> QED
    BY <2>1, <2>2 DEF e
<1> HIDE DEF hist
<1>5. /\ wrong' \in [Realms -> [Clients -> Seq(0..now)]] /\ wrong'[r] = hist
      /\ \A s \in Realms : s # r => wrong'[s] = wrong[s]
  BY <1>2, <1>4, SMTT(30) DEF LimiterOK
<1>6. ASSUME NEW s \in Realms, NEW c \in Clients, NEW t \in Recent
      PROVE  /\ Count(Times(failures'[s], c), t)
                  <= Count(Times(failures[s], c), t) + (IF s = r /\ c = ip THEN 1 ELSE 0)
             /\ Count(wrong'[s][c], t) <= Count(Times(failures'[s], c), t) + Undated(req', s, c)
  <2>1. /\ Count(Times(failures[s], c), t) \in Nat /\ Count(wrong[s][c], t) \in Nat
        /\ Undated(req', s, c) \in Nat /\ Undated(req, s, c) \in Nat
    BY AddressFacts, SlotTypes
  <2>2. Count(wrong[s][c], t) <= Count(Times(failures[s], c), t) + Undated(req, s, c)
    BY DEF Budget
  <2>3. CASE s = r /\ c = ip
    <3>1. now \in Nat /\ Times(failures[r], ip) \in Seq(0..now) /\ t \in 0..now
      BY AddressFacts DEF Scalars, Recent
    <3>2. Count(Append(Times(failures[r], ip), now), t) = Count(Times(failures[r], ip), t) + 1
      BY <3>1, CountAppend
    <3>3. Count(Times(failures'[s], c), t) = Count(Times(failures[s], c), t) + 1
      BY <1>1, <1>3, <2>3, <3>2
    <3>4. wrong'[s][c] = wrong[s][c] /\ Undated(req', s, c) = Undated(req, s, c) - 1
      BY <1>1, <1>4, <1>5, <2>3
    <3> QED
      BY <2>1, <2>2, <2>3, <3>3, <3>4, SMTT(30)
  <2>4. CASE s = r /\ c # ip /\ c \in gone
    <3>1. Count(Times(failures'[s], c), t) = 0 /\ Count(wrong'[s][c], t) = 0
      BY <1>1, <1>3, <1>4, <1>5, <2>4, CountEmpty
    <3> QED
      BY <2>1, <2>4, <3>1
  <2>5. CASE s # r \/ (c # ip /\ c \notin gone)
    <3>1. /\ Times(failures'[s], c) = Times(failures[s], c) /\ wrong'[s][c] = wrong[s][c]
          /\ Undated(req', s, c) = Undated(req, s, c)
      BY <1>1, <1>3, <1>4, <1>5, <2>5
    <3> QED
      BY <2>1, <2>2, <2>5, <3>1
  <2> QED
    BY <2>3, <2>4, <2>5
<1> QED
  BY <1>3, <1>5, <1>6 DEF Settled

\* An attempt ends and gives its slot back.
LEMMA FinishLimiter ==
  ASSUME PanelAssumption, Scalars, RequestsOK, LimiterOK, Slots, Budget,
         NEW w \in Workers, FinishLoginAttempt(w)
  PROVE  LimiterOK' /\ Slots' /\ Budget'
<1> DEFINE r == Realm(req[w].user)
           ip == req[w].ip
           ok == req[w].ok
<1>1. /\ now' = now /\ leaked' = leaked
      /\ inflight' = [inflight EXCEPT ![r][ip] = IF inflight[r][ip] = 0 THEN 0 ELSE inflight[r][ip] - 1]
  BY DEF FinishLoginAttempt
<1>2. PICK q \in Queries :
           /\ req' = [req EXCEPT ![w] = q] /\ q.pc \in {"minting", "idle"}
           /\ req[w].pc = "verified" /\ req[w].ip = req[w].client
           /\ req[w].user \in Accounts /\ req[w].ip \in Clients
           /\ req[w].ok \in {"yes", "no", "blocked"}
  BY FinishQuery
<1>3. /\ req[w].pc = "verified" /\ req[w].client = ip /\ r \in Realms /\ ip \in Clients
      /\ ok \in {"yes", "no", "blocked"} /\ q.pc \in {"minting", "idle"}
  BY <1>2, RealmFacts
<1>4. req'[w] = q /\ \A x \in Workers : x # w => req'[x] = req[x]
  BY <1>2 DEF RequestsOK
<1>5. ASSUME NEW s \in Realms, NEW c \in Clients
      PROVE  /\ s = r /\ c = ip => InUse(req', s, c) = InUse(req, s, c) - 1
             /\ ~ (s = r /\ c = ip) => InUse(req', s, c) = InUse(req, s, c)
             /\ ok = "no" /\ s = r /\ c = ip => Undated(req', s, c) = Undated(req, s, c) - 1
             /\ ~ (ok = "no" /\ s = r /\ c = ip) => Undated(req', s, c) = Undated(req, s, c)
  <2>1. /\ Holds(req[w], s, c) <=> s = r /\ c = ip
        /\ ~ Holds(req'[w], s, c) /\ ~ Waits(req'[w], s, c)
        /\ Waits(req[w], s, c) <=> ok = "no" /\ s = r /\ c = ip
    BY <1>3, <1>4 DEF Holds, Waits
  <2>2. ASSUME s = r /\ c = ip PROVE InUse(req', s, c) = InUse(req, s, c) - 1
    BY <1>4, <2>1, <2>2, SlotGiven
  <2>3. ASSUME ~ (s = r /\ c = ip) PROVE InUse(req', s, c) = InUse(req, s, c)
    <3>1. ~ Holds(req[w], s, c) /\ ~ Holds(req'[w], s, c)
      BY <2>1, <2>3
    <3> QED
      BY <1>4, <3>1, SlotKept
  <2>4. ASSUME ok = "no" /\ s = r /\ c = ip PROVE Undated(req', s, c) = Undated(req, s, c) - 1
    BY <1>4, <2>1, <2>4, WaitGiven
  <2>5. ASSUME ~ (ok = "no" /\ s = r /\ c = ip) PROVE Undated(req', s, c) = Undated(req, s, c)
    <3>1. ~ Waits(req[w], s, c) /\ ~ Waits(req'[w], s, c)
      BY <2>1, <2>5
    <3> QED
      BY <1>4, <3>1, WaitKept
  <2> QED
    BY <2>2, <2>3, <2>4, <2>5
<1>6. /\ inflight' \in [Realms -> [Clients -> Nat]]
      /\ \A s \in Realms, c \in Clients :
           inflight'[s][c] = IF s = r /\ c = ip THEN inflight[r][ip] - 1 ELSE inflight[s][c]
  <2>1. /\ inflight[r][ip] \in Nat /\ leaked[r][ip] \in Nat /\ InUse(req, r, ip) \in Nat
        /\ InUse(req', r, ip) \in Nat
    BY <1>3, AddressFacts, SlotTypes
  <2>2. inflight[r][ip] = leaked[r][ip] + InUse(req, r, ip) /\ InUse(req', r, ip) = InUse(req, r, ip) - 1
    BY <1>3, <1>5 DEF Slots
  <2>3. inflight[r][ip] - 1 \in Nat /\ inflight[r][ip] # 0
    BY <2>1, <2>2
  <2>4. inflight' = [inflight EXCEPT ![r][ip] = inflight[r][ip] - 1]
    BY <1>1, <2>3
  <2>5. inflight \in [Realms -> [Clients -> Nat]]
    BY DEF LimiterOK
  <2> QED
    BY <1>3, <2>3, <2>4, <2>5, OneAddress
<1>7. Settled(r, ip)
  <2>1. CASE ok = "yes"
    <3>1. /\ failures' = [failures EXCEPT ![r] = Without(failures[r], ip)]
          /\ wrong' = [wrong EXCEPT ![r][ip] = <<>>]
      BY <2>1 DEF FinishLoginAttempt
    <3>2. \A s \in Realms, c \in Clients : Undated(req', s, c) = Undated(req, s, c)
      BY <1>5, <2>1
    <3> QED
      BY <1>3, <3>1, <3>2, SettledYes
  <2>2. CASE ok = "blocked"
    <3>1. failures' = failures /\ wrong' = wrong
      BY <2>2 DEF FinishLoginAttempt
    <3>2. \A s \in Realms, c \in Clients : Undated(req', s, c) = Undated(req, s, c)
      BY <1>5, <2>2
    <3> QED
      BY <1>3, <3>1, <3>2, SettledBlocked
  <2>3. CASE ok = "no"
    <3>1. /\ failures' = [failures EXCEPT ![r] = RecordFailure(failures[r], ip)]
          /\ wrong' = [wrong EXCEPT ![r] = [c \in Clients |-> IF c \in Evicted(failures[r], ip) THEN <<>>
                                                              ELSE wrong[r][c]]]
      BY <2>3 DEF FinishLoginAttempt
    <3>2. \A s \in Realms, c \in Clients :
           /\ s = r /\ c = ip => Undated(req', s, c) = Undated(req, s, c) - 1
           /\ ~ (s = r /\ c = ip) => Undated(req', s, c) = Undated(req, s, c)
      BY <1>5, <2>3
    <3> QED
      BY <1>3, <3>1, <3>2, SettledNo
  <2> QED
    BY <1>3, <2>1, <2>2, <2>3
<1>8. ASSUME NEW s \in Realms, NEW c \in Clients
      PROVE  inflight'[s][c] = leaked'[s][c] + InUse(req', s, c)
  <2>1. inflight[s][c] = leaked[s][c] + InUse(req, s, c)
    BY DEF Slots
  <2>2. inflight[s][c] \in Nat /\ leaked[s][c] \in Nat /\ InUse(req, s, c) \in Nat
    BY AddressFacts
  <2>3. CASE s = r /\ c = ip
    <3>1. leaked'[s][c] = leaked[s][c] /\ InUse(req', s, c) = InUse(req, s, c) - 1
          /\ inflight'[s][c] = inflight[s][c] - 1
      BY <1>1, <1>5, <1>6, <2>3
    <3> QED
      BY <2>1, <2>2, <3>1
  <2>4. CASE ~ (s = r /\ c = ip)
    BY <1>1, <1>5, <1>6, <2>1, <2>4
  <2> QED
    BY <2>3, <2>4
<1>9. ASSUME NEW s \in Realms, NEW c \in Clients, NEW t \in Recent
       PROVE  /\ Count(Times(failures'[s], c), t) + inflight'[s][c] <= LoginMax
              /\ Count(wrong'[s][c], t) <= Count(Times(failures'[s], c), t) + Undated(req', s, c)
  <2>1. /\ Count(Times(failures'[s], c), t)
            <= Count(Times(failures[s], c), t) + (IF s = r /\ c = ip THEN 1 ELSE 0)
        /\ Count(wrong'[s][c], t) <= Count(Times(failures'[s], c), t) + Undated(req', s, c)
        /\ DictOK(failures'[s])
    BY <1>7 DEF Settled
  <2>2. Count(Times(failures[s], c), t) + inflight[s][c] <= LoginMax
    BY DEF Budget
  <2>3. /\ Count(Times(failures[s], c), t) \in Nat /\ Count(Times(failures'[s], c), t) \in Nat
        /\ inflight[s][c] \in Nat /\ LoginMax \in Nat
    BY <2>1, AddressFacts, TimesAt, CountType DEF PanelAssumption
  <2>4. CASE s = r /\ c = ip
    <3>1. inflight'[s][c] = inflight[s][c] - 1
      BY <1>6, <2>4
    <3> QED
      BY <2>1, <2>2, <2>3, <2>4, <3>1
  <2>5. CASE ~ (s = r /\ c = ip)
    <3>1. inflight'[s][c] = inflight[s][c]
      BY <1>6, <2>5
    <3> QED
      BY <2>1, <2>2, <2>3, <2>5, <3>1
  <2> QED
    BY <2>4, <2>5
<1>10. \A s \in Realms, c \in Clients : inflight'[s][c] = leaked'[s][c] + InUse(req', s, c)
  BY <1>8
<1>11. \A s \in Realms, c \in Clients : \A t \in Recent :
              /\ Count(Times(failures'[s], c), t) + inflight'[s][c] <= LoginMax
              /\ Count(wrong'[s][c], t) <= Count(Times(failures'[s], c), t) + Undated(req', s, c)
  BY <1>9
<1>12. /\ failures' \in [Realms -> Seq(Tracked)] /\ \A s \in Realms : DictOK(failures'[s])
       /\ wrong' \in [Realms -> [Clients -> Seq(0..now)]]
  BY <1>7 DEF Settled
<1>13. now' = now /\ leaked' \in [Realms -> [Clients -> Nat]]
  BY <1>1 DEF LimiterOK
<1> QED
  BY <1>6, <1>10, <1>11, <1>12, <1>13, LimiterStep

-----------------------------------------------------------------------------
(* Every step keeps the invariant.                                         *)

\* Steps that leave the session files alone.
LEMMA FilesSame ==
  ASSUME FilesOK, UNCHANGED <<sessions, purged>>
  PROVE  FilesOK'
BY DEF FilesOK, FileOK, SessionOK, Own

\* Steps that leave the accounts alone.
LEMMA ScalarsSame ==
  ASSUME Scalars, UNCHANGED <<now, accounts>>, requests' \in 0..MaxRequests, faults' \in 0..MaxFaults,
         purged' \subseteq Accounts
  PROVE  Scalars'
BY DEF Scalars, accounts

\* A request becomes another one.
LEMMA RequestsStep ==
  ASSUME RequestsOK, NEW w \in Workers, NEW q \in Queries, req' = [req EXCEPT ![w] = q]
  PROVE  RequestsOK'
BY DEF RequestsOK

\* A request is taken.
LEMMA TakenOK ==
  ASSUME PanelAssumption, IInv, NEW w \in Workers, NEW q \in Queries, req' = [req EXCEPT ![w] = q],
         q.pc \notin {"begun", "verified"}, req[w] = Idle, requests' \in 0..MaxRequests,
         UNCHANGED <<now, accounts, sessions, limiter, faults, purged>>
  PROVE  IInv'
<1>1. Scalars /\ RequestsOK /\ FilesOK /\ LimiterOK /\ Slots /\ Budget
  BY DEF IInv
<1>2. Scalars'
  BY <1>1, ScalarsSame DEF Scalars
<1>3. RequestsOK'
  BY <1>1, RequestsStep
<1>4. FilesOK'
  BY <1>1, FilesSame
<1>5. LimiterOK' /\ Slots' /\ Budget'
  <2>1. req[w].pc \notin {"begun", "verified"}
    BY IdleQuery
  <2>2. Moves(w, q)
    BY <1>1, MovesTo
  <2> QED
    BY <1>1, <2>1, <2>2, Elsewhere
<1> QED
  BY <1>2, <1>3, <1>4, <1>5 DEF IInv

\* Every request that can arrive.
LEMMA RequestOK ==
  ASSUME PanelAssumption, IInv, NEW w \in Workers, Request(w)
  PROVE  IInv'
<1>1. Scalars /\ RequestsOK /\ FilesOK
  BY DEF IInv
<1>2. CASE \E a \in Accounts, peer \in Clients \cup {Loopback}, header \in Clients :
             \E g \in Guesses(a) : Login(w, a, peer, header, g)
  <2>1. PICK a \in Accounts, peer \in Clients \cup {Loopback}, header \in Clients :
             \E g \in Guesses(a) : Login(w, a, peer, header, g)
    BY <1>2
  <2>2. PICK g \in Guesses(a) : Login(w, a, peer, header, g)
    BY <2>1
  <2>3. PICK q \in Queries : /\ req' = [req EXCEPT ![w] = q] /\ q.pc = "arrived" /\ req[w] = Idle
                             /\ requests' \in 0..MaxRequests
    BY <1>1, <2>2, LoginQuery
  <2>4. UNCHANGED <<now, accounts, sessions, limiter, faults, purged>>
    BY <2>2 DEF Login
  <2> QED
    BY <2>3, <2>4, TakenOK
<1>3. CASE (\E u \in Users : UserLink(w, u)) \/ AdminLink(w)
  <2>1. PICK q \in Queries : /\ req' = [req EXCEPT ![w] = q] /\ q.pc = "minting" /\ req[w] = Idle
                             /\ requests' \in 0..MaxRequests
    BY <1>1, <1>3, LinkQuery
  <2>2. UNCHANGED <<now, accounts, sessions, limiter, faults, purged>>
    BY <1>3 DEF UserLink, AdminLink
  <2> QED
    BY <2>1, <2>2, TakenOK
<1>4. CASE \E f \in Realms : \E i \in 1..Len(sessions[f]) :
             \E g \in Guesses(sessions[f][i].user) : ChangeRequest(w, f, i, g)
  <2>1. PICK f \in Realms : \E i \in 1..Len(sessions[f]) :
             \E g \in Guesses(sessions[f][i].user) : ChangeRequest(w, f, i, g)
    BY <1>4
  <2>2. PICK i \in 1..Len(sessions[f]) :
             \E g \in Guesses(sessions[f][i].user) : ChangeRequest(w, f, i, g)
    BY <2>1
  <2>3. PICK g \in Guesses(sessions[f][i].user) : ChangeRequest(w, f, i, g)
    BY <2>2
  <2>4. PICK q \in Queries : /\ req' = [req EXCEPT ![w] = q] /\ q.pc = "changing" /\ req[w] = Idle
                             /\ requests' \in 0..MaxRequests
    BY <1>1, <2>3, ChangeQuery
  <2>5. UNCHANGED <<now, accounts, sessions, limiter, faults, purged>>
    BY <2>3 DEF ChangeRequest
  <2> QED
    BY <2>4, <2>5, TakenOK
<1>5. CASE \E u \in Users, op \in {"reset", "disable", "enable", "rotate"} : AdminForm(w, u, op)
  <2>1. PICK u \in Users, op \in {"reset", "disable", "enable", "rotate"} : AdminForm(w, u, op)
    BY <1>5
  <2>2. PICK q \in Queries : /\ req' = [req EXCEPT ![w] = q] /\ q.pc = op /\ req[w] = Idle
                             /\ requests' \in 0..MaxRequests
    BY <1>1, <2>1, FormQuery
  <2>3. UNCHANGED <<now, accounts, sessions, limiter, faults, purged>>
    BY <2>1 DEF AdminForm
  <2>4. q.pc \notin {"begun", "verified"}
    BY <2>2
  <2> QED
    BY <2>2, <2>3, <2>4, TakenOK
<1> QED
  BY <1>2, <1>3, <1>4, <1>5 DEF Request

\* The steps of a login.
LEMMA AttemptOK ==
  ASSUME PanelAssumption, IInv, NEW w \in Workers,
         BeginLoginAttempt(w) \/ VerifyLogin(w) \/ FinishLoginAttempt(w) \/ UserReadFails(w)
  PROVE  IInv'
<1>1. Scalars /\ RequestsOK /\ FilesOK /\ LimiterOK /\ Slots /\ Budget
  BY DEF IInv
<1>2. UNCHANGED <<now, accounts, sessions, requests, purged>>
  BY DEF BeginLoginAttempt, VerifyLogin, FinishLoginAttempt, UserReadFails
<1>3. faults' \in 0..MaxFaults
  <2>1. faults' = faults \/ (faults < MaxFaults /\ faults' = faults + 1)
    BY DEF BeginLoginAttempt, VerifyLogin, FinishLoginAttempt, UserReadFails
  <2> QED
    BY <1>1, <2>1 DEF Scalars, PanelAssumption
<1>4. Scalars'
  BY <1>1, <1>2, <1>3, ScalarsSame DEF Scalars
<1>5. FilesOK'
  BY <1>1, <1>2, FilesSame
<1>6. RequestsOK'
  <2>1. CASE BeginLoginAttempt(w)
    <3> DEFINE b == [req[w] EXCEPT !.pc = "begun"]
    <3>1. b \in Queries
      BY <1>1, <2>1, BeginQuery DEF BeginLoginAttempt
    <3>2. req' = [req EXCEPT ![w] = Idle] \/ req' = [req EXCEPT ![w] = b]
      BY <2>1 DEF BeginLoginAttempt, Done
    <3> HIDE DEF b
    <3> QED
      BY <1>1, <3>1, <3>2, IdleQuery, RequestsStep
  <2>2. CASE VerifyLogin(w)
    <3>1. PICK q \in Queries : req' = [req EXCEPT ![w] = q]
      BY <1>1, <2>2, VerifyQuery
    <3> QED
      BY <1>1, <3>1, RequestsStep
  <2>3. CASE FinishLoginAttempt(w)
    <3>1. PICK q \in Queries : req' = [req EXCEPT ![w] = q]
      BY <1>1, <2>3, FinishQuery
    <3> QED
      BY <1>1, <3>1, RequestsStep
  <2>4. CASE UserReadFails(w)
    <3>1. req' = [req EXCEPT ![w] = Idle]
      BY <2>4 DEF UserReadFails, Done
    <3> QED
      BY <1>1, <3>1, IdleQuery, RequestsStep
  <2> QED
    BY <2>1, <2>2, <2>3, <2>4
<1>7. LimiterOK' /\ Slots' /\ Budget'
  BY <1>1, BeginLimiter, VerifyLimiter, FinishLimiter, ReadFailsLimiter
<1> QED
  BY <1>4, <1>5, <1>6, <1>7 DEF IInv

\* The accounts after a form or a change of password.
LEMMA AccountsStep ==
  ASSUME PanelAssumption, Scalars, RequestsOK, NEW w \in Workers,
         \/ ChangePassword(w) \/ ResetPassword(w) \/ DisableUser(w) \/ EnableUser(w)
         \/ RotateToken(w)
  PROVE  Scalars'
<1> DEFINE u == req[w].user
<1>1. req[w] \in Queries /\ UNCHANGED <<now, requests, faults, purged>>
  BY DEF RequestsOK, ChangePassword, ResetPassword, DisableUser, EnableUser, RotateToken
<1>2. CASE ChangePassword(w)
  <2>1. u \in Accounts
    BY <1>1, <1>2, Kinds DEF ChangePassword, Task
  <2>2. token' = token /\ disabled' = disabled
    BY <1>2 DEF ChangePassword
  <2>3. CASE secret' = secret /\ mustChange' = mustChange
    BY <1>1, <2>2, <2>3 DEF Scalars
  <2>4. CASE NewSecret(u) /\ mustChange' = [x \in Users |-> x # u /\ mustChange[x]]
    <3>1. secret[u] \in Versions /\ secret[u] < MaxVersion /\ secret' = [secret EXCEPT ![u] = secret[u] + 1]
      BY <2>1, <2>4 DEF NewSecret, Scalars
    <3>2. secret' \in [Accounts -> Versions]
      BY <2>1, <3>1, VersionFacts DEF Scalars
    <3>3. mustChange' \in [Users -> BOOLEAN]
      BY <2>4 DEF Scalars
    <3> QED
      BY <1>1, <2>2, <3>2, <3>3 DEF Scalars
  <2> QED
    BY <1>2, <2>3, <2>4 DEF ChangePassword
<1>3. CASE \/ ResetPassword(w) \/ DisableUser(w) \/ EnableUser(w) \/ RotateToken(w)
  <2>1. u \in Users /\ u \in Accounts
    BY <1>1, <1>3, Kinds, RealmFacts DEF ResetPassword, DisableUser, EnableUser, RotateToken, Matches, Form
  <2>2. CASE ResetPassword(w)
    <3>1. /\ secret[u] \in Versions /\ secret[u] < MaxVersion /\ secret' = [secret EXCEPT ![u] = secret[u] + 1]
          /\ mustChange' = [mustChange EXCEPT ![u] = TRUE] /\ token' = token /\ disabled' = disabled
      BY <2>1, <2>2 DEF ResetPassword, NewSecret, Scalars
    <3>2. secret' \in [Accounts -> Versions]
      BY <2>1, <3>1, VersionFacts DEF Scalars
    <3>3. mustChange' \in [Users -> BOOLEAN]
      BY <3>1 DEF Scalars
    <3> QED
      BY <1>1, <3>1, <3>2, <3>3 DEF Scalars
  <2>3. CASE DisableUser(w) \/ EnableUser(w)
    <3>1. /\ secret' = secret /\ token' = token /\ mustChange' = mustChange
          /\ disabled' \in [Users -> BOOLEAN]
      BY <2>3 DEF DisableUser, EnableUser, Scalars
    <3> QED
      BY <1>1, <3>1 DEF Scalars
  <2>4. CASE RotateToken(w)
    <3>1. /\ token[u] \in Versions /\ token[u] < MaxVersion /\ token' = [token EXCEPT ![u] = token[u] + 1]
          /\ secret' = secret /\ mustChange' = mustChange /\ disabled' = disabled
      BY <2>1, <2>4 DEF RotateToken, Scalars
    <3>2. token' \in [Users -> Versions]
      BY <2>1, <3>1, VersionFacts DEF Scalars
    <3> QED
      BY <1>1, <3>1, <3>2 DEF Scalars
  <2> QED
    BY <1>3, <2>2, <2>3, <2>4
<1> QED
  BY <1>2, <1>3

\* The other steps of a request.
LEMMA OtherOK ==
  ASSUME PanelAssumption, IInv, NEW w \in Workers,
         \/ CreateSession(w) \/ SessionStoreFails(w) \/ ReplaceSessionsWithNew(w)
         \/ DeleteSessionsFor(w) \/ EnableUser(w) \/ RotateToken(w) \/ Conflict(w)
         \/ ChangePassword(w) \/ ResetPassword(w) \/ DisableUser(w)
  PROVE  IInv'
<1>1. Scalars /\ RequestsOK /\ FilesOK /\ LimiterOK /\ Slots /\ Budget
  BY DEF IInv
<1>2. UNCHANGED <<now, limiter>>
  BY DEF CreateSession, SessionStoreFails, ReplaceSessionsWithNew, DeleteSessionsFor, EnableUser,
         RotateToken, Conflict, ChangePassword, ResetPassword, DisableUser
<1>3. PICK q \in Queries :
           /\ req' = [req EXCEPT ![w] = q]
           /\ q.pc \notin {"begun", "verified"} /\ req[w].pc \notin {"begun", "verified"}
  BY <1>1, OtherQuery
<1>4. RequestsOK'
  BY <1>1, <1>3, RequestsStep
<1>5. LimiterOK' /\ Slots' /\ Budget'
  <2>1. Moves(w, q)
    BY <1>1, <1>3, MovesTo
  <2>2. q.pc \notin {"begun", "verified"} /\ req[w].pc \notin {"begun", "verified"}
    BY <1>3
  <2> QED
    BY <1>1, <1>2, <2>1, <2>2, Elsewhere
<1>6. Scalars'
  <2>1. CASE \/ ChangePassword(w) \/ ResetPassword(w) \/ DisableUser(w) \/ EnableUser(w)
             \/ RotateToken(w)
    BY <1>1, <2>1, AccountsStep
  <2>2. CASE CreateSession(w) \/ SessionStoreFails(w) \/ Conflict(w)
    <3>1. UNCHANGED <<now, accounts, requests, purged>>
      BY <2>2 DEF CreateSession, SessionStoreFails, Conflict
    <3>2. faults' = faults \/ (faults < MaxFaults /\ faults' = faults + 1)
      BY <2>2 DEF CreateSession, SessionStoreFails, Conflict
    <3>3. faults' \in 0..MaxFaults
      BY <1>1, <3>2 DEF Scalars, PanelAssumption
    <3> QED
      BY <1>1, <3>1, <3>3, ScalarsSame DEF Scalars
  <2>3. CASE ReplaceSessionsWithNew(w) \/ DeleteSessionsFor(w)
    <3>1. req[w] \in Task \/ req[w] \in Form
      BY <1>1, <2>3, Kinds DEF ReplaceSessionsWithNew, DeleteSessionsFor, RequestsOK
    <3>2. req[w].user \in Accounts
      BY <3>1, RealmFacts DEF Task, Form
    <3>3. UNCHANGED <<now, accounts, requests, faults>> /\ purged' = purged \cup {req[w].user}
      BY <2>3 DEF ReplaceSessionsWithNew, DeleteSessionsFor
    <3> QED
      BY <1>1, <3>2, <3>3, ScalarsSame DEF Scalars
  <2> QED
    BY <2>1, <2>2, <2>3
<1>7. FilesOK'
  <2>1. CASE \/ ChangePassword(w) \/ ResetPassword(w) \/ DisableUser(w) \/ EnableUser(w)
             \/ RotateToken(w) \/ SessionStoreFails(w) \/ Conflict(w)
    <3>1. UNCHANGED <<sessions, purged>>
      BY <2>1 DEF ChangePassword, ResetPassword, DisableUser, EnableUser, RotateToken,
                  SessionStoreFails, Conflict
    <3> QED
      BY <1>1, <3>1, FilesSame
  <2>2. CASE CreateSession(w)
    BY <1>1, <2>2, CreateFiles
  <2>3. CASE ReplaceSessionsWithNew(w)
    BY <1>1, <2>3, ReplaceFiles
  <2>4. CASE DeleteSessionsFor(w)
    BY <1>1, <2>4, DeleteFiles
  <2> QED
    BY <2>1, <2>2, <2>3, <2>4
<1> QED
  BY <1>4, <1>5, <1>6, <1>7 DEF IInv

\* Cookies, the clock and a restart.
LEMMA WorldOK ==
  ASSUME PanelAssumption, IInv,
         \/ \E f \in Realms : \E i \in 1..Len(sessions[f]) : VisitStale(f, i) \/ Logout(f, i)
         \/ Tick \/ Restart
  PROVE  IInv'
<1>1. Scalars /\ RequestsOK /\ FilesOK /\ LimiterOK /\ Slots /\ Budget
  BY DEF IInv
<1>2. CASE \E f \in Realms : \E i \in 1..Len(sessions[f]) : VisitStale(f, i) \/ Logout(f, i)
  <2>1. PICK f \in Realms : \E i \in 1..Len(sessions[f]) : VisitStale(f, i) \/ Logout(f, i)
    BY <1>2
  <2>2. PICK i \in 1..Len(sessions[f]) : VisitStale(f, i) \/ Logout(f, i)
    BY <2>1
  <2>3. RemoveSession(f, i) /\ UNCHANGED <<now, accounts, limiter, req, requests, faults, purged>>
    BY <2>2 DEF VisitStale, Logout
  <2>4. FilesOK'
    BY <1>1, <2>3, RemoveFiles
  <2>5. LimiterOK' /\ Slots' /\ Budget'
    BY <1>1, <2>3, NobodyMoves
  <2>6. Scalars'
    BY <1>1, <2>3, ScalarsSame DEF Scalars
  <2>7. RequestsOK'
    BY <1>1, <2>3 DEF RequestsOK
  <2> QED
    BY <2>4, <2>5, <2>6, <2>7 DEF IInv
<1>3. CASE Tick
  <2>1. LimiterOK' /\ Slots' /\ Budget'
    BY <1>1, <1>3, TickLimiter
  <2>2. FilesOK'
    BY <1>1, <1>3, FilesSame DEF Tick
  <2>3. Scalars'
    BY <1>1, <1>3 DEF Tick, Scalars, accounts, PanelAssumption
  <2>4. RequestsOK'
    BY <1>1, <1>3 DEF Tick, RequestsOK
  <2> QED
    BY <2>1, <2>2, <2>3, <2>4 DEF IInv
<1>4. CASE Restart
  <2>1. LimiterOK' /\ Slots' /\ Budget'
    BY <1>1, <1>4, RestartLimiter
  <2>2. FilesOK'
    BY <1>1, <1>4, FilesSame DEF Restart
  <2>3. Scalars'
    <3>1. faults' \in 0..MaxFaults
      BY <1>1, <1>4 DEF Restart, Scalars, PanelAssumption
    <3> QED
      BY <1>1, <1>4, <3>1, ScalarsSame DEF Restart, Scalars
  <2>4. RequestsOK'
    BY <1>4, IdleQuery DEF Restart, RequestsOK
  <2> QED
    BY <2>1, <2>2, <2>3, <2>4 DEF IInv
<1> QED
  BY <1>2, <1>3, <1>4

\* One step of the panel keeps the invariant.
LEMMA NextOK == PanelAssumption /\ IInv /\ [Next]_vars => IInv'
<1> SUFFICES ASSUME PanelAssumption, IInv, [Next]_vars PROVE IInv'
  OBVIOUS
<1>1. CASE \E w \in Workers : Request(w) \/ Continue(w)
  <2>1. PICK w \in Workers : Request(w) \/ Continue(w)
    BY <1>1
  <2>2. CASE Request(w)
    BY <2>2, RequestOK
  <2>3. CASE BeginLoginAttempt(w) \/ VerifyLogin(w) \/ FinishLoginAttempt(w) \/ UserReadFails(w)
    BY <2>3, AttemptOK
  <2>4. CASE \/ CreateSession(w) \/ SessionStoreFails(w) \/ ReplaceSessionsWithNew(w)
             \/ DeleteSessionsFor(w) \/ EnableUser(w) \/ RotateToken(w) \/ Conflict(w)
             \/ ChangePassword(w) \/ ResetPassword(w) \/ DisableUser(w)
    BY <2>4, OtherOK
  <2> QED
    BY <2>1, <2>2, <2>3, <2>4 DEF Continue
<1>2. CASE \/ \E f \in Realms : \E i \in 1..Len(sessions[f]) : VisitStale(f, i) \/ Logout(f, i)
           \/ Tick \/ Restart
  BY <1>2, WorldOK
<1>3. CASE UNCHANGED vars
  <2>1. UNCHANGED <<now, accounts, sessions, limiter, req, requests, faults, purged>>
    BY <1>3 DEF vars
  <2>2. LimiterOK' /\ Slots' /\ Budget'
    BY <2>1, NobodyMoves DEF IInv
  <2>3. FilesOK'
    BY <2>1, FilesSame DEF IInv
  <2>4. Scalars'
    BY <2>1, ScalarsSame DEF IInv, Scalars
  <2>5. RequestsOK'
    BY <2>1 DEF IInv, RequestsOK
  <2> QED
    BY <2>2, <2>3, <2>4, <2>5 DEF IInv
<1> QED
  BY <1>1, <1>2, <1>3 DEF Next

\* An empty file is in order.
LEMMA EmptyFile ==
  ASSUME PanelAssumption
  PROVE  FileOK(<<>>) /\ \A a : Own(<<>>, a) = {}
<1>1. <<>> \in Seq(Entry) /\ Len(<<>>) = 0
  OBVIOUS
<1>2. Owners(<<>>) = {} /\ \A a : Own(<<>>, a) = {}
  BY DEF Owners, Own
<1>3. SessionMaxGlobal \in Nat \ {0} /\ SessionMaxPerIdentity \in Nat
  BY DEF PanelAssumption
<1>4. \A a : Cardinality(Own(<<>>, a)) = 0
  BY <1>2, FS_EmptySet
<1>5. Cardinality(Owners(<<>>)) = 0
  BY <1>2, FS_EmptySet
<1> QED
  BY <1>1, <1>2, <1>3, <1>4, <1>5 DEF FileOK

\* So is one with a single session of an older release.
LEMMA LegacyFile ==
  ASSUME PanelAssumption, NEW u \in Accounts
  PROVE  /\ FileOK(<<Legacy(u)>>) /\ DOMAIN <<Legacy(u)>> = {1}
         /\ \A r : Realm(u) = r => SessionOK(r, Legacy(u), {})
<1> DEFINE e == Legacy(u)
<1>1. SessionTtl \in 1..(MaxTime + SessionTtl) /\ 0 \in Versions /\ NoGeneration \in 0..NoGeneration
  BY VersionFacts DEF PanelAssumption
<1>2. e \in Entry /\ e.user = u /\ e.gen = NoGeneration
  BY <1>1 DEF Legacy, Entry
<1> HIDE DEF e
<1>3. SessionMaxGlobal \in Nat \ {0} /\ SessionMaxPerIdentity \in Nat \ {0}
  BY DEF PanelAssumption
<1>4. Append(<<>>, e) = <<e>> /\ DOMAIN <<e>> = {1} /\ Len(<<>>) = 0
  OBVIOUS
<1>5. Cardinality(Own(<<>>, e.user)) = 0
  BY EmptyFile, FS_EmptySet
<1>6. FileOK(Append(<<>>, e))
  <2> DEFINE s == <<>>
  <2>1. /\ FileOK(s) /\ Own(s, e.user) = {}
        /\ Cardinality(Own(s, e.user)) + 1 <= SessionMaxPerIdentity
    BY <1>3, <1>5, EmptyFile
  <2> HIDE DEF s
  <2>2. FileOK(Append(s, e))
    BY <1>2, <2>1, AppendFile
  <2> QED
    BY <2>2 DEF s
<1> QED
  BY <1>2, <1>4, <1>6 DEF SessionOK, e

\* The panel starts with the invariant.
LEMMA InitOK == PanelAssumption /\ Init => IInv
<1> SUFFICES ASSUME PanelAssumption, Init PROVE IInv
  OBVIOUS
<1>1. Scalars
  BY VersionFacts DEF Init, Scalars, PanelAssumption
<1>2. RequestsOK
  BY IdleQuery DEF Init, RequestsOK
<1>3. FilesOK
  <2>1. ASSUME NEW r \in Realms
        PROVE  /\ FileOK(sessions[r])
               /\ \A i \in DOMAIN sessions[r] : SessionOK(r, sessions[r][i], {})
    <3>1. CASE sessions[r] = <<>>
      <4>1. DOMAIN sessions[r] = {}
        BY <3>1
      <4> QED
        BY <3>1, <4>1, EmptyFile
    <3>2. CASE sessions[r] # <<>>
      <4>1. PICK u \in Accounts : sessions[r] = <<Legacy(u)>>
        BY <3>2 DEF Init
      <4>2. Realm(sessions[r][1].user) = r
        <5>1. 1 \in 1..Len(sessions[r])
          BY <4>1
        <5> QED
          BY <5>1 DEF Init
      <4>3. Realm(u) = r
        BY <4>1, <4>2 DEF Legacy
      <4>4. /\ FileOK(sessions[r]) /\ DOMAIN sessions[r] = {1} /\ sessions[r][1] = Legacy(u)
            /\ SessionOK(r, Legacy(u), {})
        BY <4>1, <4>3, LegacyFile
      <4> QED
        BY <4>4
    <3> QED
      BY <3>1, <3>2
  <2>2. \A r \in Realms : sessions[r] \in Seq(Entry)
    BY <2>1 DEF FileOK
  <2>3. sessions \in [Realms -> Seq(Entry)]
    BY <2>2 DEF Init
  <2> QED
    BY <2>1, <2>3 DEF FilesOK, Init
<1>4. /\ now = 0
      /\ failures = [r \in Realms |-> <<>>] /\ req = [w \in Workers |-> Idle]
      /\ inflight = [r \in Realms |-> [c \in Clients |-> 0]]
      /\ wrong = [r \in Realms |-> [c \in Clients |-> <<>>]]
      /\ leaked = [r \in Realms |-> [c \in Clients |-> 0]]
  BY DEF Init
<1>5. /\ \A r \in Realms : failures[r] = <<>>
      /\ \A r \in Realms, c \in Clients : /\ inflight[r][c] = 0 /\ leaked[r][c] = 0
                                          /\ wrong[r][c] = <<>>
  BY <1>4
<1>6. LoginMax \in Nat /\ MaxIps \in Nat
  BY DEF PanelAssumption
<1>7. LimiterOK
  <2>1. \A S : <<>> \in Seq(S)
    OBVIOUS
  <2>2. \A r \in Realms : DictOK(failures[r])
    <3>1. DOMAIN <<>> = {} /\ Len(<<>>) = 0 /\ 0 <= MaxIps /\ <<>> \in Seq(Tracked)
      BY <1>6, <2>1
    <3> QED
      BY <1>5, <3>1 DEF DictOK
  <2>3. failures \in [Realms -> Seq(Tracked)] /\ wrong \in [Realms -> [Clients -> Seq(0..now)]]
    BY <1>4, <2>1
  <2>4. inflight \in [Realms -> [Clients -> Nat]] /\ leaked \in [Realms -> [Clients -> Nat]]
    BY <1>4
  <2> QED
    BY <2>2, <2>3, <2>4 DEF LimiterOK
<1>8. /\ \A r, c : InUse(req, r, c) = 0
      /\ \A r, c : Undated(req, r, c) = 0
  <2>1. \A w \in Workers : req[w] = Idle
    BY <1>4
  <2>2. \A r, c : /\ {w \in Workers : Holds(req[w], r, c)} = {}
                   /\ {w \in Workers : Waits(req[w], r, c)} = {}
    BY <2>1, IdleQuery DEF Holds, Waits
  <2> QED
    BY <2>2, FS_EmptySet DEF InUse, Undated
<1>9. Slots
  BY <1>5, <1>8 DEF Slots
<1>10. \A c, t : Count(Times(<<>>, c), t) = 0 /\ Count(<<>>, t) = 0
  <2>1. \A c : Times(<<>>, c) = <<>>
    BY DEF Times, Places
  <2> QED
    BY <2>1, CountEmpty
<1>11. Budget
  BY <1>5, <1>6, <1>8, <1>10 DEF Budget
<1> QED
  BY <1>1, <1>2, <1>3, <1>7, <1>9, <1>11 DEF IInv

\* The invariant of the panels.
THEOREM PanelInvariant == Spec => []IInv
<1>1. Init => IInv
  BY InitOK, PanelAssumption
<1>2. IInv /\ [Next]_vars => IInv'
  BY NextOK, PanelAssumption
<1> QED
  BY <1>1, <1>2, PTL DEF Spec

\* The state is well formed.
LEMMA TypeFromInv == IInv => TypeOK
<1> SUFFICES ASSUME IInv PROVE TypeOK
  OBVIOUS
<1>1. Scalars /\ RequestsOK /\ FilesOK /\ LimiterOK
  BY DEF IInv
<1>2. req \in [Workers -> {Idle} \cup Attempt \cup Task \cup Form]
  BY <1>1 DEF RequestsOK, Queries
<1>3. ASSUME NEW r \in Realms
      PROVE  /\ \A i \in 1..Len(sessions[r]) : Realm(sessions[r][i].user) = r
             /\ Len(failures[r]) <= MaxIps
             /\ \A i, j \in 1..Len(failures[r]) :
                  /\ failures[r][i].times # <<>>
                  /\ failures[r][i].ip = failures[r][j].ip => i = j
  <2>1. sessions[r] \in Seq(Entry) /\ \A i \in DOMAIN sessions[r] : Realm(sessions[r][i].user) = r
    BY <1>1 DEF FilesOK, SessionOK
  <2>2. failures[r] \in Seq(Tracked) /\ DictOK(failures[r])
    BY <1>1 DEF LimiterOK
  <2>3. DOMAIN sessions[r] = 1..Len(sessions[r]) /\ DOMAIN failures[r] = 1..Len(failures[r])
    BY <2>1, <2>2
  <2> QED
    BY <2>1, <2>2, <2>3 DEF DictOK
<1> QED
  BY <1>1, <1>2, <1>3 DEF TypeOK, Scalars, FilesOK, LimiterOK

\* Every state of the panels is well formed.
THEOREM PanelTypeOK == Spec => []TypeOK
BY PanelInvariant, TypeFromInv, PTL

\* However the logins of a client interleave, no more than _LOGIN_MAX of its wrong
\* passwords are verified within the window (_begin_login_attempt).
THEOREM BudgetKept == Spec => []LoginBudget
<1>1. IInv => LoginBudget
  <2> SUFFICES ASSUME IInv, NEW r \in Realms, NEW c \in Clients
               PROVE  Len(Fresh(wrong[r][c])) <= LoginMax
    BY DEF LoginBudget
  <2> USE PanelAssumption
  <2>1. Scalars /\ RequestsOK /\ LimiterOK /\ Slots /\ Budget
    BY DEF IInv
  <2>2. now \in Nat /\ LoginWindow \in Nat \ {0} /\ LoginMax \in Nat
    BY <2>1 DEF Scalars, PanelAssumption
  <2>3. /\ wrong[r][c] \in Seq(0..now) /\ inflight[r][c] \in Nat /\ leaked[r][c] \in Nat
        /\ InUse(req, r, c) \in Nat /\ Undated(req, r, c) \in Nat
        /\ \A t : Count(Times(failures[r], c), t) \in Nat /\ Count(wrong[r][c], t) \in Nat
    BY <2>1, AddressFacts
  <2>4. PICK t \in Recent : Len(Fresh(wrong[r][c])) = Count(wrong[r][c], t)
    BY <2>2, <2>3, FreshLength
  <2>5. /\ Count(Times(failures[r], c), t) + inflight[r][c] <= LoginMax
        /\ Count(wrong[r][c], t) <= Count(Times(failures[r], c), t) + Undated(req, r, c)
    BY <2>1 DEF Budget
  <2>6. Undated(req, r, c) <= InUse(req, r, c)
    <3> DEFINE H == {w \in Workers : Holds(req[w], r, c)}
               P == {w \in Workers : Waits(req[w], r, c)}
    <3>1. P \subseteq H
      <4>1. \A w \in Workers : req[w] \in Queries
        BY <2>1 DEF RequestsOK
      <4> QED
        BY <4>1 DEF Queries, Genuine, Holds, Waits
    <3>2. IsFiniteSet(H)
      BY FS_Subset DEF PanelAssumption
    <3> HIDE DEF H, P
    <3>3. Cardinality(P) <= Cardinality(H)
      BY <3>1, <3>2, FS_Subset
    <3> QED
      BY <3>3 DEF InUse, Undated, H, P
  <2>7. inflight[r][c] = leaked[r][c] + InUse(req, r, c)
    BY <2>1 DEF Slots
  <2>8. Count(wrong[r][c], t) \in Nat /\ Count(Times(failures[r], c), t) \in Nat
    BY <2>3
  <2>9. Undated(req, r, c) <= inflight[r][c]
    BY <2>3, <2>6, <2>7, SMTT(30)
  <2>10. Count(wrong[r][c], t) <= LoginMax
    BY <2>2, <2>3, <2>5, <2>8, <2>9, SMTT(30)
  <2> QED
    BY <2>4, <2>10
<1> QED
  BY <1>1, PanelInvariant, PTL

\* A slot is held exactly between _begin_login_attempt and _finish_login_attempt, or
\* was lost by a request that could not read users.json.
THEOREM SlotsKept == Spec => []SlotsReturned
<1>1. IInv => SlotsReturned
  BY TypeFromInv DEF IInv, Slots, InUse, Holds, SlotsReturned
<1> QED
  BY <1>1, PanelInvariant, PTL

\* Whoever is let in by a session proved the credential that is stored now.
THEOREM SessionsCurrent == Spec => []UsableSessionsCurrent
<1>1. IInv => UsableSessionsCurrent
  <2> SUFFICES ASSUME IInv, NEW r \in Realms, NEW i \in 1..Len(sessions[r]), Usable(sessions[r][i])
               PROVE  LET s == sessions[r][i]
                      IN \/ s.proof = IF s.kind = Token THEN token[s.user] ELSE secret[s.user]
                         \/ s.gen = NoGeneration /\ s.user \notin purged
    BY DEF UsableSessionsCurrent
  <2>1. sessions[r] \in Seq(Entry) /\ \A k \in DOMAIN sessions[r] : SessionOK(r, sessions[r][k], purged)
    BY DEF IInv, FilesOK
  <2>2. SessionOK(r, sessions[r][i], purged)
    BY <2>1
  <2> QED
    BY <2>2 DEF SessionOK, Usable
<1> QED
  BY <1>1, PanelInvariant, PTL

\* The session files stay within their bounds.
THEOREM FilesBounded == Spec => []SessionFilesBounded
<1>1. IInv => SessionFilesBounded
  <2> SUFFICES ASSUME IInv PROVE SessionFilesBounded
    OBVIOUS
  <2> USE PanelAssumption
  <2> DEFINE A == sessions["admin"]
             U == sessions["user"]
  <2>1. /\ FileOK(A) /\ FileOK(U)
        /\ \A i \in DOMAIN A : Realm(A[i].user) = "admin"
        /\ \A i \in DOMAIN U : Realm(U[i].user) = "user"
    BY DEF IInv, FilesOK, Realms, SessionOK
  <2>2. A \in Seq(Entry) /\ U \in Seq(Entry)
    BY <2>1 DEF FileOK
  <2>3. \A r \in Realms, a \in Accounts : Cardinality(Own(sessions[r], a)) <= SessionMaxPerIdentity
    BY DEF IInv, FilesOK, FileOK
  <2> HIDE DEF A, U
  <2>4. SessionMaxGlobal \in Nat /\ Len(A) \in Nat /\ Len(U) \in Nat
    BY <2>2 DEF PanelAssumption
  <2>5. Len(A) <= SessionMaxGlobal
    <3>1. Owners(A) \subseteq {Admin}
      BY <2>1 DEF Owners, Realm
    <3>2. Cardinality(Owners(A)) <= 1
      <4>1. IsFiniteSet({Admin}) /\ Cardinality({Admin}) = 1
        BY FS_Singleton
      <4> QED
        BY <3>1, <4>1, FS_Subset
    <3>3. Cardinality(Owners(A)) \in Nat
      BY <2>2, FileNumbers
    <3> QED
      BY <2>1, <2>4, <3>2, <3>3 DEF FileOK
  <2>6. Len(U) < SessionMaxGlobal + Cardinality(Users)
    <3>1. Owners(U) \subseteq Users
      <4>1. ASSUME NEW i \in DOMAIN U PROVE U[i].user \in Users
        <5>1. U[i] \in Entry
          BY <2>2
        <5> QED
          BY <2>1, <5>1 DEF Entry, Accounts, Realm
      <4> QED
        BY <4>1 DEF Owners
    <3>2. Cardinality(Owners(U)) <= Cardinality(Users) /\ Cardinality(Users) \in Nat
      BY <3>1, FS_Subset, FS_CardinalityType DEF PanelAssumption
    <3>3. Cardinality(Owners(U)) \in Nat
      BY <2>2, FileNumbers
    <3> QED
      BY <2>1, <2>4, <3>2, <3>3 DEF FileOK
  <2> QED
    BY <2>3, <2>5, <2>6 DEF SessionFilesBounded, A, U
<1> QED
  BY <1>1, PanelInvariant, PTL

=============================================================================
