------------------------ MODULE DeployRecoveryProofs ------------------------
(***************************************************************************)
(* The journal of a deployment, for any artifacts, units, generations and  *)
(* number of failures.                                                     *)
(***************************************************************************)
EXTENDS DeployRecovery, CommonLemmas

-----------------------------------------------------------------------------
(* Sequences of artifacts without repetition.                              *)

\* PathSeqs is what CommonLemmas calls InjSeqs(Paths).
LEMMA PathSeqsInj == PathSeqs = InjSeqs(Paths)
<1>1. ASSUME NEW s \in PathSeqs PROVE s \in InjSeqs(Paths)
  BY FS_CardinalityType, DeployAssumption DEF PathSeqs, InjSeqs, DeployAssumption
<1>2. ASSUME NEW s \in InjSeqs(Paths) PROVE s \in PathSeqs
  <2>1. s \in [1..Len(s) -> Paths] /\ IsInjective(s)
    BY DEF InjSeqs
  <2>2. Len(s) \in 0..Cardinality(Paths)
    BY InjSeqLength, DeployAssumption DEF DeployAssumption
  <2> QED
    BY <2>1, <2>2 DEF PathSeqs
<1> QED
  BY <1>1, <1>2

\* Sequences of distinct paths: none, without the first, with one more.
LEMMA EmptyPathSeq == <<>> \in PathSeqs /\ ToSet(<<>>) = {}
  BY PathSeqsInj, InjSeqEmpty

\* Without its first path.
LEMMA TailPathSeq ==
  ASSUME NEW s \in PathSeqs, s # <<>> PROVE Head(s) \in Paths /\ Tail(s) \in PathSeqs
  BY PathSeqsInj, InjSeqTail

\* With a path it did not have.
LEMMA AppendPathSeq ==
  ASSUME NEW s \in PathSeqs, NEW p \in Paths, p \notin ToSet(s)
  PROVE  Append(s, p) \in PathSeqs /\ ToSet(Append(s, p)) = ToSet(s) \cup {p}
  BY PathSeqsInj, InjSeqAppend

\* The journal's order of mutations, the pending one last.
LEMMA ConcatPathSeq ==
  ASSUME NEW s \in PathSeqs, NEW S \in SUBSET Paths, S \cap ToSet(s) = {}
  PROVE  s \o SetToSeq(S) \in PathSeqs
<1> DEFINE t == SetToSeq(S)
<1>1. IsFiniteSet(S)
  BY FS_Subset, DeployAssumption DEF DeployAssumption
<1>2. t \in InjSeqs(S)
  BY <1>1, SetToSeqFacts
<1> HIDE DEF t
<1>3. t \in InjSeqs(Paths) /\ ToSet(t) \subseteq S
  BY <1>2 DEF InjSeqs, ToSet
<1>4. s \o t \in InjSeqs(Paths)
  BY <1>3, InjSeqConcat, PathSeqsInj
<1> QED
  BY <1>4, PathSeqsInj DEF t

\* The function that LatestFirst defines recursively.
Latest(order, S) ==
  CHOOSE f : f = [i \in 0..Len(order) |-> IF i = 0 THEN <<>>
                                          ELSE IF order[i] \in S THEN <<order[i]>> \o f[i - 1]
                                          ELSE f[i - 1]]

\* LatestFirst is the value of that function at the last index.
LEMMA LatestFirstLatest ==
  ASSUME NEW order, NEW S PROVE LatestFirst(order, S) = Latest(order, S)[Len(order)]
  BY DEF LatestFirst, Latest

\* The recursion has a solution.
LEMMA LatestExists ==
  ASSUME NEW order \in PathSeqs, NEW S
  PROVE  /\ Latest(order, S)[0] = <<>>
         /\ \A i \in 1..Len(order) :
              Latest(order, S)[i] = IF order[i] \in S THEN <<order[i]>> \o Latest(order, S)[i - 1]
                                    ELSE Latest(order, S)[i - 1]
<1> DEFINE Step(i, r) == IF order[i] \in S THEN <<order[i]>> \o r ELSE r
           P(n) == \E f \in [0..n -> Seq(Paths)] :
                      f[0] = <<>> /\ \A i \in 1..n : f[i] = Step(i, f[i - 1])
           N == {n \in Nat : n <= Len(order) => P(n)}
<1>0. order \in Seq(Paths) /\ Len(order) \in Nat
  BY PathSeqsInj DEF InjSeqs
<1>1. 0 \in N
  <2> DEFINE z == [i \in 0..0 |-> <<>>]
  <2>1. z \in [0..0 -> Seq(Paths)] /\ z[0] = <<>>
    <3>1. <<>> \in Seq(Paths)
      OBVIOUS
    <3>2. 0 \in 0..0
      OBVIOUS
    <3> QED
      BY <3>1, <3>2, Zenon
  <2>2. \A i \in 1..0 : FALSE
    OBVIOUS
  <2>3. P(0)
    BY <2>1, <2>2, Zenon
  <2> QED
    BY <2>3
<1>2. ASSUME NEW n \in N PROVE n + 1 \in N
  <2> SUFFICES ASSUME n + 1 <= Len(order) PROVE P(n + 1)
    <3> HIDE DEF P
    <3> QED
      OBVIOUS
  <2>1. n \in Nat /\ n <= Len(order) /\ n + 1 \in 1..Len(order)
    BY <1>0
  <2>2. PICK f \in [0..n -> Seq(Paths)] : f[0] = <<>> /\ \A i \in 1..n : f[i] = Step(i, f[i - 1])
    <3> HIDE DEF P
    <3>1. P(n)
      BY <2>1
    <3> QED
      BY <3>1 DEF P
  <2> DEFINE w == Step(n + 1, f[n])
             g == [i \in 0..n + 1 |-> IF i = n + 1 THEN w ELSE f[i]]
  <2>3. w \in Seq(Paths)
    <3>1. order[n + 1] \in Paths /\ f[n] \in Seq(Paths)
      BY <1>0, <2>1, <2>2
    <3> QED
      BY <3>1
  <2>4. g \in [0..n + 1 -> Seq(Paths)]
    <3> HIDE DEF w
    <3> QED
      BY <2>1, <2>2, <2>3
  <2>5. g[0] = <<>>
    BY <2>1, <2>2
  <2>6. ASSUME NEW i \in 1..n + 1 PROVE g[i] = Step(i, g[i - 1])
    <3> HIDE DEF Step
    <3>1. CASE i = n + 1
      <4>1. g[n + 1] = w /\ g[n] = f[n] /\ (n + 1) - 1 = n
        BY <2>1
      <4> QED
        BY <3>1, <4>1
    <3>2. CASE i # n + 1
      <4>1. i \in 1..n /\ g[i] = f[i] /\ g[i - 1] = f[i - 1]
        BY <2>1, <3>2
      <4> QED
        BY <2>2, <4>1
    <3> QED
      BY <3>1, <3>2
  <2> QED
    BY <2>4, <2>5, <2>6
<1>3. Len(order) \in N
  <2> HIDE DEF N
  <2>1. N \subseteq Nat
    BY DEF N
  <2> QED
    BY <1>0, <1>1, <1>2, <2>1, SetInduction
<1>4. PICK f \in [0..Len(order) -> Seq(Paths)] :
              f[0] = <<>> /\ \A i \in 1..Len(order) : f[i] = Step(i, f[i - 1])
  <2> HIDE DEF P
  <2>1. P(Len(order))
    BY <1>0, <1>3
  <2> QED
    BY <2>1 DEF P
<1>5. f = [i \in 0..Len(order) |-> IF i = 0 THEN <<>> ELSE Step(i, f[i - 1])]
  <2> HIDE DEF Step
  <2> QED
    BY <1>0, <1>4
<1>6. Latest(order, S) = [i \in 0..Len(order) |-> IF i = 0 THEN <<>>
                                                  ELSE Step(i, Latest(order, S)[i - 1])]
  BY <1>5, Zenon DEF Latest
<1> DEFINE l == Latest(order, S)
<1>7. l = [i \in 0..Len(order) |-> IF i = 0 THEN <<>> ELSE Step(i, l[i - 1])]
  BY <1>6
<1> HIDE DEF l, Step
<1>8. l[0] = <<>> /\ \A i \in 1..Len(order) : l[i] = Step(i, l[i - 1])
  BY <1>0, <1>7
<1> QED
  BY <1>8 DEF l, Step

\* The selection has no repetitions either.
LEMMA LatestFirstPathSeq ==
  ASSUME NEW order \in PathSeqs, NEW S PROVE LatestFirst(order, S) \in PathSeqs
<1> DEFINE l == Latest(order, S)
           Seen(n) == {order[i] : i \in 1..n}
           Q(n) == l[n] \in PathSeqs /\ ToSet(l[n]) \subseteq Seen(n)
           N == {n \in Nat : n <= Len(order) => Q(n)}
<1>0. order \in Seq(Paths) /\ Len(order) \in Nat /\ IsInjective(order)
  BY PathSeqsInj DEF InjSeqs
<1>1. /\ l[0] = <<>>
      /\ \A i \in 1..Len(order) : l[i] = IF order[i] \in S THEN <<order[i]>> \o l[i - 1]
                                         ELSE l[i - 1]
  BY LatestExists
<1> HIDE DEF l
<1>2. 0 \in N
  BY <1>1, EmptyPathSeq
<1>3. ASSUME NEW n \in N PROVE n + 1 \in N
  <2> SUFFICES ASSUME n + 1 <= Len(order) PROVE Q(n + 1)
    OBVIOUS
  <2>1. n \in Nat /\ n <= Len(order) /\ n + 1 \in 1..Len(order) /\ (n + 1) - 1 = n
    BY <1>0
  <2>2. l[n] \in PathSeqs /\ ToSet(l[n]) \subseteq Seen(n)
    BY <2>1
  <2>3. l[n + 1] = IF order[n + 1] \in S THEN <<order[n + 1]>> \o l[n] ELSE l[n]
    BY <1>1, <2>1
  <2>4. order[n + 1] \in Paths /\ order[n + 1] \notin Seen(n)
    BY <1>0, <2>1 DEF IsInjective
  <2>5. Seen(n) \subseteq Seen(n + 1) /\ order[n + 1] \in Seen(n + 1)
    BY <2>1
  <2> HIDE DEF Seen
  <2>6. CASE order[n + 1] \notin S
    BY <2>2, <2>3, <2>5, <2>6
  <2>7. CASE order[n + 1] \in S
    BY <2>2, <2>3, <2>4, <2>5, <2>7, InjSeqCons, PathSeqsInj
  <2> QED
    BY <2>6, <2>7
<1>4. Len(order) \in N
  <2> HIDE DEF N
  <2>1. N \subseteq Nat
    BY DEF N
  <2> QED
    BY <1>0, <1>2, <1>3, <2>1, SetInduction
<1>5. Q(Len(order))
  <2> HIDE DEF Q
  <2> QED
    BY <1>0, <1>4
<1> QED
  BY <1>5, LatestFirstLatest DEF l

-----------------------------------------------------------------------------
(* The inductive invariant.                                                *)

Preparing == man.state = "preparing"

\* Where the holder of the lock can be, by the state of the journal.
Stage ==
  /\ ~pend => man = NoManifest /\ snaps = {}
  /\ pc = "prepare" => pend /\ man = NoManifest /\ snaps = {}
  /\ pc \notin {"idle", "recover"} => pend
  /\ pc = "deploy" => man.state \in {"preparing", "active"}
  /\ pc \in {"rename", "after"} => man.state = "active"
  /\ pc \in {"stop", "runtime", "verify"} => Preparing \/ InTransaction
  /\ pc \in {"mark", "restore", "put"} => InTransaction
  /\ pc = "resume" => man.state = "restored"
  /\ pc = "cleanup" => man.state \in {"absent", "complete", "restored"}
  /\ pc = "put" => touched /\ todo # <<>>

\* The journal and its files: every snapshot taken before the first mutation,
\* every mutation announced once, a candidate only between announcement and
\* rename or recovery.
Journal ==
  /\ Preparing => /\ man.snapped \subseteq snaps /\ man.committed = <<>> /\ man.pending = {}
                  /\ \A p \in Paths : man.entries[p].repl = NoGen
  /\ InTransaction => /\ man.snapped = Paths /\ snaps = Paths
                      /\ man.pending \cap ToSet(man.committed) = {}
                      /\ \A p, q \in man.pending : p = q
                      /\ \A p \in Paths : man.entries[p].repl # NoGen <=> p \in Journaled
  /\ man # NoManifest => \A p \in man.snapped : man.entries[p].orig # NoGen
  /\ staged # {} => InTransaction /\ pc \in {"idle", "rename", "recover", "stop"}
  /\ pc = "deploy" => man.pending = {}

\* Generations are used once.
Generation ==
  /\ \A p \in Paths : tree[p] <= next /\ durable[p] <= next
  /\ man # NoManifest => \A p \in Paths : man.entries[p].orig <= next /\ man.entries[p].repl <= next

HalfRestored == InTransaction /\ \E p \in ToSet(man.committed) :
                                    /\ man.entries[p].repl # man.entries[p].orig
                                    /\ tree[p] = man.entries[p].orig

\* The services are down once artifacts go back.
Services ==
  /\ HalfRestored => running = {} /\ (touched \/ stopped = {})
  /\ pc \in {"deploy", "rename", "after"} => ~HalfRestored
  /\ pc \in {"mark", "restore", "put", "runtime", "verify"} => running = {}

\* What the runtime is once the journal says "restored".
Runtime ==
  /\ boot <= faults + 1
  /\ man # NoManifest => man.runtime.boot <= boot
  /\ pc = "verify" => enabled = man.runtime.enabled
  /\ man.state = "restored" /\ man.runtime.boot = boot
       => running \subseteq man.runtime.active /\ enabled = man.runtime.enabled

\* What others wrote.
Foreign ==
  /\ raced # {} => InTransaction
  /\ \A p \in raced : tree[p] \notin Known(p)
  /\ pc = "rename" => \A p \in man.pending : p \in raced \/ tree[p] \in Known(p)
  /\ pc = "put" => Head(todo) \in raced \/ tree[Head(todo)] \in Known(Head(todo))

\* What a host crash may undo: renames of a transaction over an artifact whose
\* generation is known.
Undoable ==
  /\ ~InTransaction => durable = tree
  /\ InTransaction => \A p \in Paths : durable[p] = tree[p] \/ tree[p] \in Known(p)

IInv == TypeOK /\ Stage /\ Journal /\ Generation /\ Services /\ Runtime /\ Foreign /\ Undoable

\* The type invariant in four parts.
FlagsOK    == pend \in BOOLEAN /\ gate \in BOOLEAN /\ touched \in BOOLEAN
ManifestOK == man \in Manifests \cup {NoManifest}
TodoOK     == todo \in PathSeqs
RestOK == /\ tree \in [Paths -> 1..MaxGen] /\ durable \in [Paths -> 1..MaxGen]
          /\ snaps \subseteq Paths /\ staged \subseteq Paths /\ raced \subseteq Paths
          /\ running \subseteq Units /\ enabled \subseteq Units
          /\ boot \in 1..(MaxFaults + 1)
          /\ pc \in {"idle", "prepare", "deploy", "rename", "after", "recover", "stop", "mark",
                     "restore", "put", "runtime", "verify", "resume", "cleanup"}
          /\ stopped \subseteq Units
          /\ next \in 1..MaxGen /\ faults \in 0..MaxFaults

\* The manifests that the helper writes.
LEMMA ManifestSome == TypeOK /\ man.state # "absent" => man \in Manifests
  BY DEF TypeOK, NoManifest

\* The next path of the allowlist to snapshot is one, while some path is not.
LEMMA AllowlistPaths ==
  ASSUME NEW S \in SUBSET Paths, S # Paths PROVE Allowlist[Cardinality(S) + 1] \in Paths
<1>1. /\ IsFiniteSet(S) /\ Cardinality(S) <= Cardinality(Paths)
      /\ Cardinality(S) = Cardinality(Paths) => S = Paths
  BY FS_Subset, DeployAssumption DEF DeployAssumption
<1>2. Cardinality(S) \in Nat /\ Cardinality(Paths) \in Nat
  BY <1>1, FS_CardinalityType, DeployAssumption DEF DeployAssumption
<1>3. Allowlist \in Seq(Paths) /\ Len(Allowlist) = Cardinality(Paths)
  BY SetToSeqFacts, DeployAssumption DEF Allowlist, InjSeqs, DeployAssumption
<1>4. Cardinality(S) + 1 \in 1..Len(Allowlist)
  BY <1>1, <1>2, <1>3
<1> QED
  BY <1>3, <1>4

\* A journal entry of a phase.
LEMMA ManifestStates ==
  ASSUME NEW m \in Manifests, NEW st \in States PROVE [m EXCEPT !.state = st] \in Manifests
  BY DEF Manifests

\* A journal entry of a snapshot.
LEMMA ManifestSnapshots ==
  ASSUME NEW m \in Manifests, NEW p \in Paths, NEW e \in Entries
  PROVE  [m EXCEPT !.snapped = @ \cup {p}, !.entries[p] = e] \in Manifests
  BY DEF Manifests

\* The journal entry before a replacement.
LEMMA ManifestBefore ==
  ASSUME NEW m \in Manifests, NEW p \in Paths, NEW g \in 0..MaxGen
  PROVE  [m EXCEPT !.entries[p].repl = g, !.pending = {p}] \in Manifests
  BY DEF Manifests, Entries

\* The journal entry after it.
LEMMA ManifestAfter ==
  ASSUME NEW m \in Manifests, NEW p \in Paths, p \notin ToSet(m.committed)
  PROVE  [m EXCEPT !.committed = Append(@, p), !.pending = {}] \in Manifests
<1>1. Append(m.committed, p) \in PathSeqs
  BY AppendPathSeq DEF Manifests
<1> QED
  BY <1>1 DEF Manifests

\* At the start there is no journal and every service runs.
LEMMA InitIInv == Init => IInv
<1> SUFFICES ASSUME Init PROVE IInv
  OBVIOUS
<1> USE DeployAssumption DEF DeployAssumption, Init, NoManifest, InTransaction, Preparing, NoGen
<1>1. TypeOK
  <2>1. FlagsOK
    BY Zenon DEF FlagsOK
  <2>2. ManifestOK
    BY Zenon DEF ManifestOK
  <2>3. TodoOK
    BY EmptyPathSeq DEF TodoOK
  <2>4. RestOK
    BY DEF RestOK
  <2> QED
    BY <2>1, <2>2, <2>3, <2>4, Zenon DEF FlagsOK, ManifestOK, TodoOK, RestOK, TypeOK
<1>2. Stage /\ Journal /\ Generation
  BY DEF Stage, Journal, Generation
<1>3. Services /\ Runtime /\ Foreign /\ Undoable
  BY DEF Services, HalfRestored, Runtime, Foreign, Undoable
<1> QED
  BY <1>1, <1>2, <1>3 DEF IInv

\* Every step preserves the invariant.
LEMMA NextIInv == IInv /\ [Next]_vars => IInv'
<1> SUFFICES ASSUME IInv, [Next]_vars PROVE IInv'
  OBVIOUS
<1> USE DeployAssumption DEF DeployAssumption, IInv, fs, units, host, journal, recovery, Fresh, NoGen,
        Preparing, InTransaction, CleanupCandidate, Persist, Manifests, NoManifest, Entries,
        States, Journaled
<1>1. CASE Prepare
  <2> USE <1>1 DEF Prepare
  <2>1. TypeOK'
    BY DEF TypeOK, Stage, Journal, Generation
  <2>2. Stage' /\ Journal'
    BY DEF TypeOK, Stage, Journal
  <2>3. Generation' /\ Services'
    BY DEF TypeOK, Stage, Journal, Generation, Services, HalfRestored
  <2>4. Runtime'
    BY DEF TypeOK, Stage, Services, Runtime
  <2>5. Foreign' /\ Undoable'
    BY DEF TypeOK, Stage, Journal, Generation, Foreign, Undoable, Known
  <2> QED
    BY <2>1, <2>2, <2>3, <2>4, <2>5
<1>2. CASE Capture
  <2> USE <1>2 DEF Capture, CapturedRuntime
  <2>a. FlagsOK'
    BY DEF FlagsOK, TypeOK
  <2>b. ManifestOK'
    <3>1. [p \in Paths |-> [orig |-> NoGen, repl |-> NoGen]] \in [Paths -> Entries]
      OBVIOUS
    <3>2. CapturedRuntime \in [active : SUBSET Units, enabled : SUBSET Units,
                               boot : 1..(MaxFaults + 1)]
      BY DEF TypeOK
    <3>3. man' \in Manifests
      <4> HIDE DEF Entries, CapturedRuntime
      <4> QED
        BY <3>1, <3>2, EmptyPathSeq
    <3> QED
      BY <3>3 DEF ManifestOK
  <2>c. TodoOK'
    BY EmptyPathSeq DEF TodoOK, TypeOK
  <2>d. RestOK'
    BY DEF RestOK, TypeOK, Stage, Journal, Generation
  <2>1. TypeOK'
    BY <2>a, <2>b, <2>c, <2>d, Zenon DEF FlagsOK, ManifestOK, TodoOK, RestOK, TypeOK
  <2>2. Stage' /\ Journal'
    BY DEF TypeOK, Stage, Journal
  <2>3. Generation' /\ Services'
    BY DEF TypeOK, Stage, Journal, Generation, Services, HalfRestored
  <2>4. Runtime'
    BY DEF TypeOK, Stage, Services, Runtime
  <2>5. Foreign' /\ Undoable'
    BY DEF TypeOK, Stage, Journal, Generation, Foreign, Undoable, Known
  <2> QED
    BY <2>1, <2>2, <2>3, <2>4, <2>5
<1>3. CASE CaptureFails
  <2> USE <1>3 DEF CaptureFails
  <2>a. FlagsOK'
    BY DEF FlagsOK, TypeOK
  <2>b. ManifestOK'
    BY DEF ManifestOK, TypeOK
  <2>c. TodoOK'
    BY EmptyPathSeq DEF TodoOK, TypeOK
  <2>d. RestOK'
    BY DEF RestOK, TypeOK, Stage, Journal, Generation
  <2>1. TypeOK'
    BY <2>a, <2>b, <2>c, <2>d, Zenon DEF FlagsOK, ManifestOK, TodoOK, RestOK, TypeOK
  <2>2. Stage' /\ Journal'
    BY DEF TypeOK, Stage, Journal
  <2>3. Generation' /\ Services'
    BY DEF TypeOK, Stage, Journal, Generation, Services, HalfRestored
  <2>4. Runtime'
    BY DEF TypeOK, Stage, Services, Runtime
  <2>5. Foreign' /\ Undoable'
    BY DEF TypeOK, Stage, Journal, Generation, Foreign, Undoable, Known
  <2> QED
    BY <2>1, <2>2, <2>3, <2>4, <2>5
<1>4. CASE Snapshot
  <2> USE <1>4 DEF Snapshot, SnapshotEntry
  <2>a. FlagsOK'
    BY DEF FlagsOK, TypeOK
  <2>b. ManifestOK'
    <3>1. man \in Manifests
      BY ManifestSome DEF Stage
    <3>2. Allowlist[Cardinality(man.snapped) + 1] \in Paths
      BY <3>1, AllowlistPaths
    <3>3. \A p \in Paths : SnapshotEntry(p) \in Entries
      BY DEF TypeOK
    <3> HIDE DEF Manifests, NoManifest, Entries, SnapshotEntry
    <3> QED
      BY <3>1, <3>2, <3>3, ManifestSnapshots DEF ManifestOK
  <2>c. TodoOK'
    BY EmptyPathSeq DEF TodoOK, TypeOK
  <2>d. RestOK'
    <3>1. Allowlist[Cardinality(man.snapped) + 1] \in Paths
      BY ManifestSome, AllowlistPaths DEF Stage
    <3> QED
      BY <3>1 DEF RestOK, TypeOK, Stage, Journal, Generation
  <2>1. TypeOK'
    BY <2>a, <2>b, <2>c, <2>d, Zenon DEF FlagsOK, ManifestOK, TodoOK, RestOK, TypeOK
  <2>2. Stage' /\ Journal'
    <3> DEFINE p == Allowlist[Cardinality(man.snapped) + 1]
    <3>1. man \in Manifests /\ p \in Paths
      BY ManifestSome, AllowlistPaths DEF Stage
    <3>2. /\ man'.state = "preparing" /\ man'.committed = man.committed
          /\ man'.pending = man.pending /\ man'.snapped = man.snapped \cup {p}
          /\ man'.entries = [man.entries EXCEPT ![p] = SnapshotEntry(p)]
          /\ snaps' = snaps \cup {p} /\ man' # NoManifest
      BY <3>1
    <3> HIDE DEF p
    <3>3. \A q \in Paths : man'.entries[q] = IF q = p THEN SnapshotEntry(p) ELSE man.entries[q]
      BY <3>1, <3>2
    <3>4. \A q \in Paths : man'.entries[q].repl = NoGen
      BY <3>1, <3>3 DEF Journal
    <3>5. \A q \in man'.snapped : man'.entries[q].orig # NoGen
      <4>1. man # NoManifest /\ man.snapped \subseteq Paths /\ tree[p] # NoGen
        BY <3>1 DEF TypeOK
      <4>2. ASSUME NEW q \in man'.snapped, q # p PROVE man'.entries[q].orig # NoGen
        BY <3>2, <3>3, <4>1, <4>2 DEF Journal
      <4>3. man'.entries[p].orig # NoGen
        BY <3>1, <3>3, <4>1
      <4> QED
        BY <4>2, <4>3
    <3>6. Stage'
      BY <3>1, <3>2 DEF Stage
    <3>7. man'.snapped \subseteq snaps' /\ man'.committed = <<>> /\ man'.pending = {}
      BY <3>1, <3>2 DEF Journal
    <3> QED
      BY <3>2, <3>4, <3>5, <3>6, <3>7 DEF Journal
  <2>3. Generation' /\ Services'
    BY DEF TypeOK, Stage, Journal, Generation, Services, HalfRestored
  <2>4. Runtime'
    BY DEF TypeOK, Stage, Services, Runtime
  <2>5. Foreign' /\ Undoable'
    BY DEF TypeOK, Stage, Journal, Generation, Foreign, Undoable, Known
  <2> QED
    BY <2>1, <2>2, <2>3, <2>4, <2>5
<1>5. CASE SnapshotDone
  <2> USE <1>5 DEF SnapshotDone
  <2>a. FlagsOK'
    BY DEF FlagsOK, TypeOK
  <2>b. ManifestOK'
    <3>1. man \in Manifests /\ "active" \in States
      BY ManifestSome DEF Stage
    <3> HIDE DEF Manifests, NoManifest, States
    <3> QED
      BY <3>1, ManifestStates DEF ManifestOK
  <2>c. TodoOK'
    BY EmptyPathSeq DEF TodoOK, TypeOK
  <2>d. RestOK'
    BY DEF RestOK, TypeOK, Stage, Journal, Generation
  <2>1. TypeOK'
    BY <2>a, <2>b, <2>c, <2>d, Zenon DEF FlagsOK, ManifestOK, TodoOK, RestOK, TypeOK
  <2>2. Stage' /\ Journal'
    <3>1. /\ man \in Manifests /\ man.committed = <<>> /\ man.pending = {} /\ man.snapped = Paths
          /\ snaps = Paths
      BY ManifestSome DEF TypeOK, Journal
    <3>2. /\ man' \in Manifests /\ man'.state = "active" /\ man'.committed = <<>>
          /\ man'.pending = {} /\ man'.snapped = Paths /\ man'.entries = man.entries
      BY <3>1
    <3> QED
      BY <3>1, <3>2, EmptyPathSeq DEF TypeOK, Stage, Journal
  <2>e. Generation'
    BY DEF TypeOK, Stage, Generation
  <2>3. Services'
    <3>1. man \in Manifests /\ man.committed = <<>>
      BY ManifestSome DEF Journal
    <3>2. ToSet(man'.committed) = {}
      BY <3>1, EmptyPathSeq
    <3> QED
      BY <3>2 DEF Services, HalfRestored
  <2>4. Runtime'
    BY DEF TypeOK, Stage, Services, Runtime
  <2>5. Foreign' /\ Undoable'
    BY DEF TypeOK, Stage, Journal, Generation, Foreign, Undoable, Known
  <2> QED
    BY <2>1, <2>2, <2>3, <2>4, <2>5, <2>e
<1>6. CASE Rename
  <2> USE <1>6 DEF Rename
  <2>1. TypeOK'
    BY DEF TypeOK, Stage, Journal, Generation
  <2>2. Stage' /\ Journal'
    BY DEF TypeOK, Stage, Journal
  <2>3. Generation' /\ Services'
    BY DEF TypeOK, Stage, Journal, Generation, Services, HalfRestored
  <2>4. Runtime'
    BY DEF TypeOK, Stage, Services, Runtime
  <2>5. Foreign' /\ Undoable'
    BY DEF TypeOK, Stage, Journal, Generation, Foreign, Undoable, Known
  <2> QED
    BY <2>1, <2>2, <2>3, <2>4, <2>5
<1>7. CASE After
  <2> USE <1>7 DEF After
  <2>a. FlagsOK'
    BY DEF FlagsOK, TypeOK
  <2>b. ManifestOK'
    <3>1. man \in Manifests /\ \A p \in man.pending : p \in Paths /\ p \notin ToSet(man.committed)
      BY ManifestSome DEF Stage, Journal
    <3> HIDE DEF Manifests, NoManifest
    <3> QED
      BY <3>1, ManifestAfter DEF ManifestOK
  <2>c. TodoOK'
    BY EmptyPathSeq DEF TodoOK, TypeOK
  <2>d. RestOK'
    BY DEF RestOK, TypeOK, Stage, Journal, Generation
  <2>1. TypeOK'
    BY <2>a, <2>b, <2>c, <2>d, Zenon DEF FlagsOK, ManifestOK, TodoOK, RestOK, TypeOK
  <2>f. PICK p \in man.pending : /\ tree[p] = man.entries[p].repl
                                 /\ man' = [man EXCEPT !.committed = Append(@, p), !.pending = {}]
    OBVIOUS
  <2>g. /\ man \in Manifests /\ man.committed \in PathSeqs /\ p \in Paths
        /\ p \notin ToSet(man.committed)
    BY <2>f, ManifestSome DEF Stage, Journal
  <2>h. /\ man'.state = man.state /\ man'.snapped = man.snapped /\ man'.entries = man.entries
        /\ man'.pending = {} /\ man'.committed = Append(man.committed, p)
        /\ ToSet(man'.committed) = ToSet(man.committed) \cup {p}
    BY <2>f, <2>g, AppendPathSeq
  <2>2. Stage' /\ Journal'
    <3>1. \A q \in man.pending : q = p
      BY <2>f DEF Stage, Journal
    <3> QED
      BY <2>f, <2>g, <2>h, <3>1 DEF TypeOK, Stage, Journal
  <2>e. Generation'
    BY DEF TypeOK, Stage, Generation
  <2>3. Services'
    BY <2>f, <2>g, <2>h DEF Services, HalfRestored
  <2>4. Runtime'
    BY DEF TypeOK, Stage, Services, Runtime
  <2>5. Foreign' /\ Undoable'
    BY DEF TypeOK, Stage, Journal, Generation, Foreign, Undoable, Known
  <2> QED
    BY <2>1, <2>2, <2>3, <2>4, <2>5, <2>e
<1>8. CASE Complete
  <2> USE <1>8 DEF Complete
  <2>1. TypeOK'
    BY DEF TypeOK, Stage, Journal, Generation
  <2>2. Stage' /\ Journal'
    BY DEF TypeOK, Stage, Journal
  <2>3. Generation' /\ Services'
    BY DEF TypeOK, Stage, Journal, Generation, Services, HalfRestored
  <2>4. Runtime'
    BY DEF TypeOK, Stage, Services, Runtime
  <2>5. Foreign' /\ Undoable'
    BY DEF TypeOK, Stage, Journal, Generation, Foreign, Undoable, Known
  <2> QED
    BY <2>1, <2>2, <2>3, <2>4, <2>5
<1>9. CASE Abort
  <2> USE <1>9 DEF Abort
  <2>1. TypeOK'
    BY DEF TypeOK, Stage, Journal, Generation
  <2>2. Stage' /\ Journal'
    BY DEF TypeOK, Stage, Journal
  <2>3. Generation' /\ Services'
    BY DEF TypeOK, Stage, Journal, Generation, Services, HalfRestored
  <2>4. Runtime'
    BY DEF TypeOK, Stage, Services, Runtime
  <2>5. Foreign' /\ Undoable'
    BY DEF TypeOK, Stage, Journal, Generation, Foreign, Undoable, Known
  <2> QED
    BY <2>1, <2>2, <2>3, <2>4, <2>5
<1>10. ASSUME NEW p \in Paths, NEW candidate \in SUBSET Paths, Before(p, candidate) PROVE IInv'
  <2> USE <1>10 DEF Before, CandidateGenerations
  <2>a. FlagsOK'
    BY DEF FlagsOK, TypeOK
  <2>b. ManifestOK'
    <3>1. man \in Manifests /\ \A g \in CandidateGenerations(p) : g \in 0..MaxGen
      BY ManifestSome DEF Stage, TypeOK
    <3>2. PICK g \in CandidateGenerations(p) :
                 man' = [man EXCEPT !.entries[p].repl = g, !.pending = {p}]
      OBVIOUS
    <3>3. g \in 0..MaxGen
      BY <3>1
    <3> HIDE DEF Manifests, NoManifest, CandidateGenerations
    <3> QED
      BY <3>1, <3>2, <3>3, ManifestBefore DEF ManifestOK
  <2>c. TodoOK'
    BY EmptyPathSeq DEF TodoOK, TypeOK
  <2>d. RestOK'
    BY DEF RestOK, TypeOK, Stage, Journal, Generation
  <2>1. TypeOK'
    BY <2>a, <2>b, <2>c, <2>d, Zenon DEF FlagsOK, ManifestOK, TodoOK, RestOK, TypeOK
  <2>2. Stage' /\ Journal'
    BY SMTT(30) DEF TypeOK, Stage, Journal
  <2>3. Generation' /\ Services'
    BY DEF TypeOK, Stage, Journal, Generation, Services, HalfRestored
  <2>4. Runtime'
    BY DEF TypeOK, Stage, Services, Runtime
  <2>5. Foreign' /\ Undoable'
    BY DEF TypeOK, Stage, Journal, Generation, Foreign, Undoable, Known
  <2> QED
    BY <2>1, <2>2, <2>3, <2>4, <2>5
<1>11. ASSUME NEW u \in Units, DeployStarts(u) PROVE IInv'
  <2> USE <1>11 DEF DeployStarts
  <2>1. TypeOK'
    BY DEF TypeOK, Stage, Journal, Generation
  <2>2. Stage' /\ Journal'
    BY DEF TypeOK, Stage, Journal
  <2>3. Generation' /\ Services'
    BY DEF TypeOK, Stage, Journal, Generation, Services, HalfRestored
  <2>4. Runtime'
    BY DEF TypeOK, Stage, Services, Runtime
  <2>5. Foreign' /\ Undoable'
    BY DEF TypeOK, Stage, Journal, Generation, Foreign, Undoable, Known
  <2> QED
    BY <2>1, <2>2, <2>3, <2>4, <2>5
<1>12. ASSUME NEW u \in Units, DeployStops(u) PROVE IInv'
  <2> USE <1>12 DEF DeployStops
  <2>1. TypeOK'
    BY DEF TypeOK, Stage, Journal, Generation
  <2>2. Stage' /\ Journal'
    BY DEF TypeOK, Stage, Journal
  <2>3. Generation' /\ Services'
    BY DEF TypeOK, Stage, Journal, Generation, Services, HalfRestored
  <2>4. Runtime'
    BY DEF TypeOK, Stage, Services, Runtime
  <2>5. Foreign' /\ Undoable'
    BY DEF TypeOK, Stage, Journal, Generation, Foreign, Undoable, Known
  <2> QED
    BY <2>1, <2>2, <2>3, <2>4, <2>5
<1>13. CASE RecoverBegin
  <2> USE <1>13 DEF RecoverBegin
  <2>a. FlagsOK'
    BY DEF FlagsOK, TypeOK
  <2>b. ManifestOK'
    BY DEF ManifestOK, TypeOK
  <2>c. TodoOK'
    BY EmptyPathSeq DEF TodoOK, TypeOK
  <2>d. RestOK'
    BY DEF RestOK, TypeOK, Stage, Journal, Generation
  <2>1. TypeOK'
    BY <2>a, <2>b, <2>c, <2>d, Zenon DEF FlagsOK, ManifestOK, TodoOK, RestOK, TypeOK
  <2>2. Stage' /\ Journal'
    BY DEF TypeOK, Stage, Journal
  <2>3. Generation' /\ Services'
    BY DEF TypeOK, Stage, Journal, Generation, Services, HalfRestored
  <2>4. Runtime'
    BY DEF TypeOK, Stage, Services, Runtime
  <2>5. Foreign' /\ Undoable'
    BY DEF TypeOK, Stage, Journal, Generation, Foreign, Undoable, Known
  <2> QED
    BY <2>1, <2>2, <2>3, <2>4, <2>5
<1>14. CASE RecoverClean
  <2> USE <1>14 DEF RecoverClean
  <2>a. FlagsOK'
    BY DEF FlagsOK, TypeOK
  <2>b. ManifestOK'
    BY DEF ManifestOK, TypeOK
  <2>c. TodoOK'
    BY EmptyPathSeq DEF TodoOK, TypeOK
  <2>d. RestOK'
    BY DEF RestOK, TypeOK, Stage, Journal, Generation
  <2>1. TypeOK'
    BY <2>a, <2>b, <2>c, <2>d, Zenon DEF FlagsOK, ManifestOK, TodoOK, RestOK, TypeOK
  <2>2. Stage' /\ Journal'
    BY DEF TypeOK, Stage, Journal
  <2>3. Generation' /\ Services'
    BY DEF TypeOK, Stage, Journal, Generation, Services, HalfRestored
  <2>4. Runtime'
    BY DEF TypeOK, Stage, Services, Runtime
  <2>5. Foreign' /\ Undoable'
    BY DEF TypeOK, Stage, Journal, Generation, Foreign, Undoable, Known
  <2> QED
    BY <2>1, <2>2, <2>3, <2>4, <2>5
<1>15. CASE RecoverRestored
  <2> USE <1>15 DEF RecoverRestored
  <2>a. FlagsOK'
    BY DEF FlagsOK, TypeOK
  <2>b. ManifestOK'
    BY DEF ManifestOK, TypeOK
  <2>c. TodoOK'
    BY EmptyPathSeq DEF TodoOK, TypeOK
  <2>d. RestOK'
    BY DEF RestOK, TypeOK, Stage, Journal, Generation
  <2>1. TypeOK'
    BY <2>a, <2>b, <2>c, <2>d, Zenon DEF FlagsOK, ManifestOK, TodoOK, RestOK, TypeOK
  <2>2. Stage' /\ Journal'
    BY DEF TypeOK, Stage, Journal
  <2>3. Generation' /\ Services'
    BY DEF TypeOK, Stage, Journal, Generation, Services, HalfRestored
  <2>4. Runtime'
    BY DEF TypeOK, Stage, Services, Runtime
  <2>5. Foreign' /\ Undoable'
    BY DEF TypeOK, Stage, Journal, Generation, Foreign, Undoable, Known
  <2> QED
    BY <2>1, <2>2, <2>3, <2>4, <2>5
<1>16. CASE RecoverPreparing
  <2> USE <1>16 DEF RecoverPreparing
  <2>a. FlagsOK'
    BY DEF FlagsOK, TypeOK
  <2>b. ManifestOK'
    BY DEF ManifestOK, TypeOK
  <2>c. TodoOK'
    BY EmptyPathSeq DEF TodoOK, TypeOK
  <2>d. RestOK'
    BY DEF RestOK, TypeOK, Stage, Journal, Generation
  <2>1. TypeOK'
    BY <2>a, <2>b, <2>c, <2>d, Zenon DEF FlagsOK, ManifestOK, TodoOK, RestOK, TypeOK
  <2>2. Stage' /\ Journal'
    BY DEF TypeOK, Stage, Journal
  <2>3. Generation' /\ Services'
    BY DEF TypeOK, Stage, Journal, Generation, Services, HalfRestored
  <2>4. Runtime'
    BY DEF TypeOK, Stage, Services, Runtime
  <2>5. Foreign' /\ Undoable'
    BY DEF TypeOK, Stage, Journal, Generation, Foreign, Undoable, Known
  <2> QED
    BY <2>1, <2>2, <2>3, <2>4, <2>5
<1>17. CASE RecoverPreflight
  <2> USE <1>17 DEF RecoverPreflight
  <2>a. FlagsOK'
    BY DEF FlagsOK, TypeOK
  <2>b. ManifestOK'
    BY DEF ManifestOK, TypeOK
  <2>c. TodoOK'
    BY EmptyPathSeq DEF TodoOK, TypeOK
  <2>d. RestOK'
    BY DEF RestOK, TypeOK, Stage, Journal, Generation
  <2>1. TypeOK'
    BY <2>a, <2>b, <2>c, <2>d, Zenon DEF FlagsOK, ManifestOK, TodoOK, RestOK, TypeOK
  <2>2. Stage' /\ Journal'
    BY DEF TypeOK, Stage, Journal
  <2>3. Generation' /\ Services'
    BY DEF TypeOK, Stage, Journal, Generation, Services, HalfRestored
  <2>4. Runtime'
    BY DEF TypeOK, Stage, Services, Runtime
  <2>5. Foreign' /\ Undoable'
    BY DEF TypeOK, Stage, Journal, Generation, Foreign, Undoable, Known
  <2> QED
    BY <2>1, <2>2, <2>3, <2>4, <2>5
<1>18. CASE Quiesced
  <2> USE <1>18 DEF Quiesced
  <2>a. FlagsOK'
    BY DEF FlagsOK, TypeOK
  <2>b. ManifestOK'
    BY DEF ManifestOK, TypeOK
  <2>c. TodoOK'
    <3>1. man \in Manifests
      BY ManifestSome DEF Stage
    <3>2. CASE man.state = "preparing"
      BY <3>2 DEF TodoOK, TypeOK
    <3>3. CASE man.state # "preparing"
      <4>1. man.committed \in PathSeqs /\ man.pending \in SUBSET Paths
            /\ man.pending \cap ToSet(man.committed) = {}
        BY <3>1, <3>3 DEF Stage, Journal
      <4>2. man.committed \o SetToSeq(man.pending) \in PathSeqs
        BY <4>1, ConcatPathSeq
      <4>3. todo' = ReverseMutations
        BY <3>3
      <4> QED
        BY <4>2, <4>3, LatestFirstPathSeq DEF TodoOK, ReverseMutations
    <3> QED
      BY <3>2, <3>3
  <2>d. RestOK'
    BY DEF RestOK, TypeOK, Stage, Journal, Generation
  <2>1. TypeOK'
    BY <2>a, <2>b, <2>c, <2>d, Zenon DEF FlagsOK, ManifestOK, TodoOK, RestOK, TypeOK
  <2>2. Stage' /\ Journal'
    BY DEF TypeOK, Stage, Journal
  <2>3. Generation' /\ Services'
    BY DEF TypeOK, Stage, Journal, Generation, Services, HalfRestored
  <2>4. Runtime'
    BY DEF TypeOK, Stage, Services, Runtime
  <2>5. Foreign' /\ Undoable'
    BY DEF TypeOK, Stage, Journal, Generation, Foreign, Undoable, Known
  <2> QED
    BY <2>1, <2>2, <2>3, <2>4, <2>5
<1>19. CASE MarkRestoring
  <2> USE <1>19 DEF MarkRestoring
  <2>a. FlagsOK'
    BY DEF FlagsOK, TypeOK
  <2>b. ManifestOK'
    <3>1. man \in Manifests /\ "restoring" \in States
      BY ManifestSome DEF Stage
    <3> HIDE DEF Manifests, NoManifest, States
    <3> QED
      BY <3>1, ManifestStates DEF ManifestOK
  <2>c. TodoOK'
    BY EmptyPathSeq DEF TodoOK, TypeOK
  <2>d. RestOK'
    BY DEF RestOK, TypeOK, Stage, Journal, Generation
  <2>1. TypeOK'
    BY <2>a, <2>b, <2>c, <2>d, Zenon DEF FlagsOK, ManifestOK, TodoOK, RestOK, TypeOK
  <2>2. Stage' /\ Journal'
    BY DEF TypeOK, Stage, Journal
  <2>3. Generation' /\ Services'
    BY DEF TypeOK, Stage, Journal, Generation, Services, HalfRestored
  <2>4. Runtime'
    BY DEF TypeOK, Stage, Services, Runtime
  <2>5. Foreign' /\ Undoable'
    BY DEF TypeOK, Stage, Journal, Generation, Foreign, Undoable, Known
  <2> QED
    BY <2>1, <2>2, <2>3, <2>4, <2>5
<1>20. CASE RestoreCheck
  <2> USE <1>20 DEF RestoreCheck
  <2>a. FlagsOK'
    BY DEF FlagsOK, TypeOK
  <2>b. ManifestOK'
    BY DEF ManifestOK, TypeOK
  <2>c. TodoOK'
    BY TailPathSeq DEF TodoOK, TypeOK, Stage
  <2>d. RestOK'
    BY DEF RestOK, TypeOK, Stage, Journal, Generation
  <2>1. TypeOK'
    BY <2>a, <2>b, <2>c, <2>d, Zenon DEF FlagsOK, ManifestOK, TodoOK, RestOK, TypeOK
  <2>2. Stage' /\ Journal'
    BY DEF TypeOK, Stage, Journal
  <2>3. Generation' /\ Services'
    BY DEF TypeOK, Stage, Journal, Generation, Services, HalfRestored
  <2>4. Runtime'
    BY DEF TypeOK, Stage, Services, Runtime
  <2>5. Foreign'
    BY TailPathSeq DEF TypeOK, Stage, Journal, Generation, Foreign, Undoable, Known
  <2>6. Undoable'
    BY DEF TypeOK, Stage, Journal, Generation, Foreign, Undoable, Known
  <2> QED
    BY <2>1, <2>2, <2>3, <2>4, <2>5, <2>6
<1>21. CASE RestorePut
  <2> USE <1>21 DEF RestorePut
  <2>a. FlagsOK'
    BY DEF FlagsOK, TypeOK
  <2>b. ManifestOK'
    BY DEF ManifestOK, TypeOK
  <2>c. TodoOK'
    BY TailPathSeq DEF TodoOK, TypeOK, Stage
  <2>d. RestOK'
    BY TailPathSeq DEF RestOK, TypeOK, Stage, Journal, Generation
  <2>1. TypeOK'
    BY <2>a, <2>b, <2>c, <2>d, Zenon DEF FlagsOK, ManifestOK, TodoOK, RestOK, TypeOK
  <2>2. Stage' /\ Journal'
    BY DEF TypeOK, Stage, Journal
  <2>3. Generation' /\ Services'
    BY DEF TypeOK, Stage, Journal, Generation, Services, HalfRestored
  <2>4. Runtime'
    BY DEF TypeOK, Stage, Services, Runtime
  <2>5. Foreign' /\ Undoable'
    BY SMTT(30) DEF TypeOK, Stage, Journal, Generation, Foreign, Undoable, Known
  <2> QED
    BY <2>1, <2>2, <2>3, <2>4, <2>5
<1>22. CASE RestoredAll
  <2> USE <1>22 DEF RestoredAll
  <2>1. TypeOK'
    BY DEF TypeOK, Stage, Journal, Generation
  <2>2. Stage' /\ Journal'
    BY DEF TypeOK, Stage, Journal
  <2>3. Generation' /\ Services'
    BY DEF TypeOK, Stage, Journal, Generation, Services, HalfRestored
  <2>4. Runtime'
    BY DEF TypeOK, Stage, Services, Runtime
  <2>5. Foreign' /\ Undoable'
    BY DEF TypeOK, Stage, Journal, Generation, Foreign, Undoable, Known
  <2> QED
    BY <2>1, <2>2, <2>3, <2>4, <2>5
<1>23. CASE RestoreRuntime
  <2> USE <1>23 DEF RestoreRuntime
  <2>1. TypeOK'
    BY DEF TypeOK, Stage, Journal, Generation
  <2>2. Stage' /\ Journal'
    BY DEF TypeOK, Stage, Journal
  <2>3. Generation' /\ Services'
    BY DEF TypeOK, Stage, Journal, Generation, Services, HalfRestored
  <2>4. Runtime'
    BY DEF TypeOK, Stage, Services, Runtime
  <2>5. Foreign' /\ Undoable'
    BY DEF TypeOK, Stage, Journal, Generation, Foreign, Undoable, Known
  <2> QED
    BY <2>1, <2>2, <2>3, <2>4, <2>5
<1>24. CASE VerifyRestored
  <2> USE <1>24 DEF VerifyRestored
  <2>a. FlagsOK'
    BY DEF FlagsOK, TypeOK
  <2>b. ManifestOK'
    <3>1. man \in Manifests /\ "restored" \in States
      BY ManifestSome DEF Stage
    <3> HIDE DEF Manifests, NoManifest, States
    <3> QED
      BY <3>1, ManifestStates DEF ManifestOK
  <2>c. TodoOK'
    BY EmptyPathSeq DEF TodoOK, TypeOK
  <2>d. RestOK'
    BY DEF RestOK, TypeOK, Stage, Journal, Generation
  <2>1. TypeOK'
    BY <2>a, <2>b, <2>c, <2>d, Zenon DEF FlagsOK, ManifestOK, TodoOK, RestOK, TypeOK
  <2>2. Stage' /\ Journal'
    BY DEF TypeOK, Stage, Journal
  <2>3. Generation' /\ Services'
    BY DEF TypeOK, Stage, Journal, Generation, Services, HalfRestored
  <2>4. Runtime'
    BY DEF TypeOK, Stage, Services, Runtime
  <2>5. Foreign' /\ Undoable'
    BY DEF TypeOK, Stage, Journal, Generation, Foreign, Undoable, Known
  <2> QED
    BY <2>1, <2>2, <2>3, <2>4, <2>5
<1>25. CASE Resume
  <2> USE <1>25 DEF Resume, Resumed
  <2>1. TypeOK'
    BY DEF TypeOK, Stage, Journal, Generation
  <2>2. Stage' /\ Journal'
    BY DEF TypeOK, Stage, Journal
  <2>3. Generation' /\ Services'
    BY DEF TypeOK, Stage, Journal, Generation, Services, HalfRestored
  <2>4. Runtime'
    BY DEF TypeOK, Stage, Services, Runtime
  <2>5. Foreign' /\ Undoable'
    BY DEF TypeOK, Stage, Journal, Generation, Foreign, Undoable, Known
  <2> QED
    BY <2>1, <2>2, <2>3, <2>4, <2>5
<1>26. CASE CleanupFile
  <2> USE <1>26 DEF CleanupFile
  <2>1. TypeOK'
    BY DEF TypeOK, Stage, Journal, Generation
  <2>2. Stage' /\ Journal'
    BY DEF TypeOK, Stage, Journal
  <2>3. Generation' /\ Services'
    BY DEF TypeOK, Stage, Journal, Generation, Services, HalfRestored
  <2>4. Runtime'
    BY DEF TypeOK, Stage, Services, Runtime
  <2>5. Foreign' /\ Undoable'
    BY DEF TypeOK, Stage, Journal, Generation, Foreign, Undoable, Known
  <2> QED
    BY <2>1, <2>2, <2>3, <2>4, <2>5
<1>27. CASE CleanupDir
  <2> USE <1>27 DEF CleanupDir
  <2>a. FlagsOK'
    BY DEF FlagsOK, TypeOK
  <2>b. ManifestOK'
    BY DEF ManifestOK, TypeOK
  <2>c. TodoOK'
    BY EmptyPathSeq DEF TodoOK, TypeOK
  <2>d. RestOK'
    BY DEF RestOK, TypeOK, Stage, Journal, Generation
  <2>1. TypeOK'
    BY <2>a, <2>b, <2>c, <2>d, Zenon DEF FlagsOK, ManifestOK, TodoOK, RestOK, TypeOK
  <2>2. Stage' /\ Journal'
    BY DEF TypeOK, Stage, Journal
  <2>3. Generation' /\ Services'
    BY DEF TypeOK, Stage, Journal, Generation, Services, HalfRestored
  <2>4. Runtime'
    BY DEF TypeOK, Stage, Services, Runtime
  <2>5. Foreign' /\ Undoable'
    BY DEF TypeOK, Stage, Journal, Generation, Foreign, Undoable, Known
  <2> QED
    BY <2>1, <2>2, <2>3, <2>4, <2>5
<1>28. ASSUME NEW u \in Units, StopUnit(u) PROVE IInv'
  <2> USE <1>28 DEF StopUnit
  <2>1. TypeOK'
    BY DEF TypeOK, Stage, Journal, Generation
  <2>2. Stage' /\ Journal'
    BY DEF TypeOK, Stage, Journal
  <2>3. Generation' /\ Services'
    BY DEF TypeOK, Stage, Journal, Generation, Services, HalfRestored
  <2>4. Runtime'
    BY DEF TypeOK, Stage, Services, Runtime
  <2>5. Foreign' /\ Undoable'
    BY DEF TypeOK, Stage, Journal, Generation, Foreign, Undoable, Known
  <2> QED
    BY <2>1, <2>2, <2>3, <2>4, <2>5
<1>29. CASE PreparingFails
  <2> USE <1>29 DEF PreparingFails, Resumed
  <2>a. FlagsOK'
    BY DEF FlagsOK, TypeOK
  <2>b. ManifestOK'
    BY DEF ManifestOK, TypeOK
  <2>c. TodoOK'
    BY EmptyPathSeq DEF TodoOK, TypeOK
  <2>d. RestOK'
    BY DEF RestOK, TypeOK, Stage, Journal, Generation
  <2>1. TypeOK'
    BY <2>a, <2>b, <2>c, <2>d, Zenon DEF FlagsOK, ManifestOK, TodoOK, RestOK, TypeOK
  <2>2. Stage' /\ Journal'
    BY DEF TypeOK, Stage, Journal
  <2>3. Generation' /\ Services'
    BY DEF TypeOK, Stage, Journal, Generation, Services, HalfRestored
  <2>4. Runtime'
    BY DEF TypeOK, Stage, Services, Runtime
  <2>5. Foreign' /\ Undoable'
    BY DEF TypeOK, Stage, Journal, Generation, Foreign, Undoable, Known
  <2> QED
    BY <2>1, <2>2, <2>3, <2>4, <2>5
<1>30. CASE RecoveryFails
  <2> USE <1>30 DEF RecoveryFails, Restarted
  <2>a. FlagsOK'
    BY DEF FlagsOK, TypeOK
  <2>b. ManifestOK'
    <3>1. man \in Manifests /\ "recovery-failed" \in States
      BY ManifestSome DEF Stage
    <3> HIDE DEF Manifests, NoManifest, States
    <3> QED
      BY <3>1, ManifestStates DEF ManifestOK
  <2>c. TodoOK'
    BY EmptyPathSeq DEF TodoOK, TypeOK
  <2>d. RestOK'
    BY DEF RestOK, TypeOK, Stage, Journal, Generation
  <2>1. TypeOK'
    BY <2>a, <2>b, <2>c, <2>d, Zenon DEF FlagsOK, ManifestOK, TodoOK, RestOK, TypeOK
  <2>e. /\ man \in Manifests /\ man' \in Manifests
        /\ man' = [man EXCEPT !.state = man'.state]
        /\ InTransaction /\ man'.state \in {man.state, "recovery-failed"}
    BY ManifestSome DEF Stage
  <2>f. /\ man'.entries = man.entries /\ man'.snapped = man.snapped
        /\ man'.committed = man.committed /\ man'.pending = man.pending
        /\ man'.runtime = man.runtime
    BY <2>e
  <2>2. Stage' /\ Journal'
    BY <2>e, <2>f DEF TypeOK, Stage, Journal
  <2>3. Generation' /\ Services'
    BY <2>e, <2>f DEF TypeOK, Stage, Generation, Services, HalfRestored
  <2>4. Runtime'
    BY <2>e, <2>f DEF TypeOK, Stage, Runtime
  <2>5. Foreign' /\ Undoable'
    BY <2>e, <2>f DEF TypeOK, Stage, Foreign, Undoable, Known
  <2> QED
    BY <2>1, <2>2, <2>3, <2>4, <2>5
<1>31. CASE Kill
  <2> USE <1>31 DEF Kill
  <2>a. FlagsOK'
    BY DEF FlagsOK, TypeOK
  <2>b. ManifestOK'
    BY DEF ManifestOK, TypeOK
  <2>c. TodoOK'
    BY EmptyPathSeq DEF TodoOK, TypeOK
  <2>d. RestOK'
    BY DEF RestOK, TypeOK, Stage, Journal, Generation
  <2>1. TypeOK'
    BY <2>a, <2>b, <2>c, <2>d, Zenon DEF FlagsOK, ManifestOK, TodoOK, RestOK, TypeOK
  <2>2. Stage' /\ Journal'
    BY DEF TypeOK, Stage, Journal
  <2>3. Generation' /\ Services'
    BY DEF TypeOK, Stage, Journal, Generation, Services, HalfRestored
  <2>4. Runtime'
    BY DEF TypeOK, Stage, Services, Runtime
  <2>5. Foreign' /\ Undoable'
    BY DEF TypeOK, Stage, Journal, Generation, Foreign, Undoable, Known
  <2> QED
    BY <2>1, <2>2, <2>3, <2>4, <2>5
<1>32. CASE HostCrash
  <2> USE <1>32 DEF HostCrash
  <2>a. FlagsOK'
    BY DEF FlagsOK, TypeOK
  <2>b. ManifestOK'
    BY DEF ManifestOK, TypeOK
  <2>c. TodoOK'
    BY EmptyPathSeq DEF TodoOK, TypeOK
  <2>d. RestOK'
    BY DEF RestOK, TypeOK, Runtime
  <2>1. TypeOK'
    BY <2>a, <2>b, <2>c, <2>d, Zenon DEF FlagsOK, ManifestOK, TodoOK, RestOK, TypeOK
  <2>2. Stage' /\ Journal'
    BY DEF TypeOK, Stage, Journal
  <2>3. Generation' /\ Services'
    BY DEF TypeOK, Stage, Journal, Generation, Services, HalfRestored
  <2>4. Runtime'
    BY DEF TypeOK, Stage, Services, Runtime
  <2>5. Foreign' /\ Undoable'
    BY DEF TypeOK, Stage, Journal, Generation, Foreign, Undoable, Known
  <2> QED
    BY <2>1, <2>2, <2>3, <2>4, <2>5
<1>33. ASSUME NEW u \in Units, SystemdStart(u) PROVE IInv'
  <2> USE <1>33 DEF SystemdStart
  <2>1. TypeOK'
    BY DEF TypeOK, Stage, Journal, Generation
  <2>2. Stage' /\ Journal'
    BY DEF TypeOK, Stage, Journal
  <2>3. Generation' /\ Services'
    BY DEF TypeOK, Stage, Journal, Generation, Services, HalfRestored
  <2>4. Runtime'
    BY DEF TypeOK, Stage, Services, Runtime
  <2>5. Foreign' /\ Undoable'
    BY DEF TypeOK, Stage, Journal, Generation, Foreign, Undoable, Known
  <2> QED
    BY <2>1, <2>2, <2>3, <2>4, <2>5
<1>34. ASSUME NEW p \in Paths, OtherWrites(p) PROVE IInv'
  <2> USE <1>34 DEF OtherWrites, InWindow
  <2>1. TypeOK'
    BY DEF TypeOK, Stage, Journal, Generation
  <2>2. Stage' /\ Journal'
    BY DEF TypeOK, Stage, Journal
  <2>e. Generation'
    BY SMTT(30) DEF TypeOK, Stage, Generation
  <2>3. Services'
    BY SMTT(30) DEF TypeOK, Stage, Journal, Generation, Services, HalfRestored
  <2>4. Runtime'
    BY DEF TypeOK, Stage, Services, Runtime
  <2>5. Foreign'
    BY TailPathSeq DEF TypeOK, Stage, Journal, Generation, Foreign, Undoable, Known
  <2>6. Undoable'
    BY ZenonT(40) DEF TypeOK, Stage, Journal, Generation, Foreign, Undoable, Known
  <2> QED
    BY <2>1, <2>2, <2>3, <2>4, <2>5, <2>6, <2>e
<1>35. CASE UNCHANGED vars
  BY <1>35 DEF vars, TypeOK, Stage, Journal, Generation, Services, HalfRestored, Runtime, Foreign, Undoable, Known
<1> QED
  BY <1>1, <1>2, <1>3, <1>4, <1>5, <1>6, <1>7, <1>8, <1>9, <1>10, <1>11, <1>12, <1>13, <1>14, <1>15, <1>16, <1>17, <1>18, <1>19, <1>20, <1>21, <1>22, <1>23, <1>24, <1>25, <1>26, <1>27, <1>28, <1>29, <1>30, <1>31, <1>32, <1>33, <1>34, <1>35 DEF Next, Deployment, Recovery, Failure

-----------------------------------------------------------------------------
(* The theorems.                                                           *)

(* The invariant of the journal holds in every state a deployment, its     *)
(* recovery, a kill, a host crash and other writers can reach.             *)
THEOREM JournalInductive == Spec => []IInv
<1>1. Init => IInv
  BY InitIInv
<1>2. IInv /\ [Next]_vars => IInv'
  BY NextIInv
<1> QED
  BY <1>1, <1>2, PTL DEF Spec

(* A journal that may still have to be rolled back has all its snapshots,  *)
(* and no candidate file outlives the journal.                             *)
THEOREM SnapshotsAlwaysCover == Spec => []SnapshotsCoverJournal
<1>1. IInv => SnapshotsCoverJournal
  <2> SUFFICES ASSUME IInv PROVE SnapshotsCoverJournal
    OBVIOUS
  <2>1. TypeOK
    BY DEF IInv
  <2>2. InTransaction => pend /\ snaps = Paths
    BY DEF IInv, Stage, Journal, InTransaction, NoManifest
  <2>3. ~pend => staged = {}
    BY DEF IInv, Stage, Journal, InTransaction, NoManifest
  <2> QED
    BY <2>1, <2>2, <2>3 DEF SnapshotsCoverJournal
<1> QED
  BY <1>1, JournalInductive, PTL

(* Once an artifact has gone back no managed unit runs before "restored"   *)
(* is durable, whatever failed or was killed in between.                   *)
THEOREM ServicesStayDown == Spec => []NoServiceOnHalfRestoredTree
<1>1. IInv => NoServiceOnHalfRestoredTree
  BY DEF IInv, Services, HalfRestored, NoServiceOnHalfRestoredTree
<1> QED
  BY <1>1, JournalInductive, PTL

(* The helper overwrites no generation that it does not know, unless it    *)
(* appeared between the check and the rename.                              *)
THEOREM UnknownIsKept == Spec => UnknownNeverOverwritten
<1>1. IInv /\ [Next]_vars
        => [\A p \in Paths : (tree'[p] # tree[p] /\ next' = next /\ InTransaction /\ boot' = boot)
                                => tree[p] \in Known(p) \/ p \in raced]_vars
  <2> SUFFICES ASSUME IInv, Next, NEW p \in Paths,
                      tree'[p] # tree[p], next' = next, InTransaction, boot' = boot
               PROVE  tree[p] \in Known(p) \/ p \in raced
    OBVIOUS
  <2>1. tree' # tree
    OBVIOUS
  <2>2. tree \in [Paths -> 1..MaxGen] /\ next \in Nat /\ boot \in Nat
    BY DeployAssumption DEF DeployAssumption, IInv, TypeOK
  <2>3. CASE Rename
    BY <2>2, <2>3 DEF Rename, IInv, Foreign
  <2>4. CASE RestorePut
    BY <2>2, <2>4 DEF RestorePut, IInv, Foreign
  <2>5. ~HostCrash
    BY <2>2 DEF HostCrash
  <2>6. ASSUME NEW q \in Paths PROVE ~OtherWrites(q)
    BY <2>2 DEF OtherWrites
  <2>7. CASE Deployment
    BY <2>1, <2>3, <2>7 DEF Deployment, fs, Prepare, Capture, CaptureFails, Snapshot,
       SnapshotDone, After, Complete, Abort, Before, DeployStarts, DeployStops
  <2>8. CASE Recovery
    BY <2>1, <2>4, <2>8 DEF Recovery, fs, RecoverBegin, RecoverClean, RecoverRestored,
       RecoverPreparing, RecoverPreflight, Quiesced, MarkRestoring, RestoreCheck,
       RestoredAll, RestoreRuntime, VerifyRestored, Resume, CleanupFile, CleanupDir, StopUnit
  <2>9. CASE Failure
    BY <2>1, <2>5, <2>9 DEF Failure, fs, PreparingFails, RecoveryFails, Kill
  <2>10. ASSUME NEW u \in Units PROVE ~SystemdStart(u)
    BY <2>1 DEF SystemdStart, fs
  <2> QED
    BY <2>6, <2>7, <2>8, <2>9, <2>10 DEF Next
<1> QED
  BY <1>1, JournalInductive, PTL DEF Spec, UnknownNeverOverwritten

(* A rollback in the boot of its deployment ends with exactly the units    *)
(* active and enabled that were so before.                                 *)
THEOREM UnitsAreRestored == Spec => RollbackRestoresUnits
<1>1. IInv /\ [Next]_vars
        => [(pc = "resume" /\ pc' = "cleanup" /\ man.runtime.boot = boot)
              => running' = man.runtime.active /\ enabled' = man.runtime.enabled]_vars
  <2> SUFFICES ASSUME IInv, Next, pc = "resume", pc' = "cleanup", man.runtime.boot = boot
               PROVE  running' = man.runtime.active /\ enabled' = man.runtime.enabled
    OBVIOUS
  <2>1. running \subseteq man.runtime.active /\ enabled = man.runtime.enabled
    BY DEF IInv, Stage, Runtime
  <2>2. CASE Resume
    BY <2>1, <2>2 DEF Resume, Resumed
  <2>3. CASE Deployment
    BY <2>3 DEF Deployment, Prepare, Capture, CaptureFails, Snapshot,
       SnapshotDone, After, Complete, Abort, Before, DeployStarts, DeployStops, Rename
  <2>4. CASE Recovery
    BY <2>2, <2>4 DEF Recovery, RecoverBegin, RecoverClean, RecoverRestored,
       RecoverPreparing, RecoverPreflight, Quiesced, MarkRestoring, RestoreCheck, RestorePut,
       RestoredAll, RestoreRuntime, VerifyRestored, CleanupFile, CleanupDir, StopUnit
  <2>5. CASE Failure
    BY <2>5 DEF Failure, PreparingFails, RecoveryFails, Kill, HostCrash
  <2>6. ASSUME NEW u \in Units PROVE ~SystemdStart(u)
    BY DEF SystemdStart
  <2>7. ASSUME NEW q \in Paths PROVE ~OtherWrites(q)
    BY DEF OtherWrites
  <2> QED
    BY <2>3, <2>4, <2>5, <2>6, <2>7 DEF Next
<1> QED
  BY <1>1, JournalInductive, PTL DEF Spec, RollbackRestoresUnits

-----------------------------------------------------------------------------
(* The refinement.                                                         *)

\* The state of AtomicDeploy, as the refinement mapping computes it.
Version == [p \in Paths |-> IF InTransaction /\ p \notin Dirty THEN man.entries[p].orig
                                                               ELSE tree[p]]
Plan == [p \in Paths |-> IF InTransaction THEN man.entries[p].repl ELSE 0]
AtomicStep == [Atomic!Next]_(Atomic!vars)

\* What the mapped state does in one step: nothing ...
LEMMA Stutters ==
  ASSUME Version' = Version, Plan' = Plan, InTransaction' = InTransaction, Dirty' = Dirty
  PROVE  AtomicStep
  BY DEF AtomicStep, Atomic!vars, Version, Plan

\* ... a deployment begins ...
LEMMA Begins ==
  ASSUME ~InTransaction, InTransaction' = TRUE, Version' = Version, Plan' = Plan,
         Dirty' \in SUBSET Paths
  PROVE  AtomicStep
  BY DEF AtomicStep, Atomic!Next, Atomic!Begin, Version, Plan

\* ... a replacement is announced ...
LEMMA Announces ==
  ASSUME NEW p \in Paths, NEW g \in 1..MaxGen,
         InTransaction, InTransaction' = InTransaction, Version' = Version, Dirty' = Dirty,
         Plan[p] = 0, Plan' = [Plan EXCEPT ![p] = g]
  PROVE  AtomicStep
  BY DEF AtomicStep, Atomic!Next, Atomic!Announce, Version, Plan

\* ... all announced ones are there ...
LEMMA Installs ==
  ASSUME InTransaction, InTransaction' = FALSE, Dirty = {}, Dirty' = {},
         Version' = [p \in Paths |-> IF Plan[p] = 0 THEN Version[p] ELSE Plan[p]],
         Plan' = [p \in Paths |-> 0]
  PROVE  AtomicStep
  BY DEF AtomicStep, Atomic!Next, Atomic!Install, Atomic!NoPlan, Version, Plan

\* ... none is ...
LEMMA RollsBack ==
  ASSUME InTransaction, InTransaction' = FALSE, Dirty = {}, Dirty' = {}, Version' = Version,
         Plan' = [p \in Paths |-> 0]
  PROVE  AtomicStep
  BY DEF AtomicStep, Atomic!Next, Atomic!Rollback, Atomic!NoPlan, Version, Plan

\* ... or somebody else writes.
LEMMA Writes ==
  ASSUME NEW S \in SUBSET Paths, S # {},
         Version' \in [Paths -> 1..MaxGen],
         \A p \in Paths : Version'[p] # Version[p] <=> p \in S,
         Dirty' = IF InTransaction THEN Dirty \cup S ELSE Dirty,
         InTransaction' = InTransaction, Plan' = Plan
  PROVE  AtomicStep
  BY DEF AtomicStep, Atomic!Next, Atomic!Write, Version, Plan

\* A step that leaves the artifacts and the journal alone.
LEMMA SameStutters ==
  ASSUME UNCHANGED <<tree, man, raced>> PROVE AtomicStep
<1>1. UNCHANGED <<Version, Plan, InTransaction, Dirty>>
  BY DEF Version, Plan, InTransaction, Dirty, Known
<1> QED
  BY <1>1, Stutters

\* A step outside of transactions that leaves the artifacts alone.
LEMMA OutsideStutters ==
  ASSUME ~InTransaction, ~InTransaction', tree' = tree PROVE AtomicStep
<1>1. Version' = Version /\ Plan' = Plan /\ Dirty' = Dirty
  BY DEF Version, Plan, Dirty
<1>2. InTransaction' = InTransaction
  BY DEF InTransaction
<1> QED
  BY <1>1, <1>2, Stutters

\* A step within a transaction that changes no announced generation, and no
\* artifact except from one known or raced generation to a known one.
LEMMA InsideStutters ==
  ASSUME InTransaction, InTransaction',
         \A p \in Paths : man'.entries[p] = man.entries[p],
         \A p \in Paths : \/ tree'[p] = tree[p] /\ (p \in raced' <=> p \in raced)
                          \/ (tree[p] \in Known(p) \/ p \in raced)
                             /\ (tree'[p] \in Known(p) \/ p \in raced')
  PROVE  AtomicStep
<1>1. \A p \in Paths : Known(p)' = Known(p)
  BY DEF Known
<1>2. Dirty' = Dirty
  BY <1>1 DEF Dirty
<1>3. Version' = Version /\ Plan' = Plan
  <2>1. ASSUME NEW p \in Paths PROVE Version'[p] = Version[p] /\ Plan'[p] = Plan[p]
    <3>1. CASE p \in Dirty
      <4>1. tree'[p] = tree[p]
        BY <1>2, <3>1 DEF Dirty
      <4> QED
        BY <1>2, <3>1, <4>1 DEF Version, Plan
    <3>2. CASE p \notin Dirty
      BY <1>2, <3>2 DEF Version, Plan
    <3> QED
      BY <3>1, <3>2
  <2> QED
    BY <2>1 DEF Version, Plan
<1>4. InTransaction' = InTransaction
  BY DEF InTransaction
<1> QED
  BY <1>2, <1>3, <1>4, Stutters

\* Every step of the deployment, the recovery and their environment is a step of
\* AtomicDeploy or none.
LEMMA NextAtomic == IInv /\ IInv' /\ [Next]_vars => AtomicStep
<1> SUFFICES ASSUME IInv, IInv', [Next]_vars PROVE AtomicStep
  OBVIOUS
<1> USE DeployAssumption DEF DeployAssumption, fs, journal
<1>0. /\ tree \in [Paths -> 1..MaxGen] /\ tree' \in [Paths -> 1..MaxGen]
      /\ durable \in [Paths -> 1..MaxGen] /\ next \in 1..MaxGen
  BY DEF IInv, TypeOK
<1>m. man.state # "absent" => man \in Manifests
  BY ManifestSome DEF IInv
<1>1. CASE Capture
  <2>1. ~InTransaction /\ ~InTransaction' /\ tree' = tree
    BY <1>1 DEF Capture, Persist, IInv, Stage, InTransaction, NoManifest
  <2> QED
    BY <2>1, OutsideStutters
<1>2. CASE Snapshot
  <2>1. ~InTransaction /\ ~InTransaction' /\ tree' = tree
    BY <1>2, <1>m DEF Snapshot, Persist, InTransaction, Manifests
  <2> QED
    BY <2>1, OutsideStutters
<1>3. CASE SnapshotDone
  <2>1. /\ ~InTransaction /\ InTransaction' /\ tree' = tree /\ raced' = raced
        /\ raced = {} /\ man'.entries = man.entries
        /\ \A p \in Paths : man.entries[p].repl = 0
    BY <1>3, <1>m DEF SnapshotDone, Persist, InTransaction, Manifests, IInv, Journal, Preparing,
                      NoGen, Foreign
  <2>2. Plan' = Plan
    BY <2>1 DEF Plan
  <2>3. \A p \in Paths : Known(p)' = {man.entries[p].orig}
    BY <2>1 DEF Known, NoGen
  <2>4. Dirty' = {p \in Paths : tree[p] # man.entries[p].orig}
    BY <2>1, <2>3 DEF Dirty
  <2>5. Version' = Version
    BY <2>1, <2>4 DEF Version
  <2>6. InTransaction' = TRUE /\ Dirty' \in SUBSET Paths
    BY <2>1, <2>4 DEF InTransaction
  <2> QED
    BY <2>1, <2>2, <2>5, <2>6, Begins
<1>4. ASSUME NEW p \in Paths, NEW candidate \in SUBSET Paths, Before(p, candidate)
      PROVE  AtomicStep
  <2>1. PICK g \in CandidateGenerations(p) :
               /\ man.state = "active" /\ man.pending = {}
               /\ p \notin ToSet(man.committed) /\ tree[p] = man.entries[p].orig
               /\ man' = [man EXCEPT !.entries[p].repl = g, !.pending = {p}]
               /\ tree' = tree /\ raced' = raced
    BY <1>4 DEF Before, Persist
  <2>2. g \in 1..MaxGen
    BY <1>0 DEF CandidateGenerations
  <2>3. /\ InTransaction /\ InTransaction' /\ man.entries[p].repl = 0
        /\ \A q \in Paths : /\ man'.entries[q].orig = man.entries[q].orig
                            /\ man'.entries[q].repl = IF q = p THEN g ELSE man.entries[q].repl
    BY <1>m, <2>1 DEF InTransaction, Manifests, Entries, IInv, Journal, Journaled, NoGen
  <2>4. \A q \in Paths : tree[q] \in Known(q)' <=> tree[q] \in Known(q)
    BY <2>1, <2>3 DEF Known
  <2>5. Dirty' = Dirty
    BY <2>1, <2>3, <2>4 DEF Dirty
  <2>6. Version' = Version
    BY <2>1, <2>3, <2>5 DEF Version
  <2>7. Plan[p] = 0 /\ Plan' = [Plan EXCEPT ![p] = g]
    BY <2>1, <2>3 DEF Plan
  <2>8. InTransaction' = InTransaction
    BY <2>3 DEF InTransaction
  <2> QED
    BY <2>2, <2>3, <2>5, <2>6, <2>7, <2>8, Announces
<1>5. CASE Rename
  <2>1. PICK p \in man.pending : /\ tree' = [tree EXCEPT ![p] = man.entries[p].repl]
                                 /\ raced' = raced \ {p}
    BY <1>5 DEF Rename
  <2>2. /\ man' = man /\ InTransaction /\ InTransaction' /\ p \in Paths
        /\ tree[p] \in Known(p) \/ p \in raced
        /\ man.entries[p].repl # 0
    BY <1>5, <1>m, <2>1 DEF Rename, InTransaction, Manifests, IInv, Stage, Journal, Journaled,
                            Foreign, NoGen
  <2>3. tree'[p] \in Known(p)
    BY <1>0, <2>1, <2>2 DEF Known, NoGen
  <2> QED
    BY <1>0, <2>1, <2>2, <2>3, InsideStutters
<1>6. CASE After
  <2>1. /\ InTransaction /\ InTransaction' /\ tree' = tree /\ raced' = raced
        /\ man'.entries = man.entries
    BY <1>6, <1>m DEF After, Persist, InTransaction, Manifests, IInv, Stage
  <2> QED
    BY <2>1, InsideStutters
<1>7. CASE Complete
  <2>1. /\ InTransaction /\ ~InTransaction' /\ tree' = tree /\ man.pending = {}
        /\ \A p \in Paths : tree[p] = IF p \in ToSet(man.committed) THEN man.entries[p].repl
                                                                   ELSE man.entries[p].orig
    BY <1>7, <1>m DEF Complete, Persist, InTransaction, Manifests
  <2>2. \A p \in Paths : man.entries[p].repl # 0 <=> p \in ToSet(man.committed)
    BY <2>1 DEF IInv, Journal, Journaled, NoGen
  <2>3. Dirty = {} /\ Dirty' = {}
    BY <2>1, <2>2 DEF Dirty, Known, NoGen
  <2>4. Version' = [p \in Paths |-> IF Plan[p] = 0 THEN Version[p] ELSE Plan[p]]
    BY <2>1, <2>2, <2>3 DEF Version, Plan
  <2>5. Plan' = [p \in Paths |-> 0]
    BY <2>1 DEF Plan
  <2>6. InTransaction' = FALSE
    BY <2>1 DEF InTransaction
  <2> QED
    BY <2>1, <2>3, <2>4, <2>5, <2>6, Installs
<1>8. CASE MarkRestoring
  <2>1. /\ InTransaction /\ InTransaction' /\ tree' = tree /\ raced' = raced
        /\ man'.entries = man.entries
    BY <1>8, <1>m DEF MarkRestoring, Persist, InTransaction, Manifests, IInv, Stage
  <2> QED
    BY <2>1, InsideStutters
<1>9. CASE RestorePut
  <2> DEFINE p == Head(todo)
  <2>1. p \in Paths
    BY <1>9, TailPathSeq DEF RestorePut, IInv, TypeOK, Stage
  <2>2. /\ tree' = [tree EXCEPT ![p] = man.entries[p].orig] /\ raced' = raced \ {p}
        /\ man' = man /\ InTransaction /\ InTransaction'
        /\ tree[p] \in Known(p) \/ p \in raced
    BY <1>9 DEF RestorePut, InTransaction, IInv, Stage, Foreign
  <2>3. tree'[p] \in Known(p)
    BY <1>0, <2>1, <2>2 DEF Known
  <2> HIDE DEF p
  <2> QED
    BY <1>0, <2>1, <2>2, <2>3, InsideStutters
<1>10. CASE VerifyRestored
  <2>1. tree' = tree /\ ~InTransaction' /\ man'.entries = man.entries
    BY <1>10, <1>m DEF VerifyRestored, Persist, InTransaction, Manifests, IInv, Stage, Preparing
  <2>2. CASE man.state = "preparing"
    <3>1. ~InTransaction
      BY <2>2 DEF InTransaction
    <3> QED
      BY <2>1, <3>1, OutsideStutters
  <2>3. CASE man.state # "preparing"
    <3>1. InTransaction /\ \A p \in Paths : tree[p] = man.entries[p].orig
      BY <1>10, <2>3 DEF VerifyRestored, IInv, Stage, Preparing
    <3>2. Dirty = {} /\ Dirty' = {}
      BY <2>1, <3>1 DEF Dirty, Known
    <3>3. Version' = Version
      BY <2>1, <3>1, <3>2 DEF Version
    <3>4. Plan' = [p \in Paths |-> 0]
      BY <2>1 DEF Plan
    <3>5. InTransaction' = FALSE
      BY <2>1 DEF InTransaction
    <3> QED
      BY <3>1, <3>2, <3>3, <3>4, <3>5, RollsBack
  <2> QED
    BY <2>2, <2>3
<1>11. CASE RecoveryFails
  <2>1. /\ InTransaction /\ InTransaction' /\ tree' = tree /\ raced' = raced
        /\ man'.entries = man.entries
    BY <1>11, <1>m DEF RecoveryFails, Persist, InTransaction, Manifests
  <2> QED
    BY <2>1, InsideStutters
<1>12. CASE CleanupFile
  <2>1. ~InTransaction /\ ~InTransaction' /\ tree' = tree
    BY <1>12 DEF CleanupFile, InTransaction, NoManifest, IInv, Stage
  <2> QED
    BY <2>1, OutsideStutters
<1>13. CASE HostCrash
  <2>1. /\ man' = man /\ raced' = raced
        /\ \A p \in Paths : tree'[p] = tree[p] \/ tree'[p] = durable[p]
    BY <1>13 DEF HostCrash
  <2>2. CASE ~InTransaction
    <3>1. tree' = tree
      BY <1>0, <2>1, <2>2 DEF IInv, Undoable
    <3> QED
      BY <2>1, <3>1, SameStutters
  <2>3. CASE InTransaction
    <3> DEFINE S == Dirty' \ Dirty
    <3>1. InTransaction' = InTransaction /\ InTransaction' /\ Plan' = Plan
          /\ \A p \in Paths : Known(p)' = Known(p)
      BY <2>1, <2>3 DEF InTransaction, Plan, Known
    <3>2. \A p \in Paths : tree'[p] = tree[p] \/ tree[p] \in Known(p)
      BY <2>1, <2>3 DEF IInv, Undoable
    <3>3. S \in SUBSET Paths /\ Dirty' = Dirty \cup S
      BY <2>1, <2>3, <3>1, <3>2 DEF Dirty
    <3>4. \A p \in Paths : Version'[p] # Version[p] <=> p \in S
      <4>1. \A p \in Paths : man.entries[p].orig \in Known(p)
        BY DEF Known
      <4> QED
        BY <2>1, <2>3, <3>1, <3>2, <4>1 DEF Dirty, Version
    <3>5. Version' \in [Paths -> 1..MaxGen]
      BY <1>0, <2>1, <3>1, <1>m, <2>3 DEF Version, InTransaction, Manifests, Entries, IInv, Journal,
                                     NoGen, NoManifest
    <3>6. CASE S = {}
      <4>1. Version' = Version
        BY <3>4, <3>6 DEF Version
      <4> QED
        BY <3>1, <3>3, <3>6, <4>1, Stutters
    <3>7. CASE S # {}
      <4> HIDE DEF S
      <4> QED
        BY <2>3, <3>1, <3>3, <3>4, <3>5, <3>7, Writes
    <3> QED
      BY <3>6, <3>7
  <2> QED
    BY <2>2, <2>3
<1>14. ASSUME NEW p \in Paths, OtherWrites(p) PROVE AtomicStep
  <2>1. /\ man' = man /\ tree' = [tree EXCEPT ![p] = next + 1] /\ next + 1 \in 1..MaxGen
        /\ raced' = IF InWindow(p) THEN raced \cup {p} ELSE raced
    BY <1>0, <1>14 DEF OtherWrites
  <2>2. /\ InTransaction' = InTransaction /\ Plan' = Plan
        /\ \A q \in Paths : Known(q)' = Known(q)
    BY <2>1 DEF InTransaction, Plan, Known
  <2>3. tree[p] <= next /\ tree'[p] = next + 1 /\ \A q \in Paths \ {p} : tree'[q] = tree[q]
    BY <1>0, <2>1 DEF IInv, Generation
  <2>4. CASE ~InTransaction
    <3>1. ~InTransaction'
      BY <2>2, <2>4
    <3>2. Version = tree /\ Version' = tree' /\ Dirty = {} /\ Dirty' = {}
      BY <1>0, <2>4, <3>1 DEF Version, Dirty
    <3>3. \A q \in Paths : Version'[q] # Version[q] <=> q \in {p}
      BY <1>0, <2>3, <3>2
    <3> QED
      BY <1>0, <2>2, <2>4, <3>2, <3>3, Writes
  <2>5. CASE InTransaction
    <3>1. next + 1 \notin Known(p) /\ man.entries[p].orig <= next /\ man.entries[p].orig \in Nat
      BY <1>0, <1>m, <2>5 DEF InTransaction, Known, Manifests, Entries, NoManifest, IInv, Generation
    <3>2. InTransaction'
      BY <2>2, <2>5
    <3>3. CASE InWindow(p) \/ p \in raced
      <4>1. tree[p] \in Known(p) \/ p \in raced
        BY <3>3 DEF InWindow, IInv, Foreign
      <4>2. p \in raced'
        BY <2>1, <3>3
      <4>3. \A q \in Paths \ {p} : q \in raced' <=> q \in raced
        BY <2>1
      <4> QED
        BY <2>1, <2>3, <2>5, <3>2, <4>1, <4>2, <4>3, InsideStutters
    <3>4. CASE ~InWindow(p) /\ p \notin raced
      <4>1. raced' = raced
        BY <2>1, <3>4
      <4>2. Dirty' = Dirty \cup {p}
        BY <2>2, <2>3, <2>5, <3>1, <3>2, <3>4, <4>1 DEF Dirty
      <4>3. Version'[p] = next + 1 /\ Version[p] <= next /\ Version[p] \in Nat
        BY <1>0, <2>3, <2>5, <3>1, <3>2, <4>2 DEF Version
      <4>4. \A q \in Paths \ {p} : Version'[q] = Version[q]
        BY <2>1, <2>3, <2>5, <3>2, <4>2 DEF Version
      <4>5. \A q \in Paths : Version'[q] # Version[q] <=> q \in {p}
        BY <1>0, <4>3, <4>4
      <4>6. Version' \in [Paths -> 1..MaxGen]
        BY <1>0, <2>1, <1>m, <2>5, <3>2 DEF Version, InTransaction, Manifests, Entries, IInv, Journal,
                                       NoGen, NoManifest
      <4> QED
        BY <2>2, <2>5, <4>2, <4>5, <4>6, Writes
    <3> QED
      BY <3>3, <3>4
  <2> QED
    BY <2>4, <2>5
<1>15. CASE Prepare \/ CaptureFails \/ Abort \/ \E u \in Units : DeployStarts(u) \/ DeployStops(u)
  BY <1>15, SameStutters DEF Prepare, CaptureFails, Abort, DeployStarts, DeployStops
<1>16. CASE RecoverBegin \/ RecoverClean \/ RecoverRestored \/ RecoverPreparing \/ RecoverPreflight
  BY <1>16, SameStutters DEF RecoverBegin, RecoverClean, RecoverRestored, RecoverPreparing,
                             RecoverPreflight
<1>17. CASE Quiesced \/ RestoreCheck \/ RestoredAll \/ RestoreRuntime \/ Resume \/ CleanupDir
            \/ \E u \in Units : StopUnit(u)
  BY <1>17, SameStutters DEF Quiesced, RestoreCheck, RestoredAll, RestoreRuntime, Resume,
                             CleanupDir, StopUnit
<1>18. CASE PreparingFails \/ Kill \/ \E u \in Units : SystemdStart(u)
  BY <1>18, SameStutters DEF PreparingFails, Kill, SystemdStart
<1>19. CASE UNCHANGED vars
  BY <1>19, SameStutters DEF vars
<1> QED
  BY <1>1, <1>2, <1>3, <1>4, <1>5, <1>6, <1>7, <1>8, <1>9, <1>10, <1>11, <1>12, <1>13, <1>14,
     <1>15, <1>16, <1>17, <1>18, <1>19 DEF Next, Deployment, Recovery, Failure

(* Whatever dies and whenever, the artifacts change together or not at     *)
(* all, and only if nobody else has written one of them: the deployment    *)
(* with its journal implements AtomicDeploy.                               *)
THEOREM DeploymentIsAtomic == Spec => ImplementsAtomicDeploy
<1>1. Init => Atomic!Init
  BY DeployAssumption DEF DeployAssumption, Init, Atomic!Init, Atomic!NoPlan, InTransaction,
     NoManifest, Dirty
<1>2. IInv /\ IInv' /\ [Next]_vars => [Atomic!Next]_(Atomic!vars)
  BY NextAtomic DEF AtomicStep
<1> QED
  BY <1>1, <1>2, JournalInductive, PTL DEF Spec, Atomic!Spec, ImplementsAtomicDeploy
=============================================================================
