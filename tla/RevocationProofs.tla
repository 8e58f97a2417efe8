-------------------------- MODULE RevocationProofs --------------------------
(***************************************************************************)
(* Revocation, for any number of requests, operations and failures: the    *)
(* write-ahead rule, the redone deletions, the history that goes with its  *)
(* account, and the sessions that end with their credential.               *)
(***************************************************************************)
EXTENDS Revocation, CommonLemmas

-----------------------------------------------------------------------------
(* The inductive invariant.                                                *)

\* usage_lock is held from the load of users.json to the end of the commit's
\* aftermath, so that operations are numbered in the order of their commits.
Locks ==
    /\ \A r \in Requests : pc[r] \in {"locked", "commit", "sync"} <=> lock = r
    /\ \A r \in Requests : lock = r => id[r] + 1 = nextOp
    /\ \A r \in Requests : id[r] < nextOp /\ (pc[r] = "idle" <=> id[r] = 0)
    /\ \A r, q \in Requests : id[r] = id[q] /\ id[r] # 0 => r = q
    /\ gen < nextOp /\ durable < nextOp
    /\ \A k \in live : k < nextOp

\* What a request that holds the lock knows.
Holder(r) ==
    /\ pc[r] \in {"locked", "commit"} => gen < id[r]
    /\ pc[r] = "locked" => op[r] # "add" /\ gen # 0 /\ id[r] \notin live /\ claim.id # id[r]
    /\ pc[r] = "commit" /\ op[r] = "add" => gen = 0
    /\ pc[r] = "commit" /\ op[r] # "add" =>
         /\ gen # 0 /\ id[r] \in live
         /\ task[id[r]].kind = op[r] /\ task[id[r]].prev = gen /\ task[id[r]].succ = 0
    /\ pc[r] = "commit" /\ claim.id = id[r] => wpc = "claimed"
    /\ pc[r] = "sync" /\ op[r] = "delete" => gen = 0 /\ durable = 0
Holders == \A r \in Requests : Holder(r)

\* Tasks are bound to an older generation; the worker has a copy of one.
TasksOlder == \A k \in live : 0 < task[k].prev /\ task[k].prev < k
ClaimCopy ==
    /\ wpc = "idle" <=> claim.id = 0
    /\ claim.id < nextOp
    /\ claim.id # 0 => 0 < claim.prev /\ claim.prev < claim.id
    /\ claim.id \in live => /\ task[claim.id].kind = claim.kind /\ task[claim.id].prev = claim.prev
                            /\ claim.kind = "delete" => task[claim.id].bound = claim.bound
    /\ wpc = "discard" => claim.kind = "rotate" /\ gen # claim.id

\* A deletion is settled when its account is gone, or is not the one it meant.
Settled(k) == gen # task[k].prev \/ ~task[k].bound

\* The request of operation k is still under way, the worker is past the decision.
Requested(k) == \E r \in Requests : id[r] = k
Acting == wpc \in {"effects", "kick", "record"}

\* No deletion is counted as done, or dropped under its claim, before it is settled.
ClaimSettled == claim.id # 0 /\ claim.kind = "delete" /\ (claim.id \notin live \/ Acting) =>
                  gen # claim.prev \/ ~claim.bound
CountSettled == \A k \in live :
                  task[k].kind = "delete" /\ task[k].succ > 0 /\ Requested(k) => Settled(k)

\* The worker has made sure of the absence for deletion k, or found it superseded.
Handled(k) == (claim.id = k /\ Acting) \/ (task[k].succ > 0 /\ Requested(k))

\* An account has its history, and an absence that is not durable, or whose history is
\* not purged, is still somebody's to finish.
HistoryKept == history = "none" => gen = 0 /\ durable = 0
Unfinished == \E k \in live : task[k].kind = "delete" /\ ~Handled(k)
AbsenceOwned == gen = 0 /\ (durable # 0 \/ history = "own") => Unfinished

\* The task an actor is at work on; its good kick of task k is not yet recorded.
On(a) == IF a = Worker THEN claim.id ELSE id[a]
GoodKick(a, k) == attempt[a].good /\ On(a) = k

\* After a good kick and the delay no old credential is on its way in, after two none
\* is connected either.
NoOld(k, gens) == \A g \in gens : g > task[k].prev
OneKick(k) == Committed(k) /\ (task[k].since => NoOld(k, inflight))
TwoKicks(k) == NoOld(k, inflight) /\ NoOld(k, sessions)

\* A kick counts for its task from the moment it was made, recorded or not.
KicksOf(k) ==
    /\ task[k].kicks > 0 => OneKick(k)
    /\ \A a \in Actors : GoodKick(a, k) => OneKick(k)
    /\ task[k].kicks > 1 => TwoKicks(k)
    /\ \A a \in Actors : task[k].kicks > 0 /\ GoodKick(a, k) => TwoKicks(k)
    /\ \A a, b \in Actors : GoodKick(a, k) /\ GoodKick(b, k) /\ a # b => TwoKicks(k)
KicksCount == \A k \in live : KicksOf(k)
GoodAtRecord == /\ \A r \in Requests : attempt[r].good => pc[r] = "record"
                /\ attempt[Worker].good => wpc = "record"

\* Every replaced generation that is still in use has a task that will kick it.
Covers(k, g) == /\ g <= task[k].prev
                /\ IF task[k].kind = "delete" THEN Committed(k) ELSE gen = k
Covered(g) == \E k \in live : Covers(k, g)
Coverage == ~rushed => \A g \in inflight \cup sessions : g # gen => Covered(g)
NobodyIsZero == 0 \notin inflight /\ 0 \notin sessions

IInv == /\ TypeOK /\ Locks /\ Holders /\ TasksOlder /\ ClaimCopy
        /\ ClaimSettled /\ CountSettled /\ HistoryKept /\ AbsenceOwned
        /\ GoodAtRecord /\ KicksCount /\ NobodyIsZero /\ Coverage

-----------------------------------------------------------------------------
(* Facts about the queue.                                                  *)

\* The tasks of a behaviour are finitely many.
LEMMA LiveIsFinite == ASSUME TypeOK PROVE IsFiniteSet(live) /\ Cardinality(live) \in Nat
<1>1. IsFiniteSet(Ops)
  BY FS_Interval, RevocationAssumption DEF Ops, RevocationAssumption
<1>2. live \subseteq Ops
  BY DEF TypeOK
<1> QED
  BY <1>1, <1>2, FS_Subset, FS_CardinalityType

\* One more, one less.
LEMMA LiveCount ==
  ASSUME TypeOK, NEW k
  PROVE  /\ k \notin live => Cardinality(live \cup {k}) = Cardinality(live) + 1
         /\ Cardinality(live \ {k}) <= Cardinality(live)
<1>1. IsFiniteSet(live) /\ Cardinality(live) \in Nat
  BY LiveIsFinite
<1>2. k \notin live => Cardinality(live \cup {k}) = Cardinality(live) + 1
  BY <1>1, FS_AddElement
<1>3. Cardinality(live \ {k}) <= Cardinality(live)
  BY <1>1, FS_Subset
<1> QED
  BY <1>2, <1>3

\* What the type invariant says of the numbers and names the other parts compare.
Sorts ==
    /\ gen \in Nat /\ durable \in Nat /\ nextOp \in Nat
    /\ claim.id \in Nat /\ claim.prev \in Nat /\ (claim.id # 0 => claim.id \in Ops)
    /\ claim.kind \in {"rotate", "delete"}
    /\ \A r \in Requests : id[r] \in Nat /\ (id[r] # 0 => id[r] \in Ops)
    /\ \A k \in Ops : /\ k \in Nat /\ k # 0 /\ task[k].prev \in Nat /\ task[k].succ \in Nat
                      /\ task[k].kicks \in Nat /\ task[k].kind \in {"rotate", "delete"}
    /\ live \subseteq Ops /\ inflight \subseteq Nat /\ sessions \subseteq Nat
    /\ NoOne \notin Requests /\ Worker \notin Requests

\* The type invariant gives the sorts.
LEMMA TypeSorts == TypeOK => Sorts
<1> SUFFICES ASSUME TypeOK PROVE Sorts
  OBVIOUS
<1>1. MaxOps \in Nat /\ NoOne \notin Requests /\ Worker \notin Requests
  BY RevocationAssumption DEF RevocationAssumption, Worker
<1>2. (\A x \in Ops : x \in Nat /\ x # 0) /\ (\A x \in Gens : x \in Nat)
  BY <1>1 DEF Ops, Gens
<1>3. gen \in Nat /\ durable \in Nat /\ nextOp \in Nat
  BY <1>1, <1>2 DEF TypeOK
<1>4. live \subseteq Ops /\ inflight \subseteq Nat /\ sessions \subseteq Nat
  BY <1>2 DEF TypeOK
<1>5. /\ claim.id \in Nat /\ claim.prev \in Nat /\ (claim.id # 0 => claim.id \in Ops)
      /\ claim.kind \in {"rotate", "delete"}
  <2>1. claim.id \in Ops \cup {0} /\ claim.prev \in Gens /\ claim.kind \in {"rotate", "delete"}
    BY DEF TypeOK, Claims
  <2> QED
    BY <1>2, <2>1
<1>6. \A r \in Requests : id[r] \in Nat /\ (id[r] # 0 => id[r] \in Ops)
  <2>1. \A r \in Requests : id[r] \in Ops \cup {0}
    BY DEF TypeOK
  <2> QED
    BY <1>2, <2>1
<1>7. \A k \in Ops : /\ k \in Nat /\ k # 0 /\ task[k].prev \in Nat /\ task[k].succ \in Nat
                   /\ task[k].kicks \in Nat /\ task[k].kind \in {"rotate", "delete"}
  <2>1. \A k \in Ops : /\ task[k].prev \in Gens /\ task[k].succ \in 0 .. 2
                     /\ task[k].kicks \in 0 .. 2 /\ task[k].kind \in {"rotate", "delete"}
    BY DEF TypeOK, Tasks
  <2> QED
    BY <1>2, <2>1
<1> QED
  BY <1>1, <1>3, <1>4, <1>5, <1>6, <1>7 DEF Sorts

\* A task comes in.
LEMMA TaskAdded ==
  ASSUME TypeOK, NEW k \in Ops, NEW kind \in {"rotate", "delete"}, AddTask(k, kind)
  PROVE  /\ live' = live \cup {k} /\ live' \subseteq Ops /\ task' \in [Ops -> Tasks]
         /\ task'[k].kind = kind /\ task'[k].prev = gen /\ task'[k].succ = 0
         /\ task'[k].kicks = 0
         /\ \A j \in Ops : j # k => task'[j] = task[j]
<1>1. FreshTask(kind, gen) \in Tasks
  BY DEF FreshTask, Tasks, TypeOK
<1>2. live \subseteq Ops /\ task \in [Ops -> Tasks]
  BY DEF TypeOK
<1>3. live' = live \cup {k} /\ task' = [task EXCEPT ![k] = FreshTask(kind, gen)]
  BY DEF AddTask
<1>4. task'[k] = FreshTask(kind, gen)
  BY <1>2, <1>3
<1> QED
  BY <1>1, <1>2, <1>3, <1>4 DEF FreshTask

\* A task goes.
LEMMA TaskDropped ==
  ASSUME TypeOK, NEW k \in Ops, DropTask(k)
  PROVE  /\ live' = live \ {k} /\ live' \subseteq Ops /\ task' \in [Ops -> Tasks]
         /\ \A j \in live' : task'[j] = task[j]
<1>1. NoTask \in Tasks
  BY RevocationAssumption DEF NoTask, FreshTask, Tasks, Gens, RevocationAssumption
<1>2. live \subseteq Ops /\ task \in [Ops -> Tasks]
  BY DEF TypeOK
<1>3. live' = live \ {k} /\ task' = [task EXCEPT ![k] = NoTask]
  BY DEF DropTask
<1> QED
  BY <1>1, <1>2, <1>3

\* An actor learns something, or forgets everything.
LEMMA AttemptTypes ==
  ASSUME TypeOK, NEW a \in Actors
  PROVE  /\ \A e \in BOOLEAN : [attempt EXCEPT ![a].error = e] \in [Actors -> Attempts]
         /\ \A e, ok \in BOOLEAN :
              [attempt EXCEPT ![a].static = ok, ![a].error = e] \in [Actors -> Attempts]
         /\ \A ok, good \in BOOLEAN :
              [attempt EXCEPT ![a].kick = ok, ![a].good = good] \in [Actors -> Attempts]
         /\ [attempt EXCEPT ![a] = NoAttempt] \in [Actors -> Attempts]
<1>1. attempt \in [Actors -> Attempts] /\ NoAttempt \in Attempts
  BY DEF TypeOK, NoAttempt, Attempts
<1>2. ASSUME NEW e \in BOOLEAN PROVE [attempt EXCEPT ![a].error = e] \in [Actors -> Attempts]
  BY <1>1 DEF Attempts
<1>3. ASSUME NEW e \in BOOLEAN, NEW ok \in BOOLEAN
      PROVE  [attempt EXCEPT ![a].static = ok, ![a].error = e] \in [Actors -> Attempts]
  BY <1>1 DEF Attempts
<1>4. ASSUME NEW ok \in BOOLEAN, NEW good \in BOOLEAN
      PROVE  [attempt EXCEPT ![a].kick = ok, ![a].good = good] \in [Actors -> Attempts]
  BY <1>1 DEF Attempts
<1> QED
  BY <1>1, <1>2, <1>3, <1>4

\* A task is edited.
LEMMA TaskEdited ==
  ASSUME TypeOK, NEW k \in Ops
  PROVE  /\ \A b, d \in BOOLEAN : [task EXCEPT ![k].static = b, ![k].due = d] \in [Ops -> Tasks]
         /\ \A b \in BOOLEAN : [task EXCEPT ![k].since = b] \in [Ops -> Tasks]
         /\ \A b \in BOOLEAN : [task EXCEPT ![k].leased = b] \in [Ops -> Tasks]
         /\ \A b \in BOOLEAN : [task EXCEPT ![k].expired = b] \in [Ops -> Tasks]
         /\ \A b, d \in BOOLEAN : [task EXCEPT ![k].leased = b, ![k].due = d] \in [Ops -> Tasks]
         /\ \A b, d, e \in BOOLEAN :
              [task EXCEPT ![k].due = b, ![k].leased = d, ![k].since = e] \in [Ops -> Tasks]
         /\ \A t \in Tasks : [task EXCEPT ![k] = t] \in [Ops -> Tasks]
<1>1. task \in [Ops -> Tasks]
  BY DEF TypeOK
<1>2. \A b, d \in BOOLEAN : [task EXCEPT ![k].static = b, ![k].due = d] \in [Ops -> Tasks]
  BY <1>1, ZenonT(40) DEF Tasks
<1>3. \A b \in BOOLEAN : /\ [task EXCEPT ![k].since = b] \in [Ops -> Tasks]
                        /\ [task EXCEPT ![k].leased = b] \in [Ops -> Tasks]
                        /\ [task EXCEPT ![k].expired = b] \in [Ops -> Tasks]
  BY <1>1 DEF Tasks
<1>4. \A b, d \in BOOLEAN : [task EXCEPT ![k].leased = b, ![k].due = d] \in [Ops -> Tasks]
  BY <1>1, ZenonT(40) DEF Tasks
<1>5. \A b, d, e \in BOOLEAN :
        [task EXCEPT ![k].due = b, ![k].leased = d, ![k].since = e] \in [Ops -> Tasks]
  <2> SUFFICES ASSUME NEW b \in BOOLEAN, NEW d \in BOOLEAN, NEW e \in BOOLEAN
               PROVE  [task EXCEPT ![k].due = b, ![k].leased = d, ![k].since = e] \in [Ops -> Tasks]
    OBVIOUS
  <2>1. [task[k] EXCEPT !.due = b, !.leased = d, !.since = e] \in Tasks
    BY <1>1 DEF Tasks
  <2>2. [task EXCEPT ![k].due = b, ![k].leased = d, ![k].since = e]
          = [task EXCEPT ![k] = [task[k] EXCEPT !.due = b, !.leased = d, !.since = e]]
    BY <1>1
  <2> QED
    BY <1>1, <2>1, <2>2
<1>6. \A t \in Tasks : [task EXCEPT ![k] = t] \in [Ops -> Tasks]
  BY <1>1
<1> QED
  BY <1>2, <1>3, <1>4, <1>5, <1>6

\* The parts of a task that the invariant speaks of are the same.
SameTask(s, t) == /\ s.kind = t.kind /\ s.prev = t.prev /\ s.succ = t.succ
                  /\ s.bound = t.bound /\ s.kicks = t.kicks

\* What the reload or the stop of the static proxies does.
LEMMA EffectsFacts ==
  ASSUME TypeOK, NEW a \in Actors, NEW ok \in BOOLEAN, StaticEffects(a, ok)
  PROVE  /\ attempt' \in [Actors -> Attempts] /\ static' = static
         /\ paused' \in BOOLEAN /\ faults' \in 0 .. MaxFaults
         /\ \A b \in Actors : attempt'[b].good = attempt[b].good
<1>1. attempt' = [attempt EXCEPT ![a].static = ok, ![a].error = FALSE] /\ static' = static
  BY DEF StaticEffects
<1>2. attempt \in [Actors -> Attempts] /\ paused \in BOOLEAN /\ attempt[a].error \in BOOLEAN
  BY DEF TypeOK, Attempts
<1>3. attempt' \in [Actors -> Attempts]
  BY <1>1, AttemptTypes
<1>4. \A b \in Actors : attempt'[b].good = attempt[b].good
  BY <1>1, <1>2 DEF Attempts
<1>5. paused' \in BOOLEAN
  BY <1>2 DEF StaticEffects, MayPause
<1>6. faults' \in 0 .. MaxFaults
  BY RevocationAssumption DEF StaticEffects, Fault, NoFault, TypeOK, RevocationAssumption
<1> QED
  BY <1>1, <1>3, <1>4, <1>5, <1>6

\* What a kick does.
LEMMA KickFacts ==
  ASSUME TypeOK, NEW a \in Actors, NEW k \in Ops, Kick(k, a)
  PROVE  /\ task' \in [Ops -> Tasks] /\ attempt' \in [Actors -> Attempts]
         /\ sessions' \subseteq sessions /\ faults' \in 0 .. MaxFaults
         /\ \A j \in Ops : SameTask(task'[j], task[j])
         /\ \A j \in Ops : j # k => task'[j] = task[j]
         /\ k \in live => ~task'[k].since
         /\ \A b \in Actors : b # a => attempt'[b] = attempt[b]
         /\ attempt'[a].good => k \in live /\ task[k].since /\ Committed(k) /\ sessions' = {}
<1>1. PICK ok \in BOOLEAN :
        /\ attempt' = [attempt EXCEPT ![a].kick = ok,
                ![a].good = ok /\ k \in live /\ task[k].since /\ Committed(k)]
        /\ \/ ok /\ sessions' = {} /\ NoFault
           \/ ~ok /\ sessions' \in {sessions, {}} /\ Fault("kick")
  BY DEF Kick
<1>2. task' = IF k \in live THEN [task EXCEPT ![k].since = FALSE] ELSE task
  BY DEF Kick
<1>3. task \in [Ops -> Tasks] /\ attempt \in [Actors -> Attempts] /\ live \subseteq Ops
  BY DEF TypeOK
<1>4. task' \in [Ops -> Tasks]
  BY <1>2, <1>3, TaskEdited
<1> DEFINE good == ok /\ k \in live /\ task[k].since /\ Committed(k)
<1>6. good \in BOOLEAN
  <2>1. task[k].since \in BOOLEAN
    BY <1>3 DEF Tasks
  <2> QED
    BY <2>1 DEF Committed
<1>7. attempt' \in [Actors -> Attempts]
  BY <1>1, <1>6, AttemptTypes, Zenon
<1>8. attempt'[a].good = good /\ \A b \in Actors : b # a => attempt'[b] = attempt[b]
  BY <1>1, <1>3 DEF Attempts
<1>9. \A j \in Ops : SameTask(task'[j], task[j])
  BY <1>2, <1>3 DEF SameTask, Tasks
<1>10. (k \in live => ~task'[k].since) /\ \A j \in Ops : j # k => task'[j] = task[j]
  BY <1>2, <1>3 DEF Tasks
<1>11. sessions' \subseteq sessions /\ faults' \in 0 .. MaxFaults
  BY <1>1, RevocationAssumption DEF NoFault, Fault, TypeOK, RevocationAssumption
<1>12. good => sessions' = {}
  BY <1>1
<1> HIDE DEF good
<1>13. good => k \in live /\ task[k].since /\ Committed(k)
  BY DEF good
<1> QED
  BY <1>4, <1>7, <1>8, <1>9, <1>10, <1>11, <1>12, <1>13

\* A kick counts from now on.
LEMMA KickCounts ==
  ASSUME Sorts, TypeOK, KicksCount, NEW a \in Actors, NEW k \in Ops, On(a) = k, ~attempt[a].good,
         Kick(k, a), gen' = gen, live' = live, inflight' = inflight, id' = id, claim' = claim
  PROVE  KicksCount'
<1> SUFFICES ASSUME NEW j \in live PROVE KicksOf(j)'
  BY DEF KicksCount
<1>1. KicksOf(j) /\ j \in Ops
  BY DEF KicksCount, Sorts
<1>2. /\ sessions' \subseteq sessions /\ task'[j].kicks = task[j].kicks
      /\ task'[j].prev = task[j].prev
      /\ j # k => task'[j].since = task[j].since
      /\ ~task'[k].since \/ k \notin live
      /\ \A b \in Actors : b # a => attempt'[b] = attempt[b]
      /\ attempt'[a].good => k \in live /\ task[k].since /\ Committed(k) /\ sessions' = {}
  BY <1>1, KickFacts DEF SameTask
<1>3. \A b \in Actors : On(b)' = On(b)
  BY DEF On
<1>4. (OneKick(j) => OneKick(j)') /\ (TwoKicks(j) => TwoKicks(j)')
  BY <1>1, <1>2 DEF OneKick, TwoKicks, NoOld, Committed
<1>5. CASE ~(j = k /\ attempt'[a].good)
  <2>1. \A b \in Actors : GoodKick(b, j)' => GoodKick(b, j)
    BY <1>2, <1>3, <1>5 DEF GoodKick
  <2> QED
    BY <1>1, <1>2, <1>4, <2>1 DEF KicksOf
<1>6. CASE j = k /\ attempt'[a].good
  <2>1. OneKick(j)'
    BY <1>1, <1>2, <1>6 DEF OneKick, Committed
  <2>2. OneKick(j) => TwoKicks(j)'
    BY <1>1, <1>2, <1>6 DEF OneKick, TwoKicks, NoOld
  <2>3. \A b \in Actors : GoodKick(b, j)' => b = a \/ GoodKick(b, j)
    BY <1>2, <1>3 DEF GoodKick
  <2> QED
    BY <1>1, <1>2, <1>4, <2>1, <2>2, <2>3 DEF KicksOf
<1> QED
  BY <1>5, <1>6

\* What complete_attempt does, or fails to do.
LEMMA RecordFacts ==
  ASSUME TypeOK, NEW a \in Actors, NEW k \in Ops,
         CompleteAttempt(k, a) \/ UNCHANGED <<queueVars, rushed>>
  PROVE  /\ task' \in [Ops -> Tasks] /\ live' \subseteq live /\ Cardinality(live') <= MaxTasks
         /\ rushed' \in BOOLEAN /\ (rushed => rushed')
         /\ \A j \in live' : j # k => task'[j] = task[j]
         /\ \A j \in live' : /\ task'[j].kind = task[j].kind /\ task'[j].prev = task[j].prev
                            /\ task'[j].bound = task[j].bound /\ task'[j].since = task[j].since
         /\ k \in live' => \/ task'[k].kicks <= task[k].kicks
                           \/ attempt[a].good /\ task'[k].kicks <= task[k].kicks + 1
         /\ \A j \in live : j \notin live' => j = k /\ task[k].succ > 0
         /\ k \in live /\ k \notin live' /\ ~rushed' =>
              task[k].kicks > 1 \/ (task[k].kicks > 0 /\ attempt[a].good)
<1>1. /\ task \in [Ops -> Tasks] /\ attempt \in [Actors -> Attempts] /\ live \subseteq Ops
      /\ rushed \in BOOLEAN /\ Cardinality(live) <= MaxTasks
  BY DEF TypeOK
<1>2. /\ task[k] \in Tasks /\ task[k].succ \in 0 .. 2 /\ task[k].kicks \in 0 .. 2
      /\ task[k].static \in BOOLEAN
      /\ attempt[a].kick \in BOOLEAN /\ attempt[a].good \in BOOLEAN
      /\ attempt[a].static \in BOOLEAN
  BY <1>1 DEF Tasks, Attempts
<1>3. CASE UNCHANGED <<queueVars, rushed>>
  <2>1. live' = live /\ task' = task /\ rushed' = rushed
    BY <1>3 DEF queueVars
  <2>2. task[k].kicks <= task[k].kicks
    BY <1>2
  <2> QED
    BY <1>1, <2>1, <2>2
<1>4. CASE k \notin live /\ CompleteAttempt(k, a)
  <2>1. live' = live /\ task' = task /\ rushed' = rushed
    BY <1>4 DEF CompleteAttempt, queueVars
  <2> QED
    BY <1>1, <1>4, <2>1
<1>5. CASE k \in live /\ CompleteAttempt(k, a)
  <2> DEFINE t == Recorded(k, a)
  <2>1. /\ t.succ = (IF attempt[a].kick THEN (IF task[k].succ = 2 THEN 2 ELSE task[k].succ + 1) ELSE 0)
        /\ t.kicks = (IF ~attempt[a].kick THEN 0
                       ELSE IF attempt[a].good THEN (IF task[k].kicks = 2 THEN 2 ELSE task[k].kicks + 1)
                       ELSE task[k].kicks)
        /\ t.kind = task[k].kind /\ t.prev = task[k].prev /\ t.bound = task[k].bound
        /\ t.since = task[k].since
    BY <1>2 DEF Recorded, Tasks
  <2>2. t \in Tasks
    <3> DEFINE s == IF attempt[a].kick THEN (IF task[k].succ = 2 THEN 2 ELSE task[k].succ + 1) ELSE 0
               n == IF ~attempt[a].kick THEN 0
                    ELSE IF attempt[a].good THEN (IF task[k].kicks = 2 THEN 2 ELSE task[k].kicks + 1)
                    ELSE task[k].kicks
               c == task[k].static /\ ~attempt[a].static
    <3>1. s \in 0 .. 2 /\ n \in 0 .. 2 /\ c \in BOOLEAN
      BY <1>2
    <3>2. t = [task[k] EXCEPT !.succ = s, !.kicks = n, !.static = c, !.due = FALSE, !.leased = FALSE]
      BY <1>2 DEF Recorded
    <3> HIDE DEF s, n, c, t
    <3>3. [task[k] EXCEPT !.succ = s, !.kicks = n, !.static = c, !.due = FALSE, !.leased = FALSE] \in Tasks
      BY <1>2, <3>1 DEF Tasks
    <3> QED
      BY <3>2, <3>3
  <2> HIDE DEF t
  <2>3. CASE t.succ = 2 /\ ~t.static
    <3>1. DropTask(k) /\ rushed' = (rushed \/ t.kicks < 2)
      BY <1>5, <2>3 DEF CompleteAttempt, t
    <3>2. /\ live' = live \ {k} /\ task' \in [Ops -> Tasks]
          /\ \A j \in live' : task'[j] = task[j]
      BY <3>1, TaskDropped
    <3>3. Cardinality(live') <= MaxTasks
      <4>1. Cardinality(live \ {k}) <= Cardinality(live) /\ Cardinality(live) \in Nat
        BY LiveCount, LiveIsFinite
      <4>2. IsFiniteSet(live \ {k})
        BY LiveIsFinite, FS_Subset
      <4>3. Cardinality(live \ {k}) \in Nat /\ MaxTasks \in Nat
        BY <4>2, FS_CardinalityType, RevocationAssumption DEF RevocationAssumption
      <4> QED
        BY <1>1, <3>2, <4>1, <4>3
    <3>4. rushed' \in BOOLEAN /\ (rushed => rushed')
      BY <3>1
    <3>5. task[k].succ > 0
      BY <1>2, <2>1, <2>3
    <3>6. ~rushed' => task[k].kicks > 1 \/ (task[k].kicks > 0 /\ attempt[a].good)
      <4>1. ~rushed' => ~(t.kicks < 2)
        BY <3>1
      <4> QED
        BY <1>2, <2>1, <4>1
    <3> QED
      BY <3>2, <3>3, <3>4, <3>5, <3>6
  <2>4. CASE ~(t.succ = 2 /\ ~t.static)
    <3>1. task' = [task EXCEPT ![k] = t] /\ live' = live /\ rushed' = rushed
      BY <1>5, <2>4 DEF CompleteAttempt, t
    <3>2. task' \in [Ops -> Tasks] /\ task'[k] = t /\ \A j \in Ops : j # k => task'[j] = task[j]
      BY <1>1, <2>2, <3>1
    <3>3. t.kicks <= task[k].kicks \/ (attempt[a].good /\ t.kicks <= task[k].kicks + 1)
      BY <1>2, <2>1
    <3> QED
      BY <1>1, <2>1, <3>1, <3>2, <3>3
  <2> QED
    BY <2>3, <2>4
<1> QED
  BY <1>3, <1>4, <1>5

\* A recorded kick is still counted.
LEMMA RecordCounts ==
  ASSUME Sorts, TypeOK, KicksCount, NEW a \in Actors, NEW k \in Ops, On(a) = k,
         CompleteAttempt(k, a) \/ UNCHANGED <<queueVars, rushed>>,
         gen' = gen, inflight' = inflight, sessions' = sessions, ~attempt'[a].good,
         \A b \in Actors : b # a => attempt'[b] = attempt[b] /\ On(b)' = On(b)
  PROVE  KicksCount'
<1> SUFFICES ASSUME NEW j \in live' PROVE KicksOf(j)'
  BY DEF KicksCount
<1>1. /\ j \in live /\ j \in Ops /\ task'[j].prev = task[j].prev
      /\ task'[j].since = task[j].since
      /\ j # k => task'[j].kicks = task[j].kicks
      /\ j = k => \/ task'[k].kicks <= task[k].kicks
                  \/ attempt[a].good /\ task'[k].kicks <= task[k].kicks + 1
      /\ task'[j].kicks \in Nat /\ task[j].kicks \in Nat
  <2>1. task' \in [Ops -> Tasks] /\ live' \subseteq live
    BY RecordFacts
  <2>2. j \in live /\ j \in Ops /\ task'[j].kicks \in Nat /\ task[j].kicks \in Nat
    BY <2>1 DEF Sorts, Tasks
  <2> QED
    BY <2>2, RecordFacts
<1>2. KicksOf(j)
  BY <1>1 DEF KicksCount
<1>3. (OneKick(j) => OneKick(j)') /\ (TwoKicks(j) => TwoKicks(j)')
  BY <1>1 DEF OneKick, TwoKicks, NoOld, Committed
<1>4. \A b \in Actors : GoodKick(b, j)' => GoodKick(b, j) /\ b # a
  BY DEF GoodKick
<1>5. CASE task'[j].kicks <= task[j].kicks
  BY <1>1, <1>2, <1>3, <1>4, <1>5 DEF KicksOf
<1>6. CASE ~(task'[j].kicks <= task[j].kicks)
  <2>1. j = k /\ GoodKick(a, j) /\ task'[j].kicks <= task[j].kicks + 1
    BY <1>1, <1>6 DEF GoodKick
  <2> QED
    BY <1>1, <1>2, <1>3, <1>4, <2>1 DEF KicksOf
<1> QED
  BY <1>5, <1>6

\* Only the request that holds the lock has anything to know.
LEMMA LockedOut ==
  ASSUME Locks', \A q \in Requests : lock' = q => Holder(q)' PROVE Holders'
  BY DEF Locks, Holders, Holder

-----------------------------------------------------------------------------
(* Every action preserves the invariant.                                   *)

\* A request takes the lock and the next number.
LEMMA BeginStep == ASSUME IInv, NEW r \in Requests, Begin(r) PROVE IInv'
<1>0. /\ TypeOK /\ Locks /\ Holders /\ TasksOlder /\ ClaimCopy /\ ClaimSettled /\ CountSettled
      /\ HistoryKept /\ AbsenceOwned /\ GoodAtRecord /\ KicksCount /\ NobodyIsZero /\ Coverage
  BY DEF IInv
<1>1. RevocationAssumption /\ Sorts
  BY <1>0, RevocationAssumption, TypeSorts
<1>2. PICK o \in {"rotate", "delete", "add"} :
        /\ pc[r] = "idle" /\ lock = NoOne /\ nextOp <= MaxOps /\ (o = "add" <=> gen = 0)
        /\ \A q \in Requests : pc'[q] = IF q # r THEN pc[q] ELSE IF o = "add" THEN "commit" ELSE "locked"
        /\ \A q \in Requests : op'[q] = IF q = r THEN o ELSE op[q]
        /\ \A q \in Requests : id'[q] = IF q = r THEN nextOp ELSE id[q]
        /\ lock' = r /\ nextOp' = nextOp + 1
        /\ gen' = gen /\ durable' = durable /\ history' = history /\ live' = live
        /\ task' = task
        /\ wpc' = wpc /\ claim' = claim /\ inflight' = inflight /\ sessions' = sessions
        /\ attempt' = attempt /\ rushed' = rushed
  BY <1>0, <1>1 DEF Begin, Goto, TypeOK, RevocationAssumption, Worker, Actors, Ops, Gens,
         accountVars, staticVars, queueVars, reqVars, workerVars, netVars
<1>3. TypeOK'
  BY <1>0, <1>1, <1>2 DEF Begin, Goto, TypeOK, RevocationAssumption, Worker, Actors, Ops,
         Gens, accountVars, staticVars, queueVars, reqVars, workerVars, netVars
<1>4. Locks'
  BY <1>0, <1>1, <1>2 DEF Locks, Sorts
<1>5. Holders'
  <2>1. ASSUME NEW q \in Requests, lock' = q PROVE Holder(q)'
    BY <1>0, <1>1, <1>2, <2>1 DEF Holders, Holder, Locks, ClaimCopy, SameTask, Sorts
  <2> QED
    BY <1>4, <2>1, LockedOut
<1>6. TasksOlder'
  BY <1>0, <1>1, <1>2 DEF TasksOlder, Holders, Holder, SameTask, Sorts
<1>7. ClaimCopy'
  BY <1>0, <1>1, <1>2 DEF ClaimCopy, TasksOlder, Locks, Holders, Holder, SameTask, Sorts
<1>8. ClaimSettled'
  BY <1>0, <1>1, <1>2 DEF ClaimSettled, ClaimCopy, Acting, Locks, Sorts
<1>9. CountSettled'
  <2> SUFFICES ASSUME NEW k \in live', task'[k].kind = "delete", task'[k].succ > 0,
                      NEW q \in Requests, id'[q] = k
               PROVE  gen' # task'[k].prev \/ ~task'[k].bound
    BY DEF CountSettled, Settled, Requested
  <2> QED
    BY <1>0, <1>1, <1>2 DEF CountSettled, Settled, Requested, TasksOlder, Locks, SameTask, Sorts
<1>10. HistoryKept'
  BY <1>0, <1>1, <1>2 DEF HistoryKept, Holders, Holder
<1>11. AbsenceOwned'
  <2> SUFFICES ASSUME gen' = 0, durable' # 0 \/ history' = "own" PROVE Unfinished'
    BY DEF AbsenceOwned
  <2>1. PICK k \in live : task[k].kind = "delete" /\ ~Handled(k)
    BY <1>0, <1>1, <1>2 DEF AbsenceOwned, Unfinished
  <2>2. k \in live' /\ task'[k].kind = "delete" /\ ~Handled(k)'
    BY <1>0, <1>1, <1>2, <2>1 DEF Handled, Acting, Requested, Locks, SameTask, Sorts
  <2> QED
    BY <2>2 DEF Unfinished
<1>12. GoodAtRecord'
  BY <1>0, <1>1, <1>2 DEF GoodAtRecord, Actors, Sorts
<1>13. KicksCount'
  <2> SUFFICES ASSUME NEW k \in live' PROVE KicksOf(k)'
    BY DEF KicksCount
  <2>1. KicksOf(k) /\ k \in Ops
    BY <1>0, <1>1, <1>2 DEF KicksCount, Sorts
  <2>2. \A a \in Actors : GoodKick(a, k)' => GoodKick(a, k)
    BY <1>0, <1>1, <1>2 DEF GoodKick, On, Actors, GoodAtRecord, Sorts
  <2>3. (OneKick(k) => OneKick(k)') /\ (TwoKicks(k) => TwoKicks(k)') /\ task'[k].kicks = task[k].kicks
    BY <1>0, <1>1, <1>2, <2>1
       DEF OneKick, TwoKicks, NoOld, Committed, TasksOlder, Locks, SameTask, Sorts
  <2> QED
    BY <2>1, <2>2, <2>3 DEF KicksOf
<1>14. NobodyIsZero'
  BY <1>0, <1>1, <1>2 DEF NobodyIsZero
<1>15. Coverage'
  <2> SUFFICES ASSUME ~rushed', NEW g \in inflight' \cup sessions', g # gen' PROVE Covered(g)'
    BY DEF Coverage
  <2>1. PICK k \in live : Covers(k, g)
    BY <1>0, <1>1, <1>2 DEF Coverage, Covered
  <2>2. k \in live' /\ Covers(k, g)'
    BY <1>0, <1>1, <1>2, <2>1 DEF Covers, Committed, SameTask, Sorts
  <2> QED
    BY <2>2 DEF Covered
<1> QED
  BY <1>3, <1>4, <1>5, <1>6, <1>7, <1>8, <1>9, <1>10, <1>11, <1>12, <1>13, <1>14, <1>15
     DEF IInv

\* The task is in the queue before the commit.
LEMMA PrepareStep == ASSUME IInv, NEW r \in Requests, Prepare(r) PROVE IInv'
<1>0. /\ TypeOK /\ Locks /\ Holders /\ TasksOlder /\ ClaimCopy /\ ClaimSettled /\ CountSettled
      /\ HistoryKept /\ AbsenceOwned /\ GoodAtRecord /\ KicksCount /\ NobodyIsZero /\ Coverage
  BY DEF IInv
<1>1. RevocationAssumption /\ Sorts
  BY <1>0, RevocationAssumption, TypeSorts
<1>h. /\ pc[r] = "locked" /\ lock = r /\ id[r] \in Ops /\ op[r] \in {"rotate", "delete"}
      /\ id[r] \notin live /\ claim.id # id[r] /\ gen # 0 /\ gen < id[r]
  BY <1>0, <1>1 DEF Prepare, Locks, Holders, Holder, Sorts, TypeOK
<1>2. /\ pc[r] = "locked" /\ lock = r /\ id[r] \in Ops /\ op[r] \in {"rotate", "delete"}
      /\ id[r] \notin live /\ claim.id # id[r] /\ gen # 0 /\ gen < id[r]
      /\ live' = live \cup {id[r]} /\ live' \subseteq Ops /\ task' \in [Ops -> Tasks]
      /\ \A k \in live : task'[k] = task[k]
      /\ task'[id[r]].kind = op[r] /\ task'[id[r]].prev = gen
      /\ task'[id[r]].succ = 0 /\ task'[id[r]].kicks = 0
      /\ \A q \in Requests : pc'[q] = IF q = r THEN "commit" ELSE pc[q]
      /\ gen' = gen /\ durable' = durable /\ history' = history /\ op' = op /\ id' = id
      /\ lock' = lock /\ nextOp' = nextOp /\ wpc' = wpc /\ claim' = claim
      /\ inflight' = inflight /\ sessions' = sessions /\ attempt' = attempt /\ rushed' = rushed
  BY <1>0, <1>1, <1>h, TaskAdded DEF Prepare, Goto, TypeOK, Sorts, accountVars, staticVars,
         queueVars, reqVars, workerVars, netVars
<1>3. TypeOK'
  <2>1. live' \subseteq Ops /\ task' \in [Ops -> Tasks]
    BY <1>2
  <2>2. Cardinality(live') <= MaxTasks
    BY <1>0, <1>1, <1>2, LiveCount, LiveIsFinite DEF Prepare, RevocationAssumption
  <2> QED
    BY <1>0, <1>1, <2>1, <2>2
       DEF TypeOK, Prepare, Goto, accountVars, staticVars, queueVars, reqVars, workerVars,
           netVars
<1>4. Locks'
  BY <1>0, <1>1, <1>2, <1>h DEF Locks, Sorts
<1>5. Holders'
  <2>1. ASSUME NEW q \in Requests, lock' = q PROVE Holder(q)'
    BY <1>0, <1>1, <1>2, <1>h, <2>1 DEF Holders, Holder, Locks, ClaimCopy, SameTask, Sorts
  <2> QED
    BY <1>4, <2>1, LockedOut
<1>6. TasksOlder'
  BY <1>0, <1>1, <1>2, <1>h DEF TasksOlder, Holders, Holder, SameTask, Sorts
<1>7. ClaimCopy'
  BY <1>0, <1>1, <1>2, <1>h DEF ClaimCopy, TasksOlder, Locks, Holders, Holder, SameTask, Sorts
<1>8. ClaimSettled'
  BY <1>0, <1>1, <1>2, <1>h DEF ClaimSettled, ClaimCopy, Acting, Locks, Sorts
<1>9. CountSettled'
  <2> SUFFICES ASSUME NEW k \in live', task'[k].kind = "delete", task'[k].succ > 0,
                      NEW q \in Requests, id'[q] = k
               PROVE  gen' # task'[k].prev \/ ~task'[k].bound
    BY DEF CountSettled, Settled, Requested
  <2> QED
    BY <1>0, <1>1, <1>2, <1>h
       DEF CountSettled, Settled, Requested, TasksOlder, Locks, SameTask, Sorts
<1>10. HistoryKept'
  BY <1>0, <1>1, <1>2, <1>h DEF HistoryKept, Holders, Holder
<1>11. AbsenceOwned'
  <2> SUFFICES ASSUME gen' = 0, durable' # 0 \/ history' = "own" PROVE Unfinished'
    BY DEF AbsenceOwned
  <2>1. PICK k \in live : task[k].kind = "delete" /\ ~Handled(k)
    BY <1>0, <1>1, <1>2, <1>h DEF AbsenceOwned, Unfinished
  <2>2. k \in live' /\ task'[k].kind = "delete" /\ ~Handled(k)'
    BY <1>0, <1>1, <1>2, <1>h, <2>1 DEF Handled, Acting, Requested, Locks, SameTask, Sorts
  <2> QED
    BY <2>2 DEF Unfinished
<1>12. GoodAtRecord'
  BY <1>0, <1>1, <1>2, <1>h DEF GoodAtRecord, Actors, Sorts
<1>13. KicksCount'
  <2> SUFFICES ASSUME NEW k \in live' PROVE KicksOf(k)'
    BY DEF KicksCount
  <2>1. CASE k = id[r]
    <3>1. \A a \in Actors : ~GoodKick(a, k)'
      BY <1>0, <1>1, <1>2, <2>1 DEF GoodKick, On, Actors, GoodAtRecord, Locks, Sorts
    <3> QED
      BY <1>2, <2>1, <3>1 DEF KicksOf
  <2>2. CASE k \in live
    <3>1. KicksOf(k) /\ k \in Ops
      BY <1>0, <1>1, <2>2 DEF KicksCount, Sorts
    <3>2. \A a \in Actors : GoodKick(a, k)' => GoodKick(a, k)
      BY <1>0, <1>1, <1>2 DEF GoodKick, On, Actors, GoodAtRecord, Sorts
    <3>3. (OneKick(k) => OneKick(k)') /\ (TwoKicks(k) => TwoKicks(k)') /\ task'[k].kicks = task[k].kicks
      BY <1>0, <1>1, <1>2, <2>2 DEF OneKick, TwoKicks, NoOld, Committed, Sorts
    <3> QED
      BY <3>1, <3>2, <3>3 DEF KicksOf
  <2> QED
    BY <1>2, <2>1, <2>2
<1>14. NobodyIsZero'
  BY <1>0, <1>1, <1>2, <1>h DEF NobodyIsZero
<1>15. Coverage'
  <2> SUFFICES ASSUME ~rushed', NEW g \in inflight' \cup sessions', g # gen' PROVE Covered(g)'
    BY DEF Coverage
  <2>1. PICK k \in live : Covers(k, g)
    BY <1>0, <1>1, <1>2, <1>h DEF Coverage, Covered
  <2>2. k \in live' /\ Covers(k, g)'
    BY <1>0, <1>1, <1>2, <1>h, <2>1 DEF Covers, Committed, SameTask, Sorts
  <2> QED
    BY <2>2 DEF Covered
<1> QED
  BY <1>3, <1>4, <1>5, <1>6, <1>7, <1>8, <1>9, <1>10, <1>11, <1>12, <1>13, <1>14, <1>15
     DEF IInv

\* A preparation that fails leaves the queue as it was ...
LEMMA PrepareFailsKept ==
  ASSUME IInv, NEW r \in Requests, PrepareFails(r), UNCHANGED queueVars
  PROVE  IInv'
<1>0. /\ TypeOK /\ Locks /\ Holders /\ TasksOlder /\ ClaimCopy /\ ClaimSettled /\ CountSettled
      /\ HistoryKept /\ AbsenceOwned /\ GoodAtRecord /\ KicksCount /\ NobodyIsZero /\ Coverage
  BY DEF IInv
<1>1. RevocationAssumption /\ Sorts
  BY <1>0, RevocationAssumption, TypeSorts
<1>h. /\ pc[r] = "locked" /\ lock = r /\ id[r] \in Ops /\ op[r] \in {"rotate", "delete"}
      /\ id[r] \notin live /\ claim.id # id[r] /\ gen # 0 /\ gen < id[r]
  BY <1>0, <1>1 DEF PrepareFails, Locks, Holders, Holder, Sorts, TypeOK
<1>2. /\ pc[r] = "locked" /\ lock = r /\ id[r] \in Ops /\ op[r] \in {"rotate", "delete"}
      /\ id[r] \notin live /\ claim.id # id[r] /\ gen # 0 /\ gen < id[r]
      /\ \A q \in Requests : pc'[q] = IF q = r THEN "idle" ELSE pc[q]
      /\ \A q \in Requests : id'[q] = IF q = r THEN 0 ELSE id[q]
      /\ \A q \in Requests : q # r => op'[q] = op[q]
      /\ ~attempt'[r].good /\ \A a \in Actors : a # r => attempt'[a] = attempt[a]
      /\ lock' = NoOne
      /\ gen' = gen /\ durable' = durable /\ history' = history /\ live' = live /\ task' = task
      /\ nextOp' = nextOp /\ wpc' = wpc /\ claim' = claim
      /\ inflight' = inflight /\ sessions' = sessions /\ rushed' = rushed
  BY <1>0, <1>1, <1>h DEF PrepareFails, Goto, TypeOK, End, NoAttempt, Attempts, Actors,
         Sorts, accountVars, staticVars, queueVars, reqVars, workerVars, netVars
<1>3. TypeOK'
  BY <1>0, <1>1, <1>2 DEF TypeOK, PrepareFails, End, NoAttempt, Attempts, Actors, Goto,
         Fault, NoFault, RevocationAssumption, accountVars, staticVars, queueVars, reqVars,
         workerVars, netVars
<1>4. Locks'
  BY <1>0, <1>1, <1>2, <1>h DEF Locks, Sorts
<1>5. Holders'
  <2>1. ASSUME NEW q \in Requests, lock' = q PROVE Holder(q)'
    BY <1>0, <1>1, <1>2, <1>h, <2>1 DEF Holders, Holder, Locks, ClaimCopy, SameTask, Sorts
  <2> QED
    BY <1>4, <2>1, LockedOut
<1>6. TasksOlder'
  BY <1>0, <1>1, <1>2, <1>h DEF TasksOlder, Holders, Holder, SameTask, Sorts
<1>7. ClaimCopy'
  BY <1>0, <1>1, <1>2, <1>h DEF ClaimCopy, TasksOlder, Locks, Holders, Holder, SameTask, Sorts
<1>8. ClaimSettled'
  BY <1>0, <1>1, <1>2, <1>h DEF ClaimSettled, ClaimCopy, Acting, Locks, Sorts
<1>9. CountSettled'
  <2> SUFFICES ASSUME NEW k \in live', task'[k].kind = "delete", task'[k].succ > 0,
                      NEW q \in Requests, id'[q] = k
               PROVE  gen' # task'[k].prev \/ ~task'[k].bound
    BY DEF CountSettled, Settled, Requested
  <2> QED
    BY <1>0, <1>1, <1>2, <1>h
       DEF CountSettled, Settled, Requested, TasksOlder, Locks, SameTask, Sorts
<1>10. HistoryKept'
  BY <1>0, <1>1, <1>2, <1>h DEF HistoryKept, Holders, Holder
<1>11. AbsenceOwned'
  <2> SUFFICES ASSUME gen' = 0, durable' # 0 \/ history' = "own" PROVE Unfinished'
    BY DEF AbsenceOwned
  <2>1. PICK k \in live : task[k].kind = "delete" /\ ~Handled(k)
    BY <1>0, <1>1, <1>2, <1>h DEF AbsenceOwned, Unfinished
  <2>2. k \in live' /\ task'[k].kind = "delete" /\ ~Handled(k)'
    BY <1>0, <1>1, <1>2, <1>h, <2>1 DEF Handled, Acting, Requested, Locks, SameTask, Sorts
  <2> QED
    BY <2>2 DEF Unfinished
<1>12. GoodAtRecord'
  BY <1>0, <1>1, <1>2, <1>h DEF GoodAtRecord, Actors, Sorts
<1>13. KicksCount'
  <2> SUFFICES ASSUME NEW k \in live' PROVE KicksOf(k)'
    BY DEF KicksCount
  <2>1. KicksOf(k) /\ k \in Ops
    BY <1>0, <1>1, <1>2, <1>h DEF KicksCount, Sorts
  <2>2. \A a \in Actors : GoodKick(a, k)' => GoodKick(a, k)
    BY <1>0, <1>1, <1>2, <1>h DEF GoodKick, On, Actors, GoodAtRecord, Sorts
  <2>3. (OneKick(k) => OneKick(k)') /\ (TwoKicks(k) => TwoKicks(k)') /\ task'[k].kicks = task[k].kicks
    BY <1>0, <1>1, <1>2, <1>h, <2>1
       DEF OneKick, TwoKicks, NoOld, Committed, TasksOlder, Locks, SameTask, Sorts
  <2> QED
    BY <2>1, <2>2, <2>3 DEF KicksOf
<1>14. NobodyIsZero'
  BY <1>0, <1>1, <1>2, <1>h DEF NobodyIsZero
<1>15. Coverage'
  <2> SUFFICES ASSUME ~rushed', NEW g \in inflight' \cup sessions', g # gen' PROVE Covered(g)'
    BY DEF Coverage
  <2>1. PICK k \in live : Covers(k, g)
    BY <1>0, <1>1, <1>2, <1>h DEF Coverage, Covered
  <2>2. k \in live' /\ Covers(k, g)'
    BY <1>0, <1>1, <1>2, <1>h, <2>1 DEF Covers, Committed, SameTask, Sorts
  <2> QED
    BY <2>2 DEF Covered
<1> QED
  BY <1>3, <1>4, <1>5, <1>6, <1>7, <1>8, <1>9, <1>10, <1>11, <1>12, <1>13, <1>14, <1>15
     DEF IInv

\* ... or the task in it, without a request.
LEMMA PrepareFailsAdded ==
  ASSUME IInv, NEW r \in Requests, PrepareFails(r), Cardinality(live) < MaxTasks, AddTask(id[r], op[r])
  PROVE  IInv'
<1>0. /\ TypeOK /\ Locks /\ Holders /\ TasksOlder /\ ClaimCopy /\ ClaimSettled /\ CountSettled
      /\ HistoryKept /\ AbsenceOwned /\ GoodAtRecord /\ KicksCount /\ NobodyIsZero /\ Coverage
  BY DEF IInv
<1>1. RevocationAssumption /\ Sorts
  BY <1>0, RevocationAssumption, TypeSorts
<1>h. /\ pc[r] = "locked" /\ lock = r /\ id[r] \in Ops /\ op[r] \in {"rotate", "delete"}
      /\ id[r] \notin live /\ claim.id # id[r] /\ gen # 0 /\ gen < id[r]
  BY <1>0, <1>1 DEF PrepareFails, Locks, Holders, Holder, Sorts, TypeOK
<1>2. /\ pc[r] = "locked" /\ lock = r /\ id[r] \in Ops /\ op[r] \in {"rotate", "delete"}
      /\ id[r] \notin live /\ claim.id # id[r] /\ gen # 0 /\ gen < id[r]
      /\ live' = live \cup {id[r]} /\ live' \subseteq Ops /\ task' \in [Ops -> Tasks]
      /\ \A k \in live : task'[k] = task[k]
      /\ task'[id[r]].kind = op[r] /\ task'[id[r]].prev = gen
      /\ task'[id[r]].succ = 0 /\ task'[id[r]].kicks = 0
      /\ \A q \in Requests : pc'[q] = IF q = r THEN "idle" ELSE pc[q]
      /\ \A q \in Requests : id'[q] = IF q = r THEN 0 ELSE id[q]
      /\ \A q \in Requests : q # r => op'[q] = op[q]
      /\ ~attempt'[r].good /\ \A a \in Actors : a # r => attempt'[a] = attempt[a]
      /\ lock' = NoOne
      /\ gen' = gen /\ durable' = durable /\ history' = history
      /\ nextOp' = nextOp /\ wpc' = wpc /\ claim' = claim
      /\ inflight' = inflight /\ sessions' = sessions /\ rushed' = rushed
  BY <1>0, <1>1, <1>h, TaskAdded DEF PrepareFails, Goto, TypeOK, End, NoAttempt, Attempts,
         Actors, Sorts, accountVars, staticVars, queueVars, reqVars, workerVars, netVars
<1>3. TypeOK'
  <2>1. live' \subseteq Ops /\ task' \in [Ops -> Tasks]
    BY <1>2
  <2>2. Cardinality(live') <= MaxTasks
    BY <1>0, <1>1, <1>2, LiveCount, LiveIsFinite DEF RevocationAssumption
  <2> QED
    BY <1>0, <1>1, <2>1, <2>2
       DEF TypeOK, PrepareFails, End, NoAttempt, Attempts, Actors, Goto, Fault, NoFault,
           RevocationAssumption, accountVars, staticVars, queueVars, reqVars, workerVars,
           netVars
<1>4. Locks'
  BY <1>0, <1>1, <1>2, <1>h DEF Locks, Sorts
<1>5. Holders'
  <2>1. ASSUME NEW q \in Requests, lock' = q PROVE Holder(q)'
    BY <1>0, <1>1, <1>2, <1>h, <2>1 DEF Holders, Holder, Locks, ClaimCopy, SameTask, Sorts
  <2> QED
    BY <1>4, <2>1, LockedOut
<1>6. TasksOlder'
  BY <1>0, <1>1, <1>2, <1>h DEF TasksOlder, Holders, Holder, SameTask, Sorts
<1>7. ClaimCopy'
  BY <1>0, <1>1, <1>2, <1>h DEF ClaimCopy, TasksOlder, Locks, Holders, Holder, SameTask, Sorts
<1>8. ClaimSettled'
  BY <1>0, <1>1, <1>2, <1>h DEF ClaimSettled, ClaimCopy, Acting, Locks, Sorts
<1>9. CountSettled'
  <2> SUFFICES ASSUME NEW k \in live', task'[k].kind = "delete", task'[k].succ > 0,
                      NEW q \in Requests, id'[q] = k
               PROVE  gen' # task'[k].prev \/ ~task'[k].bound
    BY DEF CountSettled, Settled, Requested
  <2> QED
    BY <1>0, <1>1, <1>2, <1>h
       DEF CountSettled, Settled, Requested, TasksOlder, Locks, SameTask, Sorts
<1>10. HistoryKept'
  BY <1>0, <1>1, <1>2, <1>h DEF HistoryKept, Holders, Holder
<1>11. AbsenceOwned'
  <2> SUFFICES ASSUME gen' = 0, durable' # 0 \/ history' = "own" PROVE Unfinished'
    BY DEF AbsenceOwned
  <2>1. PICK k \in live : task[k].kind = "delete" /\ ~Handled(k)
    BY <1>0, <1>1, <1>2, <1>h DEF AbsenceOwned, Unfinished
  <2>2. k \in live' /\ task'[k].kind = "delete" /\ ~Handled(k)'
    BY <1>0, <1>1, <1>2, <1>h, <2>1 DEF Handled, Acting, Requested, Locks, SameTask, Sorts
  <2> QED
    BY <2>2 DEF Unfinished
<1>12. GoodAtRecord'
  BY <1>0, <1>1, <1>2, <1>h DEF GoodAtRecord, Actors, Sorts
<1>13. KicksCount'
  <2> SUFFICES ASSUME NEW k \in live' PROVE KicksOf(k)'
    BY DEF KicksCount
  <2>1. CASE k = id[r]
    <3>1. \A a \in Actors : ~GoodKick(a, k)'
      BY <1>0, <1>1, <1>2, <2>1 DEF GoodKick, On, Actors, GoodAtRecord, Locks, Sorts
    <3> QED
      BY <1>2, <2>1, <3>1 DEF KicksOf
  <2>2. CASE k \in live
    <3>1. KicksOf(k) /\ k \in Ops
      BY <1>0, <1>1, <2>2 DEF KicksCount, Sorts
    <3>2. \A a \in Actors : GoodKick(a, k)' => GoodKick(a, k)
      BY <1>0, <1>1, <1>2 DEF GoodKick, On, Actors, GoodAtRecord, Sorts
    <3>3. (OneKick(k) => OneKick(k)') /\ (TwoKicks(k) => TwoKicks(k)') /\ task'[k].kicks = task[k].kicks
      BY <1>0, <1>1, <1>2, <2>2 DEF OneKick, TwoKicks, NoOld, Committed, Sorts
    <3> QED
      BY <3>1, <3>2, <3>3 DEF KicksOf
  <2> QED
    BY <1>2, <2>1, <2>2
<1>14. NobodyIsZero'
  BY <1>0, <1>1, <1>2, <1>h DEF NobodyIsZero
<1>15. Coverage'
  <2> SUFFICES ASSUME ~rushed', NEW g \in inflight' \cup sessions', g # gen' PROVE Covered(g)'
    BY DEF Coverage
  <2>1. PICK k \in live : Covers(k, g)
    BY <1>0, <1>1, <1>2, <1>h DEF Coverage, Covered
  <2>2. k \in live' /\ Covers(k, g)'
    BY <1>0, <1>1, <1>2, <1>h, <2>1 DEF Covers, Committed, SameTask, Sorts
  <2> QED
    BY <2>2 DEF Covered
<1> QED
  BY <1>3, <1>4, <1>5, <1>6, <1>7, <1>8, <1>9, <1>10, <1>11, <1>12, <1>13, <1>14, <1>15
     DEF IInv

\* The commit: everybody in use with an older generation is covered by the prepared task.
LEMMA CommitStep == ASSUME IInv, NEW r \in Requests, Commit(r) PROVE IInv'
<1>0. /\ TypeOK /\ Locks /\ Holders /\ TasksOlder /\ ClaimCopy /\ ClaimSettled /\ CountSettled
      /\ HistoryKept /\ AbsenceOwned /\ GoodAtRecord /\ KicksCount /\ NobodyIsZero /\ Coverage
  BY DEF IInv
<1>1. RevocationAssumption /\ Sorts
  BY <1>0, RevocationAssumption, TypeSorts
<1>h. /\ pc[r] = "commit" /\ lock = r /\ id[r] \in Ops /\ id[r] + 1 = nextOp /\ gen < id[r]
      /\ op[r] = "add" => gen = 0
      /\ op[r] # "add" => /\ gen # 0 /\ id[r] \in live /\ task[id[r]].kind = op[r]
                          /\ task[id[r]].prev = gen /\ task[id[r]].succ = 0
      /\ claim.id = id[r] => wpc = "claimed"
      /\ op[r] \in {"rotate", "delete", "add"}
  BY <1>0, <1>1 DEF Commit, Locks, Holders, Holder, Sorts, TypeOK
<1>2. /\ gen' = (IF op[r] = "delete" THEN 0 ELSE id[r]) /\ durable' = gen'
      /\ history' = IF op[r] = "add" THEN "own" ELSE history
      /\ \A q \in Requests : pc'[q] = IF q = r THEN "sync" ELSE pc[q]
      /\ live' = live /\ task' = task /\ op' = op /\ id' = id
      /\ lock' = lock /\ nextOp' = nextOp /\ wpc' = wpc /\ claim' = claim
      /\ inflight' = inflight /\ sessions' = sessions /\ attempt' = attempt /\ rushed' = rushed
  BY <1>0, <1>1, <1>h DEF Commit, SaveUsers, Target, Goto, TypeOK, accountVars, staticVars,
         queueVars, reqVars, workerVars, netVars
<1>3. TypeOK'
  BY <1>0, <1>1, <1>2, <1>h DEF TypeOK, Commit, Goto, RevocationAssumption, Ops, Gens,
         accountVars, staticVars, queueVars, reqVars, workerVars, netVars
<1>4. Locks'
  BY <1>0, <1>1, <1>2, <1>h DEF Locks, Sorts
<1>5. Holders'
  <2>1. ASSUME NEW q \in Requests, lock' = q PROVE Holder(q)'
    BY <1>0, <1>1, <1>2, <1>h, <2>1 DEF Holders, Holder, Locks, ClaimCopy, SameTask, Sorts
  <2> QED
    BY <1>4, <2>1, LockedOut
<1>6. TasksOlder'
  BY <1>0, <1>1, <1>2, <1>h DEF TasksOlder, Holders, Holder, SameTask, Sorts
<1>7. ClaimCopy'
  BY <1>0, <1>1, <1>2, <1>h DEF ClaimCopy, TasksOlder, Locks, Holders, Holder, SameTask, Sorts
<1>8. ClaimSettled'
  BY <1>0, <1>1, <1>2, <1>h DEF ClaimSettled, ClaimCopy, Acting, Locks, Sorts
<1>9. CountSettled'
  <2> SUFFICES ASSUME NEW k \in live', task'[k].kind = "delete", task'[k].succ > 0,
                      NEW q \in Requests, id'[q] = k
               PROVE  gen' # task'[k].prev \/ ~task'[k].bound
    BY DEF CountSettled, Settled, Requested
  <2> QED
    BY <1>0, <1>1, <1>2, <1>h
       DEF CountSettled, Settled, Requested, TasksOlder, Locks, SameTask, Sorts
<1>10. HistoryKept'
  BY <1>0, <1>1, <1>2, <1>h DEF HistoryKept, Holders, Holder
<1>11. AbsenceOwned'
  <2> SUFFICES ASSUME gen' = 0, durable' # 0 \/ history' = "own" PROVE Unfinished'
    BY DEF AbsenceOwned
  <2>1. op[r] = "delete"
    BY <1>1, <1>2, <1>h DEF Sorts
  <2>2. PICK k \in live : k = id[r]
    BY <1>h, <2>1
  <2>3. k \in live' /\ task'[k].kind = "delete" /\ ~Handled(k)'
    <3>1. ~(claim'.id = k /\ Acting')
      BY <1>2, <1>h, <2>2 DEF Acting
    <3>2. ~(task'[k].succ > 0)
      BY <1>2, <1>h, <2>1, <2>2
    <3> QED
      BY <1>2, <1>h, <2>1, <2>2, <3>1, <3>2 DEF Handled
  <2> QED
    BY <2>3 DEF Unfinished
<1>12. GoodAtRecord'
  BY <1>0, <1>1, <1>2, <1>h DEF GoodAtRecord, Actors, Sorts
<1>13. KicksCount'
  <2> SUFFICES ASSUME NEW k \in live' PROVE KicksOf(k)'
    BY DEF KicksCount
  <2>1. KicksOf(k) /\ k \in Ops
    BY <1>0, <1>1, <1>2, <1>h DEF KicksCount, Sorts
  <2>2. \A a \in Actors : GoodKick(a, k)' => GoodKick(a, k)
    BY <1>0, <1>1, <1>2, <1>h DEF GoodKick, On, Actors, GoodAtRecord, Sorts
  <2>3. (OneKick(k) => OneKick(k)') /\ (TwoKicks(k) => TwoKicks(k)') /\ task'[k].kicks = task[k].kicks
    BY <1>0, <1>1, <1>2, <1>h, <2>1
       DEF OneKick, TwoKicks, NoOld, Committed, TasksOlder, Locks, SameTask, Sorts
  <2> QED
    BY <2>1, <2>2, <2>3 DEF KicksOf
<1>14. NobodyIsZero'
  BY <1>0, <1>1, <1>2, <1>h DEF NobodyIsZero
<1>15. Coverage'
  <2> SUFFICES ASSUME ~rushed', NEW g \in inflight' \cup sessions', g # gen' PROVE Covered(g)'
    BY DEF Coverage
  <2>0. g \in Nat /\ g # 0 /\ g \in inflight \cup sessions
    BY <1>0, <1>1, <1>2 DEF NobodyIsZero, Sorts
  <2>1. ASSUME gen # 0, g <= gen PROVE Covered(g)'
    <3>1. /\ id[r] \in live' /\ task'[id[r]].prev = gen /\ task'[id[r]].kind = op[r]
          /\ op[r] # "add"
      BY <1>2, <1>h, <2>1
    <3> QED
      BY <1>2, <1>h, <2>1, <3>1 DEF Covered, Covers, Committed
  <2>2. CASE g = gen
    BY <1>1, <2>0, <2>1, <2>2 DEF Sorts
  <2>3. CASE g # gen
    <3>1. PICK k \in live : Covers(k, g)
      BY <1>0, <1>2, <2>0, <2>3 DEF Coverage, Covered
    <3>2. /\ k \in Ops /\ k \in Nat /\ 0 < task[k].prev /\ task[k].prev < k /\ k <= id[r]
          /\ task[k].prev \in Nat
      BY <1>0, <1>1, <1>h DEF TasksOlder, Locks, Sorts
    <3>3. CASE task[k].kind = "delete"
      <4>1. Covers(k, g)' /\ k \in live'
        BY <1>1, <1>2, <1>h, <3>1, <3>2, <3>3 DEF Covers, Committed, Sorts
      <4> QED
        BY <4>1 DEF Covered
    <3>4. CASE task[k].kind # "delete"
      BY <1>1, <2>0, <2>1, <3>1, <3>2, <3>4 DEF Covers, Sorts
    <3> QED
      BY <3>3, <3>4
  <2> QED
    BY <2>2, <2>3
<1> QED
  BY <1>3, <1>4, <1>5, <1>6, <1>7, <1>8, <1>9, <1>10, <1>11, <1>12, <1>13, <1>14, <1>15
     DEF IInv

\* The same when the replacement may not survive a host crash.
LEMMA CommitUncertainStep == ASSUME IInv, NEW r \in Requests, CommitUncertain(r) PROVE IInv'
<1>0. /\ TypeOK /\ Locks /\ Holders /\ TasksOlder /\ ClaimCopy /\ ClaimSettled /\ CountSettled
      /\ HistoryKept /\ AbsenceOwned /\ GoodAtRecord /\ KicksCount /\ NobodyIsZero /\ Coverage
  BY DEF IInv
<1>1. RevocationAssumption /\ Sorts
  BY <1>0, RevocationAssumption, TypeSorts
<1>h. /\ pc[r] = "commit" /\ lock = r /\ id[r] \in Ops /\ id[r] + 1 = nextOp /\ gen < id[r]
      /\ op[r] = "add" => gen = 0
      /\ op[r] # "add" => /\ gen # 0 /\ id[r] \in live /\ task[id[r]].kind = op[r]
                          /\ task[id[r]].prev = gen /\ task[id[r]].succ = 0
      /\ claim.id = id[r] => wpc = "claimed"
      /\ op[r] \in {"rotate", "delete", "add"}
  BY <1>0, <1>1 DEF CommitUncertain, Locks, Holders, Holder, Sorts, TypeOK
<1>2. /\ gen' = (IF op[r] = "delete" THEN 0 ELSE id[r]) /\ durable' = durable
      /\ history' = IF op[r] = "add" THEN "own" ELSE history
      /\ \A q \in Requests : pc'[q] = IF q # r THEN pc[q] ELSE IF op[r] = "add" THEN "idle" ELSE "effects"
      /\ \A q \in Requests : id'[q] = IF q = r /\ op[r] = "add" THEN 0 ELSE id[q]
      /\ \A a \in Actors : attempt'[a].good => attempt[a].good /\ ~(a = r /\ op[r] = "add")
      /\ lock' = NoOne
      /\ live' = live /\ task' = task /\ nextOp' = nextOp
      /\ wpc' = wpc /\ claim' = claim
      /\ inflight' = inflight /\ sessions' = sessions /\ rushed' = rushed
  BY <1>0, <1>1, <1>h DEF CommitUncertain, SaveUsersUncertain, Target, Met, End, NoAttempt,
         Attempts, Actors, Goto, TypeOK, accountVars, staticVars, queueVars, reqVars,
         workerVars, netVars
<1>3. TypeOK'
  <2>1. attempt' \in [Actors -> Attempts]
    <3>1. r \in Actors
      BY DEF Actors, Worker
    <3>2. \/ attempt' = [attempt EXCEPT ![r] = NoAttempt]
          \/ \E e \in BOOLEAN : attempt' = [attempt EXCEPT ![r].error = e]
      BY <1>0, <1>1, <1>2, <1>h DEF CommitUncertain, Met, End
    <3>3. /\ [attempt EXCEPT ![r] = NoAttempt] \in [Actors -> Attempts]
          /\ \A e \in BOOLEAN : [attempt EXCEPT ![r].error = e] \in [Actors -> Attempts]
      BY <1>0, <3>1, AttemptTypes, Zenon
    <3> QED
      BY <3>2, <3>3
  <2>2. /\ pc' \in [Requests -> {"idle", "locked", "commit", "sync", "effects", "kick", "record"}]
        /\ op' \in [Requests -> {"rotate", "delete", "add"}]
        /\ id' \in [Requests -> Ops \cup {0}] /\ lock' \in Requests \cup {NoOne}
    <3>1. /\ pc' \in {[pc EXCEPT ![r] = "idle"], [pc EXCEPT ![r] = "effects"]} /\ lock' = NoOne
          /\ op' \in {op, [op EXCEPT ![r] = "rotate"]} /\ id' \in {id, [id EXCEPT ![r] = 0]}
      BY <1>0, <1>1, <1>2, <1>h
         DEF CommitUncertain, Goto, End, accountVars, staticVars, queueVars, reqVars,
             workerVars, netVars
    <3> QED
      BY <1>0, <1>1, <1>2, <1>h, <3>1 DEF TypeOK
  <2>3. gen' \in Gens /\ durable' \in Gens /\ history' \in {"none", "own", "lost"}
    BY <1>0, <1>1, <1>2, <1>h
       DEF TypeOK, RevocationAssumption, Ops, Gens, CommitUncertain, accountVars, staticVars,
           queueVars, reqVars, workerVars, netVars
  <2>4. faults' \in 0 .. MaxFaults
    BY <1>0, <1>1, <1>2, <1>h DEF TypeOK, RevocationAssumption, CommitUncertain, MayPause, Fault
  <2>5. static' \in Gens /\ paused' \in BOOLEAN
    BY <1>0, <1>1, <1>2, <1>h
       DEF TypeOK, CommitUncertain, MayPause, Fault, accountVars, staticVars, queueVars,
           reqVars, workerVars, netVars
  <2> QED
    BY <1>0, <1>1, <1>2, <1>h, <2>1, <2>2, <2>3, <2>4, <2>5
       DEF TypeOK, CommitUncertain, accountVars, staticVars, queueVars, reqVars, workerVars,
           netVars
<1>4. Locks'
  BY <1>0, <1>1, <1>2, <1>h DEF Locks, Sorts
<1>5. Holders'
  <2>1. ASSUME NEW q \in Requests, lock' = q PROVE Holder(q)'
    BY <1>0, <1>1, <1>2, <1>h, <2>1 DEF Holders, Holder, Locks, ClaimCopy, SameTask, Sorts
  <2> QED
    BY <1>4, <2>1, LockedOut
<1>6. TasksOlder'
  BY <1>0, <1>1, <1>2, <1>h DEF TasksOlder, Holders, Holder, SameTask, Sorts
<1>7. ClaimCopy'
  BY <1>0, <1>1, <1>2, <1>h DEF ClaimCopy, TasksOlder, Locks, Holders, Holder, SameTask, Sorts
<1>8. ClaimSettled'
  BY <1>0, <1>1, <1>2, <1>h DEF ClaimSettled, ClaimCopy, Acting, Locks, Sorts
<1>9. CountSettled'
  <2> SUFFICES ASSUME NEW k \in live', task'[k].kind = "delete", task'[k].succ > 0,
                      NEW q \in Requests, id'[q] = k
               PROVE  gen' # task'[k].prev \/ ~task'[k].bound
    BY DEF CountSettled, Settled, Requested
  <2> QED
    BY <1>0, <1>1, <1>2, <1>h
       DEF CountSettled, Settled, Requested, TasksOlder, Locks, SameTask, Sorts
<1>10. HistoryKept'
  BY <1>0, <1>1, <1>2, <1>h DEF HistoryKept, Holders, Holder
<1>11. AbsenceOwned'
  <2> SUFFICES ASSUME gen' = 0, durable' # 0 \/ history' = "own" PROVE Unfinished'
    BY DEF AbsenceOwned
  <2>1. op[r] = "delete"
    BY <1>1, <1>2, <1>h DEF Sorts
  <2>2. PICK k \in live : k = id[r]
    BY <1>h, <2>1
  <2>3. k \in live' /\ task'[k].kind = "delete" /\ ~Handled(k)'
    <3>1. ~(claim'.id = k /\ Acting')
      BY <1>2, <1>h, <2>2 DEF Acting
    <3>2. ~(task'[k].succ > 0)
      BY <1>2, <1>h, <2>1, <2>2
    <3> QED
      BY <1>2, <1>h, <2>1, <2>2, <3>1, <3>2 DEF Handled
  <2> QED
    BY <2>3 DEF Unfinished
<1>12. GoodAtRecord'
  BY <1>0, <1>1, <1>2, <1>h DEF GoodAtRecord, Actors, Sorts
<1>13. KicksCount'
  <2> SUFFICES ASSUME NEW k \in live' PROVE KicksOf(k)'
    BY DEF KicksCount
  <2>1. KicksOf(k) /\ k \in Ops
    BY <1>0, <1>1, <1>2, <1>h DEF KicksCount, Sorts
  <2>2. \A a \in Actors : GoodKick(a, k)' => GoodKick(a, k)
    BY <1>0, <1>1, <1>2, <1>h DEF GoodKick, On, Actors, GoodAtRecord, Sorts
  <2>3. (OneKick(k) => OneKick(k)') /\ (TwoKicks(k) => TwoKicks(k)') /\ task'[k].kicks = task[k].kicks
    BY <1>0, <1>1, <1>2, <1>h, <2>1
       DEF OneKick, TwoKicks, NoOld, Committed, TasksOlder, Locks, SameTask, Sorts
  <2> QED
    BY <2>1, <2>2, <2>3 DEF KicksOf
<1>14. NobodyIsZero'
  BY <1>0, <1>1, <1>2, <1>h DEF NobodyIsZero
<1>15. Coverage'
  <2> SUFFICES ASSUME ~rushed', NEW g \in inflight' \cup sessions', g # gen' PROVE Covered(g)'
    BY DEF Coverage
  <2>0. g \in Nat /\ g # 0 /\ g \in inflight \cup sessions
    BY <1>0, <1>1, <1>2 DEF NobodyIsZero, Sorts
  <2>1. ASSUME gen # 0, g <= gen PROVE Covered(g)'
    <3>1. /\ id[r] \in live' /\ task'[id[r]].prev = gen /\ task'[id[r]].kind = op[r]
          /\ op[r] # "add"
      BY <1>2, <1>h, <2>1
    <3> QED
      BY <1>2, <1>h, <2>1, <3>1 DEF Covered, Covers, Committed
  <2>2. CASE g = gen
    BY <1>1, <2>0, <2>1, <2>2 DEF Sorts
  <2>3. CASE g # gen
    <3>1. PICK k \in live : Covers(k, g)
      BY <1>0, <1>2, <2>0, <2>3 DEF Coverage, Covered
    <3>2. /\ k \in Ops /\ k \in Nat /\ 0 < task[k].prev /\ task[k].prev < k /\ k <= id[r]
          /\ task[k].prev \in Nat
      BY <1>0, <1>1, <1>h DEF TasksOlder, Locks, Sorts
    <3>3. CASE task[k].kind = "delete"
      <4>1. Covers(k, g)' /\ k \in live'
        BY <1>1, <1>2, <1>h, <3>1, <3>2, <3>3 DEF Covers, Committed, Sorts
      <4> QED
        BY <4>1 DEF Covered
    <3>4. CASE task[k].kind # "delete"
      BY <1>1, <2>0, <2>1, <3>1, <3>2, <3>4 DEF Covers, Sorts
    <3> QED
      BY <3>3, <3>4
  <2> QED
    BY <2>2, <2>3
<1> QED
  BY <1>3, <1>4, <1>5, <1>6, <1>7, <1>8, <1>9, <1>10, <1>11, <1>12, <1>13, <1>14, <1>15
     DEF IInv

\* users.json was not replaced.
LEMMA CommitFailsStep == ASSUME IInv, NEW r \in Requests, CommitFails(r) PROVE IInv'
<1>0. /\ TypeOK /\ Locks /\ Holders /\ TasksOlder /\ ClaimCopy /\ ClaimSettled /\ CountSettled
      /\ HistoryKept /\ AbsenceOwned /\ GoodAtRecord /\ KicksCount /\ NobodyIsZero /\ Coverage
  BY DEF IInv
<1>1. RevocationAssumption /\ Sorts
  BY <1>0, RevocationAssumption, TypeSorts
<1>h. /\ pc[r] = "commit" /\ lock = r /\ id[r] \in Ops /\ id[r] + 1 = nextOp /\ gen < id[r]
      /\ op[r] = "add" => gen = 0
      /\ op[r] # "add" => /\ gen # 0 /\ id[r] \in live /\ task[id[r]].kind = op[r]
                          /\ task[id[r]].prev = gen /\ task[id[r]].succ = 0
      /\ claim.id = id[r] => wpc = "claimed"
      /\ op[r] \in {"rotate", "delete", "add"}
  BY <1>0, <1>1 DEF CommitFails, Locks, Holders, Holder, Sorts, TypeOK
<1>2. /\ \A q \in Requests : pc'[q] = IF q # r THEN pc[q] ELSE IF op[r] = "delete" THEN "effects" ELSE "idle"
      /\ \A q \in Requests : id'[q] = IF q = r /\ op[r] # "delete" THEN 0 ELSE id[q]
      /\ \A a \in Actors : attempt'[a].good => attempt[a].good /\ ~(a = r /\ op[r] # "delete")
      /\ lock' = NoOne
      /\ gen' = gen /\ durable' = durable /\ history' = history
      /\ live' = live /\ task' = task /\ nextOp' = nextOp
      /\ wpc' = wpc /\ claim' = claim
      /\ inflight' = inflight /\ sessions' = sessions /\ rushed' = rushed
  BY <1>0, <1>1, <1>h DEF CommitFails, Met, End, NoAttempt, Attempts, Actors, Goto, TypeOK,
         accountVars, staticVars, queueVars, reqVars, workerVars, netVars
<1>3. TypeOK'
  <2>1. attempt' \in [Actors -> Attempts]
    <3>1. r \in Actors
      BY DEF Actors, Worker
    <3>2. \/ attempt' = [attempt EXCEPT ![r] = NoAttempt]
          \/ \E e \in BOOLEAN : attempt' = [attempt EXCEPT ![r].error = e]
      BY <1>0, <1>1, <1>2, <1>h DEF CommitFails, Met, End
    <3>3. /\ [attempt EXCEPT ![r] = NoAttempt] \in [Actors -> Attempts]
          /\ \A e \in BOOLEAN : [attempt EXCEPT ![r].error = e] \in [Actors -> Attempts]
      BY <1>0, <3>1, AttemptTypes, Zenon
    <3> QED
      BY <3>2, <3>3
  <2>2. /\ pc' \in [Requests -> {"idle", "locked", "commit", "sync", "effects", "kick", "record"}]
        /\ op' \in [Requests -> {"rotate", "delete", "add"}]
        /\ id' \in [Requests -> Ops \cup {0}] /\ lock' \in Requests \cup {NoOne}
    <3>1. /\ pc' \in {[pc EXCEPT ![r] = "idle"], [pc EXCEPT ![r] = "effects"]} /\ lock' = NoOne
          /\ op' \in {op, [op EXCEPT ![r] = "rotate"]} /\ id' \in {id, [id EXCEPT ![r] = 0]}
      BY <1>0, <1>1, <1>2, <1>h
         DEF CommitFails, Goto, End, accountVars, staticVars, queueVars, reqVars, workerVars,
             netVars
    <3> QED
      BY <1>0, <1>1, <1>2, <1>h, <3>1 DEF TypeOK
  <2>3. gen' \in Gens /\ durable' \in Gens /\ history' \in {"none", "own", "lost"}
    BY <1>0, <1>1, <1>2, <1>h
       DEF TypeOK, RevocationAssumption, Ops, Gens, CommitFails, accountVars, staticVars,
           queueVars, reqVars, workerVars, netVars
  <2>4. faults' \in 0 .. MaxFaults
    BY <1>0, <1>1, <1>2, <1>h DEF TypeOK, RevocationAssumption, CommitFails, MayPause, Fault
  <2>5. static' \in Gens /\ paused' \in BOOLEAN
    BY <1>0, <1>1, <1>2, <1>h
       DEF TypeOK, CommitFails, MayPause, Fault, accountVars, staticVars, queueVars, reqVars,
           workerVars, netVars
  <2> QED
    BY <1>0, <1>1, <1>2, <1>h, <2>1, <2>2, <2>3, <2>4, <2>5
       DEF TypeOK, CommitFails, accountVars, staticVars, queueVars, reqVars, workerVars, netVars
<1>4. Locks'
  BY <1>0, <1>1, <1>2, <1>h DEF Locks, Sorts
<1>5. Holders'
  <2>1. ASSUME NEW q \in Requests, lock' = q PROVE Holder(q)'
    BY <1>0, <1>1, <1>2, <1>h, <2>1 DEF Holders, Holder, Locks, ClaimCopy, SameTask, Sorts
  <2> QED
    BY <1>4, <2>1, LockedOut
<1>6. TasksOlder'
  BY <1>0, <1>1, <1>2, <1>h DEF TasksOlder, Holders, Holder, SameTask, Sorts
<1>7. ClaimCopy'
  BY <1>0, <1>1, <1>2, <1>h DEF ClaimCopy, TasksOlder, Locks, Holders, Holder, SameTask, Sorts
<1>8. ClaimSettled'
  BY <1>0, <1>1, <1>2, <1>h DEF ClaimSettled, ClaimCopy, Acting, Locks, Sorts
<1>9. CountSettled'
  <2> SUFFICES ASSUME NEW k \in live', task'[k].kind = "delete", task'[k].succ > 0,
                      NEW q \in Requests, id'[q] = k
               PROVE  gen' # task'[k].prev \/ ~task'[k].bound
    BY DEF CountSettled, Settled, Requested
  <2> QED
    BY <1>0, <1>1, <1>2, <1>h
       DEF CountSettled, Settled, Requested, TasksOlder, Locks, SameTask, Sorts
<1>10. HistoryKept'
  BY <1>0, <1>1, <1>2, <1>h DEF HistoryKept, Holders, Holder
<1>11. AbsenceOwned'
  <2> SUFFICES ASSUME gen' = 0, durable' # 0 \/ history' = "own" PROVE Unfinished'
    BY DEF AbsenceOwned
  <2>1. PICK k \in live : task[k].kind = "delete" /\ ~Handled(k)
    BY <1>0, <1>1, <1>2, <1>h DEF AbsenceOwned, Unfinished
  <2>2. k \in live' /\ task'[k].kind = "delete" /\ ~Handled(k)'
    BY <1>0, <1>1, <1>2, <1>h, <2>1 DEF Handled, Acting, Requested, Locks, SameTask, Sorts
  <2> QED
    BY <2>2 DEF Unfinished
<1>12. GoodAtRecord'
  BY <1>0, <1>1, <1>2, <1>h DEF GoodAtRecord, Actors, Sorts
<1>13. KicksCount'
  <2> SUFFICES ASSUME NEW k \in live' PROVE KicksOf(k)'
    BY DEF KicksCount
  <2>1. KicksOf(k) /\ k \in Ops
    BY <1>0, <1>1, <1>2, <1>h DEF KicksCount, Sorts
  <2>2. \A a \in Actors : GoodKick(a, k)' => GoodKick(a, k)
    BY <1>0, <1>1, <1>2, <1>h DEF GoodKick, On, Actors, GoodAtRecord, Sorts
  <2>3. (OneKick(k) => OneKick(k)') /\ (TwoKicks(k) => TwoKicks(k)') /\ task'[k].kicks = task[k].kicks
    BY <1>0, <1>1, <1>2, <1>h, <2>1
       DEF OneKick, TwoKicks, NoOld, Committed, TasksOlder, Locks, SameTask, Sorts
  <2> QED
    BY <2>1, <2>2, <2>3 DEF KicksOf
<1>14. NobodyIsZero'
  BY <1>0, <1>1, <1>2, <1>h DEF NobodyIsZero
<1>15. Coverage'
  <2> SUFFICES ASSUME ~rushed', NEW g \in inflight' \cup sessions', g # gen' PROVE Covered(g)'
    BY DEF Coverage
  <2>1. PICK k \in live : Covers(k, g)
    BY <1>0, <1>1, <1>2, <1>h DEF Coverage, Covered
  <2>2. k \in live' /\ Covers(k, g)'
    BY <1>0, <1>1, <1>2, <1>h, <2>1 DEF Covers, Committed, SameTask, Sorts
  <2> QED
    BY <2>2 DEF Covered
<1> QED
  BY <1>3, <1>4, <1>5, <1>6, <1>7, <1>8, <1>9, <1>10, <1>11, <1>12, <1>13, <1>14, <1>15
     DEF IInv

\* The static configs, and the purge once the absence is durable.
LEMMA SyncStep == ASSUME IInv, NEW r \in Requests, Sync(r) PROVE IInv'
<1>0. /\ TypeOK /\ Locks /\ Holders /\ TasksOlder /\ ClaimCopy /\ ClaimSettled /\ CountSettled
      /\ HistoryKept /\ AbsenceOwned /\ GoodAtRecord /\ KicksCount /\ NobodyIsZero /\ Coverage
  BY DEF IInv
<1>1. RevocationAssumption /\ Sorts
  BY <1>0, RevocationAssumption, TypeSorts
<1>h. lock = r /\ pc[r] = "sync" /\ (op[r] = "delete" => gen = 0 /\ durable = 0)
  BY <1>0, <1>1 DEF Sync, Locks, Holders, Holder
<1>2. /\ history' \in {history, "none"} /\ (history' # history => gen = 0 /\ durable = 0)
      /\ \A q \in Requests : pc'[q] = IF q # r THEN pc[q] ELSE IF op[r] = "add" THEN "idle" ELSE "effects"
      /\ \A q \in Requests : id'[q] = IF q = r /\ op[r] = "add" THEN 0 ELSE id[q]
      /\ \A a \in Actors : attempt'[a].good => attempt[a].good /\ ~(a = r /\ op[r] = "add")
      /\ lock' = NoOne
      /\ gen' = gen /\ durable' = durable /\ live' = live /\ task' = task /\ nextOp' = nextOp
      /\ wpc' = wpc /\ claim' = claim
      /\ inflight' = inflight /\ sessions' = sessions /\ rushed' = rushed
  BY <1>0, <1>1, <1>h DEF Sync, Met, End, NoAttempt, Attempts, Actors, Goto, TypeOK,
         accountVars, staticVars, queueVars, reqVars, workerVars, netVars
<1>3. TypeOK'
  <2>1. attempt' \in [Actors -> Attempts]
    <3>1. r \in Actors
      BY DEF Actors, Worker
    <3>2. \/ attempt' = [attempt EXCEPT ![r] = NoAttempt]
          \/ \E e \in BOOLEAN : attempt' = [attempt EXCEPT ![r].error = e]
      BY <1>0, <1>1, <1>2, <1>h DEF Sync, Met, End
    <3>3. /\ [attempt EXCEPT ![r] = NoAttempt] \in [Actors -> Attempts]
          /\ \A e \in BOOLEAN : [attempt EXCEPT ![r].error = e] \in [Actors -> Attempts]
      BY <1>0, <3>1, AttemptTypes, Zenon
    <3> QED
      BY <3>2, <3>3
  <2>2. /\ pc' \in [Requests -> {"idle", "locked", "commit", "sync", "effects", "kick", "record"}]
        /\ op' \in [Requests -> {"rotate", "delete", "add"}]
        /\ id' \in [Requests -> Ops \cup {0}] /\ lock' \in Requests \cup {NoOne}
    <3>1. /\ pc' \in {[pc EXCEPT ![r] = "idle"], [pc EXCEPT ![r] = "effects"]} /\ lock' = NoOne
          /\ op' \in {op, [op EXCEPT ![r] = "rotate"]} /\ id' \in {id, [id EXCEPT ![r] = 0]}
      BY <1>0, <1>1, <1>2, <1>h
         DEF Sync, Goto, End, accountVars, staticVars, queueVars, reqVars, workerVars, netVars
    <3> QED
      BY <1>0, <1>1, <1>2, <1>h, <3>1 DEF TypeOK
  <2>3. gen' \in Gens /\ durable' \in Gens /\ history' \in {"none", "own", "lost"}
    BY <1>0, <1>1, <1>2, <1>h
       DEF TypeOK, RevocationAssumption, Ops, Gens, Sync, accountVars, staticVars, queueVars,
           reqVars, workerVars, netVars
  <2>4. faults' \in 0 .. MaxFaults
    BY <1>0, <1>1, <1>2, <1>h
       DEF TypeOK, RevocationAssumption, Sync, SyncStatic, MayPause, Fault, NoFault
  <2>5. static' \in Gens /\ paused' \in BOOLEAN
    BY <1>0, <1>1, <1>2, <1>h
       DEF TypeOK, Sync, SyncStatic, MayPause, Fault, NoFault, accountVars, staticVars,
           queueVars, reqVars, workerVars, netVars
  <2> QED
    BY <1>0, <1>1, <1>2, <1>h, <2>1, <2>2, <2>3, <2>4, <2>5
       DEF TypeOK, Sync, accountVars, staticVars, queueVars, reqVars, workerVars, netVars
<1>4. Locks'
  BY <1>0, <1>1, <1>2, <1>h DEF Locks, Sorts
<1>5. Holders'
  <2>1. ASSUME NEW q \in Requests, lock' = q PROVE Holder(q)'
    BY <1>0, <1>1, <1>2, <1>h, <2>1 DEF Holders, Holder, Locks, ClaimCopy, SameTask, Sorts
  <2> QED
    BY <1>4, <2>1, LockedOut
<1>6. TasksOlder'
  BY <1>0, <1>1, <1>2, <1>h DEF TasksOlder, Holders, Holder, SameTask, Sorts
<1>7. ClaimCopy'
  BY <1>0, <1>1, <1>2, <1>h DEF ClaimCopy, TasksOlder, Locks, Holders, Holder, SameTask, Sorts
<1>8. ClaimSettled'
  BY <1>0, <1>1, <1>2, <1>h DEF ClaimSettled, ClaimCopy, Acting, Locks, Sorts
<1>9. CountSettled'
  <2> SUFFICES ASSUME NEW k \in live', task'[k].kind = "delete", task'[k].succ > 0,
                      NEW q \in Requests, id'[q] = k
               PROVE  gen' # task'[k].prev \/ ~task'[k].bound
    BY DEF CountSettled, Settled, Requested
  <2> QED
    BY <1>0, <1>1, <1>2, <1>h
       DEF CountSettled, Settled, Requested, TasksOlder, Locks, SameTask, Sorts
<1>10. HistoryKept'
  BY <1>0, <1>1, <1>2, <1>h DEF HistoryKept, Holders, Holder
<1>11. AbsenceOwned'
  <2> SUFFICES ASSUME gen' = 0, durable' # 0 \/ history' = "own" PROVE Unfinished'
    BY DEF AbsenceOwned
  <2>1. PICK k \in live : task[k].kind = "delete" /\ ~Handled(k)
    BY <1>0, <1>1, <1>2, <1>h DEF AbsenceOwned, Unfinished
  <2>2. k \in live' /\ task'[k].kind = "delete" /\ ~Handled(k)'
    BY <1>0, <1>1, <1>2, <1>h, <2>1 DEF Handled, Acting, Requested, Locks, SameTask, Sorts
  <2> QED
    BY <2>2 DEF Unfinished
<1>12. GoodAtRecord'
  BY <1>0, <1>1, <1>2, <1>h DEF GoodAtRecord, Actors, Sorts
<1>13. KicksCount'
  <2> SUFFICES ASSUME NEW k \in live' PROVE KicksOf(k)'
    BY DEF KicksCount
  <2>1. KicksOf(k) /\ k \in Ops
    BY <1>0, <1>1, <1>2, <1>h DEF KicksCount, Sorts
  <2>2. \A a \in Actors : GoodKick(a, k)' => GoodKick(a, k)
    BY <1>0, <1>1, <1>2, <1>h DEF GoodKick, On, Actors, GoodAtRecord, Sorts
  <2>3. (OneKick(k) => OneKick(k)') /\ (TwoKicks(k) => TwoKicks(k)') /\ task'[k].kicks = task[k].kicks
    BY <1>0, <1>1, <1>2, <1>h, <2>1
       DEF OneKick, TwoKicks, NoOld, Committed, TasksOlder, Locks, SameTask, Sorts
  <2> QED
    BY <2>1, <2>2, <2>3 DEF KicksOf
<1>14. NobodyIsZero'
  BY <1>0, <1>1, <1>2, <1>h DEF NobodyIsZero
<1>15. Coverage'
  <2> SUFFICES ASSUME ~rushed', NEW g \in inflight' \cup sessions', g # gen' PROVE Covered(g)'
    BY DEF Coverage
  <2>1. PICK k \in live : Covers(k, g)
    BY <1>0, <1>1, <1>2, <1>h DEF Coverage, Covered
  <2>2. k \in live' /\ Covers(k, g)'
    BY <1>0, <1>1, <1>2, <1>h, <2>1 DEF Covers, Committed, SameTask, Sorts
  <2> QED
    BY <2>2 DEF Covered
<1> QED
  BY <1>3, <1>4, <1>5, <1>6, <1>7, <1>8, <1>9, <1>10, <1>11, <1>12, <1>13, <1>14, <1>15
     DEF IInv

\* The static proxies; no part of a task that the invariant speaks of changes.
LEMMA EffectsStep == ASSUME IInv, NEW r \in Requests, Effects(r) PROVE IInv'
<1>0. /\ TypeOK /\ Locks /\ Holders /\ TasksOlder /\ ClaimCopy /\ ClaimSettled /\ CountSettled
      /\ HistoryKept /\ AbsenceOwned /\ GoodAtRecord /\ KicksCount /\ NobodyIsZero /\ Coverage
  BY DEF IInv
<1>1. RevocationAssumption /\ Sorts
  BY <1>0, RevocationAssumption, TypeSorts
<1>h. pc[r] = "effects" /\ lock # r /\ id[r] \in Ops /\ r \in Actors /\ On(r) = id[r]
  BY <1>0, <1>1 DEF Effects, Locks, Sorts, Actors, On
<1>e. PICK ok \in BOOLEAN : StaticEffects(r, ok)
  BY DEF Effects
<1>f. /\ attempt' \in [Actors -> Attempts] /\ static' = static /\ paused' \in BOOLEAN
      /\ faults' \in 0 .. MaxFaults /\ \A b \in Actors : attempt'[b].good = attempt[b].good
  BY <1>0, <1>e, <1>h, EffectsFacts
<1>g. task' = task \/ task' = [task EXCEPT ![id[r]].static = TRUE, ![id[r]].due = TRUE]
  BY DEF Effects
<1>i. task' \in [Ops -> Tasks]
  <2>1. [task EXCEPT ![id[r]].static = TRUE, ![id[r]].due = TRUE] \in [Ops -> Tasks]
    BY <1>0, <1>h, TaskEdited, Zenon
  <2> QED
    BY <1>0, <1>g, <2>1 DEF TypeOK
<1>j. \A j \in Ops : SameTask(task'[j], task[j]) /\ task'[j].since = task[j].since
  <2>1. task \in [Ops -> Tasks]
    BY <1>0 DEF TypeOK
  <2> QED
    BY <1>g, <1>h, <2>1 DEF SameTask, Tasks
<1>2. /\ task' \in [Ops -> Tasks]
      /\ \A j \in Ops : SameTask(task'[j], task[j]) /\ task'[j].since = task[j].since
      /\ \A q \in Requests : pc'[q] = IF q = r THEN "kick" ELSE pc[q]
      /\ \A a \in Actors : attempt'[a].good = attempt[a].good
      /\ gen' = gen /\ durable' = durable /\ history' = history /\ live' = live
      /\ op' = op /\ id' = id /\ lock' = lock /\ nextOp' = nextOp
      /\ wpc' = wpc /\ claim' = claim
      /\ inflight' = inflight /\ sessions' = sessions /\ rushed' = rushed
  BY <1>0, <1>1, <1>f, <1>i, <1>j, <1>h DEF Effects, Goto, TypeOK, accountVars, staticVars,
         queueVars, reqVars, workerVars, netVars
<1>3. TypeOK'
  BY <1>0, <1>1, <1>2, <1>f
     DEF TypeOK, Effects, Goto, accountVars, staticVars, queueVars, reqVars, workerVars, netVars
<1>4. Locks'
  BY <1>0, <1>1, <1>2, <1>h DEF Locks, Sorts
<1>5. Holders'
  <2>1. ASSUME NEW q \in Requests, lock' = q PROVE Holder(q)'
    BY <1>0, <1>1, <1>2, <1>h, <2>1 DEF Holders, Holder, Locks, ClaimCopy, SameTask, Sorts
  <2> QED
    BY <1>4, <2>1, LockedOut
<1>6. TasksOlder'
  BY <1>0, <1>1, <1>2, <1>h DEF TasksOlder, Holders, Holder, SameTask, Sorts
<1>7. ClaimCopy'
  BY <1>0, <1>1, <1>2, <1>h DEF ClaimCopy, TasksOlder, Locks, Holders, Holder, SameTask, Sorts
<1>8. ClaimSettled'
  BY <1>0, <1>1, <1>2, <1>h DEF ClaimSettled, ClaimCopy, Acting, Locks, Sorts
<1>9. CountSettled'
  <2> SUFFICES ASSUME NEW k \in live', task'[k].kind = "delete", task'[k].succ > 0,
                      NEW q \in Requests, id'[q] = k
               PROVE  gen' # task'[k].prev \/ ~task'[k].bound
    BY DEF CountSettled, Settled, Requested
  <2> QED
    BY <1>0, <1>1, <1>2, <1>h
       DEF CountSettled, Settled, Requested, TasksOlder, Locks, SameTask, Sorts
<1>10. HistoryKept'
  BY <1>0, <1>1, <1>2, <1>h DEF HistoryKept, Holders, Holder
<1>11. AbsenceOwned'
  <2> SUFFICES ASSUME gen' = 0, durable' # 0 \/ history' = "own" PROVE Unfinished'
    BY DEF AbsenceOwned
  <2>1. PICK k \in live : task[k].kind = "delete" /\ ~Handled(k)
    BY <1>0, <1>1, <1>2, <1>h DEF AbsenceOwned, Unfinished
  <2>2. k \in live' /\ task'[k].kind = "delete" /\ ~Handled(k)'
    BY <1>0, <1>1, <1>2, <1>h, <2>1 DEF Handled, Acting, Requested, Locks, SameTask, Sorts
  <2> QED
    BY <2>2 DEF Unfinished
<1>12. GoodAtRecord'
  BY <1>0, <1>1, <1>2, <1>h DEF GoodAtRecord, Actors, Sorts
<1>13. KicksCount'
  <2> SUFFICES ASSUME NEW k \in live' PROVE KicksOf(k)'
    BY DEF KicksCount
  <2>1. KicksOf(k) /\ k \in Ops
    BY <1>0, <1>1, <1>2, <1>h DEF KicksCount, Sorts
  <2>2. \A a \in Actors : GoodKick(a, k)' => GoodKick(a, k)
    BY <1>0, <1>1, <1>2, <1>h DEF GoodKick, On, Actors, GoodAtRecord, Sorts
  <2>3. (OneKick(k) => OneKick(k)') /\ (TwoKicks(k) => TwoKicks(k)') /\ task'[k].kicks = task[k].kicks
    BY <1>0, <1>1, <1>2, <1>h, <2>1
       DEF OneKick, TwoKicks, NoOld, Committed, TasksOlder, Locks, SameTask, Sorts
  <2> QED
    BY <2>1, <2>2, <2>3 DEF KicksOf
<1>14. NobodyIsZero'
  BY <1>0, <1>1, <1>2, <1>h DEF NobodyIsZero
<1>15. Coverage'
  <2> SUFFICES ASSUME ~rushed', NEW g \in inflight' \cup sessions', g # gen' PROVE Covered(g)'
    BY DEF Coverage
  <2>1. PICK k \in live : Covers(k, g)
    BY <1>0, <1>1, <1>2, <1>h DEF Coverage, Covered
  <2>2. k \in live' /\ Covers(k, g)'
    BY <1>0, <1>1, <1>2, <1>h, <2>1 DEF Covers, Committed, SameTask, Sorts
  <2> QED
    BY <2>2 DEF Covered
<1> QED
  BY <1>3, <1>4, <1>5, <1>6, <1>7, <1>8, <1>9, <1>10, <1>11, <1>12, <1>13, <1>14, <1>15
     DEF IInv

\* The request kicks.
LEMMA RequestKickStep == ASSUME IInv, NEW r \in Requests, RequestKick(r) PROVE IInv'
<1>0. /\ TypeOK /\ Locks /\ Holders /\ TasksOlder /\ ClaimCopy /\ ClaimSettled /\ CountSettled
      /\ HistoryKept /\ AbsenceOwned /\ GoodAtRecord /\ KicksCount /\ NobodyIsZero /\ Coverage
  BY DEF IInv
<1>1. RevocationAssumption /\ Sorts
  BY <1>0, RevocationAssumption, TypeSorts
<1>h. pc[r] = "kick" /\ lock # r /\ id[r] \in Ops /\ r \in Actors /\ On(r) = id[r]
  BY <1>0, <1>1 DEF RequestKick, Locks, Sorts, Actors, On
<1>e. Kick(id[r], r) /\ ~attempt[r].good
  BY <1>0, <1>h DEF RequestKick, GoodAtRecord
<1>2. /\ task' \in [Ops -> Tasks] /\ attempt' \in [Actors -> Attempts]
      /\ faults' \in 0 .. MaxFaults
      /\ \A j \in Ops : SameTask(task'[j], task[j])
      /\ sessions' \subseteq sessions
      /\ \A q \in Requests : pc'[q] = IF q = r THEN "record" ELSE pc[q]
      /\ \A a \in Actors : a # r => attempt'[a] = attempt[a]
      /\ gen' = gen /\ durable' = durable /\ history' = history /\ live' = live
      /\ op' = op /\ id' = id /\ lock' = lock /\ nextOp' = nextOp
      /\ wpc' = wpc /\ claim' = claim
      /\ inflight' = inflight /\ rushed' = rushed
  BY <1>0, <1>1, <1>e, <1>h, KickFacts DEF RequestKick, Goto, TypeOK, accountVars,
         staticVars, queueVars, reqVars, workerVars, netVars
<1>3. TypeOK'
  BY <1>0, <1>1, <1>2
     DEF TypeOK, RequestKick, Goto, accountVars, staticVars, queueVars, reqVars, workerVars,
         netVars
<1>4. Locks'
  BY <1>0, <1>1, <1>2, <1>h DEF Locks, Sorts
<1>5. Holders'
  <2>1. ASSUME NEW q \in Requests, lock' = q PROVE Holder(q)'
    BY <1>0, <1>1, <1>2, <1>h, <2>1 DEF Holders, Holder, Locks, ClaimCopy, SameTask, Sorts
  <2> QED
    BY <1>4, <2>1, LockedOut
<1>6. TasksOlder'
  BY <1>0, <1>1, <1>2, <1>h DEF TasksOlder, Holders, Holder, SameTask, Sorts
<1>7. ClaimCopy'
  BY <1>0, <1>1, <1>2, <1>h DEF ClaimCopy, TasksOlder, Locks, Holders, Holder, SameTask, Sorts
<1>8. ClaimSettled'
  BY <1>0, <1>1, <1>2, <1>h DEF ClaimSettled, ClaimCopy, Acting, Locks, Sorts
<1>9. CountSettled'
  <2> SUFFICES ASSUME NEW k \in live', task'[k].kind = "delete", task'[k].succ > 0,
                      NEW q \in Requests, id'[q] = k
               PROVE  gen' # task'[k].prev \/ ~task'[k].bound
    BY DEF CountSettled, Settled, Requested
  <2> QED
    BY <1>0, <1>1, <1>2, <1>h
       DEF CountSettled, Settled, Requested, TasksOlder, Locks, SameTask, Sorts
<1>10. HistoryKept'
  BY <1>0, <1>1, <1>2, <1>h DEF HistoryKept, Holders, Holder
<1>11. AbsenceOwned'
  <2> SUFFICES ASSUME gen' = 0, durable' # 0 \/ history' = "own" PROVE Unfinished'
    BY DEF AbsenceOwned
  <2>1. PICK k \in live : task[k].kind = "delete" /\ ~Handled(k)
    BY <1>0, <1>1, <1>2, <1>h DEF AbsenceOwned, Unfinished
  <2>2. k \in live' /\ task'[k].kind = "delete" /\ ~Handled(k)'
    BY <1>0, <1>1, <1>2, <1>h, <2>1 DEF Handled, Acting, Requested, Locks, SameTask, Sorts
  <2> QED
    BY <2>2 DEF Unfinished
<1>12. GoodAtRecord'
  BY <1>0, <1>1, <1>2, <1>h DEF GoodAtRecord, Actors, Sorts
<1>13. KicksCount'
  BY <1>0, <1>1, <1>2, <1>e, <1>h, KickCounts
<1>14. NobodyIsZero'
  BY <1>0, <1>1, <1>2, <1>h DEF NobodyIsZero
<1>15. Coverage'
  <2> SUFFICES ASSUME ~rushed', NEW g \in inflight' \cup sessions', g # gen' PROVE Covered(g)'
    BY DEF Coverage
  <2>1. PICK k \in live : Covers(k, g)
    BY <1>0, <1>1, <1>2, <1>h DEF Coverage, Covered
  <2>2. k \in live' /\ Covers(k, g)'
    BY <1>0, <1>1, <1>2, <1>h, <2>1 DEF Covers, Committed, SameTask, Sorts
  <2> QED
    BY <2>2 DEF Covered
<1> QED
  BY <1>3, <1>4, <1>5, <1>6, <1>7, <1>8, <1>9, <1>10, <1>11, <1>12, <1>13, <1>14, <1>15
     DEF IInv

\* The request records; a task it drops has had its two kicks, and is settled.
LEMMA RequestRecordStep == ASSUME IInv, NEW r \in Requests, RequestRecord(r) PROVE IInv'
<1>0. /\ TypeOK /\ Locks /\ Holders /\ TasksOlder /\ ClaimCopy /\ ClaimSettled /\ CountSettled
      /\ HistoryKept /\ AbsenceOwned /\ GoodAtRecord /\ KicksCount /\ NobodyIsZero /\ Coverage
  BY DEF IInv
<1>1. RevocationAssumption /\ Sorts
  BY <1>0, RevocationAssumption, TypeSorts
<1>h. pc[r] = "record" /\ lock # r /\ id[r] \in Ops /\ r \in Actors /\ On(r) = id[r]
  BY <1>0, <1>1 DEF RequestRecord, Locks, Sorts, Actors, On
<1>e. CompleteAttempt(id[r], r) \/ UNCHANGED <<queueVars, rushed>>
  BY DEF RequestRecord
<1>2. /\ task' \in [Ops -> Tasks] /\ live' \subseteq live /\ Cardinality(live') <= MaxTasks
      /\ rushed' \in BOOLEAN /\ (rushed => rushed')
      /\ \A j \in live' : j # id[r] => task'[j] = task[j]
      /\ \A j \in live' : /\ task'[j].kind = task[j].kind /\ task'[j].prev = task[j].prev
                         /\ task'[j].bound = task[j].bound
      /\ \A j \in live : j \notin live' => j = id[r] /\ task[j].succ > 0
      /\ \A q \in Requests : pc'[q] = IF q = r THEN "idle" ELSE pc[q]
      /\ \A q \in Requests : id'[q] = IF q = r THEN 0 ELSE id[q]
      /\ \A q \in Requests : q # r => op'[q] = op[q]
      /\ ~attempt'[r].good /\ \A a \in Actors : a # r => attempt'[a] = attempt[a]
      /\ gen' = gen /\ durable' = durable /\ history' = history
      /\ lock' = lock /\ nextOp' = nextOp /\ wpc' = wpc /\ claim' = claim
      /\ inflight' = inflight /\ sessions' = sessions
  BY <1>0, <1>1, <1>e, <1>h, RecordFacts DEF RequestRecord, Goto, TypeOK, End, NoAttempt,
         Attempts, Actors, accountVars, staticVars, queueVars, reqVars, workerVars, netVars
<1>3. TypeOK'
  <2>1. attempt' \in [Actors -> Attempts]
    BY <1>0, <1>h, AttemptTypes DEF RequestRecord, End
  <2>2. faults' \in 0 .. MaxFaults
    BY <1>0, <1>1 DEF RequestRecord, NoFault, Fault, TypeOK, RevocationAssumption
  <2> QED
    BY <1>0, <1>1, <1>2, <2>1, <2>2
       DEF TypeOK, RequestRecord, End, Goto, accountVars, staticVars, queueVars, reqVars,
           workerVars, netVars
<1>4. Locks'
  BY <1>0, <1>1, <1>2, <1>h DEF Locks, Sorts
<1>5. Holders'
  <2>1. ASSUME NEW q \in Requests, lock' = q PROVE Holder(q)'
    BY <1>0, <1>1, <1>2, <1>h, <2>1 DEF Holders, Holder, Locks, ClaimCopy, SameTask, Sorts
  <2> QED
    BY <1>4, <2>1, LockedOut
<1>6. TasksOlder'
  BY <1>0, <1>1, <1>2, <1>h DEF TasksOlder, Holders, Holder, SameTask, Sorts
<1>7. ClaimCopy'
  BY <1>0, <1>1, <1>2, <1>h DEF ClaimCopy, TasksOlder, Locks, Holders, Holder, SameTask, Sorts
<1>8. ClaimSettled'
  <2> SUFFICES ASSUME claim.id # 0, claim.kind = "delete", claim.id \in live, claim.id \notin live'
               PROVE  gen # claim.prev \/ ~claim.bound
    BY <1>0, <1>2 DEF ClaimSettled, Acting
  <2>1. claim.id = id[r] /\ task[claim.id].succ > 0
    BY <1>2
  <2>2. Settled(claim.id)
    BY <1>0, <1>h, <2>1 DEF CountSettled, Requested, ClaimCopy
  <2> QED
    BY <1>0, <2>2 DEF Settled, ClaimCopy
<1>9. CountSettled'
  <2> SUFFICES ASSUME NEW k \in live', task'[k].kind = "delete", task'[k].succ > 0,
                      NEW q \in Requests, id'[q] = k
               PROVE  gen' # task'[k].prev \/ ~task'[k].bound
    BY DEF CountSettled, Settled, Requested
  <2> QED
    BY <1>0, <1>1, <1>2, <1>h
       DEF CountSettled, Settled, Requested, TasksOlder, Locks, SameTask, Sorts
<1>10. HistoryKept'
  BY <1>0, <1>1, <1>2, <1>h DEF HistoryKept, Holders, Holder
<1>11. AbsenceOwned'
  <2> SUFFICES ASSUME gen' = 0, durable' # 0 \/ history' = "own" PROVE Unfinished'
    BY DEF AbsenceOwned
  <2>1. PICK k \in live : task[k].kind = "delete" /\ ~Handled(k)
    BY <1>0, <1>1, <1>2, <1>h DEF AbsenceOwned, Unfinished
  <2>2. k \in live' /\ task'[k].kind = "delete" /\ ~Handled(k)'
    BY <1>0, <1>1, <1>2, <1>h, <2>1 DEF Handled, Acting, Requested, Locks, SameTask, Sorts
  <2> QED
    BY <2>2 DEF Unfinished
<1>12. GoodAtRecord'
  BY <1>0, <1>1, <1>2, <1>h DEF GoodAtRecord, Actors, Sorts
<1>13. KicksCount'
  <2>1. \A b \in Actors : b # r => attempt'[b] = attempt[b] /\ On(b)' = On(b)
    BY <1>1, <1>2 DEF On, Actors, Sorts
  <2> QED
    BY <1>0, <1>1, <1>2, <1>e, <1>h, <2>1, RecordCounts
<1>14. NobodyIsZero'
  BY <1>0, <1>1, <1>2, <1>h DEF NobodyIsZero
<1>15. Coverage'
  <2> SUFFICES ASSUME ~rushed', NEW g \in inflight' \cup sessions', g # gen' PROVE Covered(g)'
    BY DEF Coverage
  <2>1. PICK k \in live : Covers(k, g)
    BY <1>0, <1>2 DEF Coverage, Covered
  <2>2. k \in live'
    <3> SUFFICES ASSUME k \notin live' PROVE FALSE
      OBVIOUS
    <3>1. k = id[r] /\ (task[k].kicks > 1 \/ (task[k].kicks > 0 /\ GoodKick(r, k)))
      BY <1>0, <1>2, <1>e, <1>h, RecordFacts DEF GoodKick
    <3>2. TwoKicks(k)
      BY <1>0, <1>h, <3>1 DEF KicksCount, KicksOf
    <3> QED
      BY <1>1, <1>2, <2>1, <3>2 DEF TwoKicks, NoOld, Covers, Sorts
  <2>3. Covers(k, g)'
    BY <1>1, <1>2, <2>1, <2>2 DEF Covers, Committed, Sorts
  <2> QED
    BY <2>2, <2>3 DEF Covered
<1> QED
  BY <1>3, <1>4, <1>5, <1>6, <1>7, <1>8, <1>9, <1>10, <1>11, <1>12, <1>13, <1>14, <1>15
     DEF IInv

\* What the worker's reconciliation of the static configs does.
LEMMA SyncFacts ==
  ASSUME TypeOK, NEW g \in Gens, WorkerSync(g)
  PROVE  /\ attempt' \in [Actors -> Attempts] /\ static' \in Gens
         /\ paused' \in BOOLEAN /\ faults' \in 0 .. MaxFaults
         /\ \A b \in Actors : attempt'[b].good = attempt[b].good
<1>1. PICK e \in BOOLEAN : attempt' = [attempt EXCEPT ![Worker].error = e]
  BY DEF WorkerSync, Met
<1>2. attempt \in [Actors -> Attempts] /\ Worker \in Actors
  BY DEF TypeOK, Actors
<1>3. attempt' \in [Actors -> Attempts]
  BY <1>1, <1>2, AttemptTypes, Zenon
<1>4. \A b \in Actors : attempt'[b].good = attempt[b].good
  BY <1>1, <1>2 DEF Attempts
<1>5. static' \in Gens /\ paused' \in BOOLEAN
  BY DEF WorkerSync, SyncStatic, staticVars, TypeOK
<1>6. faults' \in 0 .. MaxFaults
  <2>1. faults' = faults \/ (faults < MaxFaults /\ faults' = faults + 1)
    BY DEF WorkerSync, Fault, NoFault
  <2>2. faults \in 0 .. MaxFaults /\ MaxFaults \in Nat
    BY RevocationAssumption DEF TypeOK, RevocationAssumption
  <2> QED
    BY <2>1, <2>2
<1> QED
  BY <1>3, <1>4, <1>5, <1>6

\* The worker goes back to claim_due with nothing.
LEMMA WorkerEnds ==
  ASSUME TypeOK, WorkerEnd
  PROVE  /\ wpc' = "idle" /\ claim' \in Claims /\ claim'.id = 0 /\ claim'.kind = "rotate"
         /\ attempt' \in [Actors -> Attempts] /\ ~attempt'[Worker].good
         /\ \A b \in Actors : b # Worker => attempt'[b] = attempt[b]
<1>1. Worker \in Actors /\ attempt \in [Actors -> Attempts]
  BY DEF Actors, TypeOK
<1>2. attempt' \in [Actors -> Attempts]
  BY <1>1, AttemptTypes DEF WorkerEnd
<1>3. ~attempt'[Worker].good /\ \A b \in Actors : b # Worker => attempt'[b] = attempt[b]
  BY <1>1 DEF WorkerEnd, NoAttempt
<1>4. wpc' = "idle" /\ claim' \in Claims /\ claim'.id = 0 /\ claim'.kind = "rotate"
  BY RevocationAssumption DEF WorkerEnd, NoClaim, Claims, Gens, RevocationAssumption
<1> QED
  BY <1>2, <1>3, <1>4

\* The worker takes a copy of a task.
LEMMA ClaimStep == ASSUME IInv, NEW n \in Ops, Claim(n) PROVE IInv'
<1>0. /\ TypeOK /\ Locks /\ Holders /\ TasksOlder /\ ClaimCopy /\ ClaimSettled /\ CountSettled
      /\ HistoryKept /\ AbsenceOwned /\ GoodAtRecord /\ KicksCount /\ NobodyIsZero /\ Coverage
  BY DEF IInv
<1>1. RevocationAssumption /\ Sorts
  BY <1>0, RevocationAssumption, TypeSorts
<1>h. task' = [task EXCEPT ![n].leased = TRUE] /\ task \in [Ops -> Tasks]
  BY <1>0 DEF Claim, TypeOK
<1>i. task' \in [Ops -> Tasks]
  BY <1>0, <1>h, TaskEdited, Zenon
<1>j. \A j \in Ops : SameTask(task'[j], task[j]) /\ task'[j].since = task[j].since
  BY <1>h DEF SameTask, Tasks
<1>k. claim' \in Claims
  <2>1. claim' = [id |-> n, kind |-> task[n].kind, prev |-> task[n].prev,
                  static |-> task[n].static, bound |-> task[n].bound]
    BY DEF Claim
  <2>2. /\ task[n].kind \in {"rotate", "delete"} /\ task[n].prev \in Gens
        /\ task[n].static \in BOOLEAN /\ task[n].bound \in BOOLEAN
    BY <1>h DEF Tasks
  <2> QED
    BY <2>1, <2>2 DEF Claims
<1>2. /\ wpc = "idle" /\ n \in live /\ wpc' = "claimed" /\ claim.id = 0 /\ ~attempt[Worker].good
      /\ claim'.id = n /\ claim'.kind = task[n].kind /\ claim'.prev = task[n].prev
      /\ claim'.bound = task[n].bound
      /\ claim' \in Claims /\ task' \in [Ops -> Tasks]
      /\ \A j \in Ops : SameTask(task'[j], task[j]) /\ task'[j].since = task[j].since
      /\ gen' = gen /\ durable' = durable /\ history' = history /\ live' = live
      /\ pc' = pc /\ op' = op /\ id' = id /\ lock' = lock /\ nextOp' = nextOp
      /\ inflight' = inflight /\ sessions' = sessions /\ attempt' = attempt /\ rushed' = rushed
  BY <1>0, <1>1, <1>i, <1>j, <1>k DEF Claim, ClaimCopy, GoodAtRecord, accountVars,
         staticVars, queueVars, reqVars, workerVars, netVars
<1>3. TypeOK'
  BY <1>0, <1>1, <1>2
     DEF TypeOK, Claim, accountVars, staticVars, queueVars, reqVars, workerVars, netVars
<1>4. Locks'
  BY <1>0, <1>1, <1>2, <1>h DEF Locks, Sorts
<1>5. Holders'
  <2>1. ASSUME NEW q \in Requests, lock' = q PROVE Holder(q)'
    BY <1>0, <1>1, <1>2, <1>h, <2>1 DEF Holders, Holder, Locks, ClaimCopy, SameTask, Sorts
  <2> QED
    BY <1>4, <2>1, LockedOut
<1>6. TasksOlder'
  BY <1>0, <1>1, <1>2, <1>h DEF TasksOlder, Holders, Holder, SameTask, Sorts
<1>7. ClaimCopy'
  BY <1>0, <1>1, <1>2, <1>h DEF ClaimCopy, TasksOlder, Locks, Holders, Holder, SameTask, Sorts
<1>8. ClaimSettled'
  BY <1>0, <1>1, <1>2, <1>h DEF ClaimSettled, ClaimCopy, Acting, Locks, Sorts
<1>9. CountSettled'
  <2> SUFFICES ASSUME NEW k \in live', task'[k].kind = "delete", task'[k].succ > 0,
                      NEW q \in Requests, id'[q] = k
               PROVE  gen' # task'[k].prev \/ ~task'[k].bound
    BY DEF CountSettled, Settled, Requested
  <2> QED
    BY <1>0, <1>1, <1>2, <1>h
       DEF CountSettled, Settled, Requested, TasksOlder, Locks, SameTask, Sorts
<1>10. HistoryKept'
  BY <1>0, <1>1, <1>2, <1>h DEF HistoryKept, Holders, Holder
<1>11. AbsenceOwned'
  <2> SUFFICES ASSUME gen' = 0, durable' # 0 \/ history' = "own" PROVE Unfinished'
    BY DEF AbsenceOwned
  <2>1. PICK k \in live : task[k].kind = "delete" /\ ~Handled(k)
    BY <1>0, <1>1, <1>2, <1>h DEF AbsenceOwned, Unfinished
  <2>2. k \in live' /\ task'[k].kind = "delete" /\ ~Handled(k)'
    BY <1>0, <1>1, <1>2, <1>h, <2>1 DEF Handled, Acting, Requested, Locks, SameTask, Sorts
  <2> QED
    BY <2>2 DEF Unfinished
<1>12. GoodAtRecord'
  BY <1>0, <1>1, <1>2, <1>h DEF GoodAtRecord, Actors, Sorts
<1>13. KicksCount'
  <2> SUFFICES ASSUME NEW k \in live' PROVE KicksOf(k)'
    BY DEF KicksCount
  <2>1. KicksOf(k) /\ k \in Ops
    BY <1>0, <1>1, <1>2, <1>h DEF KicksCount, Sorts
  <2>2. \A a \in Actors : GoodKick(a, k)' => GoodKick(a, k)
    BY <1>0, <1>1, <1>2, <1>h DEF GoodKick, On, Actors, GoodAtRecord, Sorts
  <2>3. (OneKick(k) => OneKick(k)') /\ (TwoKicks(k) => TwoKicks(k)') /\ task'[k].kicks = task[k].kicks
    BY <1>0, <1>1, <1>2, <1>h, <2>1
       DEF OneKick, TwoKicks, NoOld, Committed, TasksOlder, Locks, SameTask, Sorts
  <2> QED
    BY <2>1, <2>2, <2>3 DEF KicksOf
<1>14. NobodyIsZero'
  BY <1>0, <1>1, <1>2, <1>h DEF NobodyIsZero
<1>15. Coverage'
  <2> SUFFICES ASSUME ~rushed', NEW g \in inflight' \cup sessions', g # gen' PROVE Covered(g)'
    BY DEF Coverage
  <2>1. PICK k \in live : Covers(k, g)
    BY <1>0, <1>1, <1>2, <1>h DEF Coverage, Covered
  <2>2. k \in live' /\ Covers(k, g)'
    BY <1>0, <1>1, <1>2, <1>h, <2>1 DEF Covers, Committed, SameTask, Sorts
  <2> QED
    BY <2>2 DEF Covered
<1> QED
  BY <1>3, <1>4, <1>5, <1>6, <1>7, <1>8, <1>9, <1>10, <1>11, <1>12, <1>13, <1>14, <1>15
     DEF IInv

\* Another incarnation has the name: the deletion is settled.
LEMMA WorkerDeleteSuperseded == ASSUME IInv, WorkerDelete, Superseded PROVE IInv'
<1>0. /\ TypeOK /\ Locks /\ Holders /\ TasksOlder /\ ClaimCopy /\ ClaimSettled /\ CountSettled
      /\ HistoryKept /\ AbsenceOwned /\ GoodAtRecord /\ KicksCount /\ NobodyIsZero /\ Coverage
  BY DEF IInv
<1>1. RevocationAssumption /\ Sorts
  BY <1>0, RevocationAssumption, TypeSorts
<1>h. /\ wpc = "claimed" /\ lock = NoOne /\ claim.kind = "delete" /\ claim.id # 0
      /\ 0 < claim.prev /\ claim.prev < claim.id
  BY <1>0 DEF WorkerDelete, ClaimCopy
<1>i. /\ attempt' \in [Actors -> Attempts] /\ static' \in Gens
      /\ paused' \in BOOLEAN /\ faults' \in 0 .. MaxFaults
      /\ \A b \in Actors : attempt'[b].good = attempt[b].good
  <2>1. WorkerSync(gen) /\ gen \in Gens
    BY <1>0 DEF WorkerDelete, TypeOK
  <2> QED
    BY <1>0, <2>1, SyncFacts
<1>2. /\ wpc' = "effects" /\ gen # 0 /\ (gen # claim.prev \/ ~claim.bound)
      /\ \A a \in Actors : attempt'[a].good = attempt[a].good
      /\ gen' = gen /\ durable' = durable /\ history' = history /\ live' = live /\ task' = task
      /\ pc' = pc /\ op' = op /\ id' = id /\ lock' = lock /\ nextOp' = nextOp
      /\ inflight' = inflight /\ sessions' = sessions /\ claim' = claim /\ rushed' = rushed
  BY <1>0, <1>1, <1>h, <1>i DEF WorkerDelete, Superseded, accountVars, staticVars,
         queueVars, reqVars, workerVars, netVars
<1>3. TypeOK'
  BY <1>0, <1>1, <1>2, <1>i
     DEF TypeOK, WorkerDelete, accountVars, staticVars, queueVars, reqVars, workerVars, netVars
<1>4. Locks'
  BY <1>0, <1>1, <1>2, <1>h DEF Locks, Sorts
<1>5. Holders'
  <2>1. ASSUME NEW q \in Requests, lock' = q PROVE Holder(q)'
    BY <1>0, <1>1, <1>2, <1>h, <2>1 DEF Holders, Holder, Locks, ClaimCopy, SameTask, Sorts
  <2> QED
    BY <1>4, <2>1, LockedOut
<1>6. TasksOlder'
  BY <1>0, <1>1, <1>2, <1>h DEF TasksOlder, Holders, Holder, SameTask, Sorts
<1>7. ClaimCopy'
  BY <1>0, <1>1, <1>2, <1>h DEF ClaimCopy, TasksOlder, Locks, Holders, Holder, SameTask, Sorts
<1>8. ClaimSettled'
  BY <1>0, <1>1, <1>2, <1>h DEF ClaimSettled, ClaimCopy, Acting, Locks, Sorts
<1>9. CountSettled'
  <2> SUFFICES ASSUME NEW k \in live', task'[k].kind = "delete", task'[k].succ > 0,
                      NEW q \in Requests, id'[q] = k
               PROVE  gen' # task'[k].prev \/ ~task'[k].bound
    BY DEF CountSettled, Settled, Requested
  <2> QED
    BY <1>0, <1>1, <1>2, <1>h
       DEF CountSettled, Settled, Requested, TasksOlder, Locks, SameTask, Sorts
<1>10. HistoryKept'
  BY <1>0, <1>1, <1>2, <1>h DEF HistoryKept, Holders, Holder
<1>11. AbsenceOwned'
  BY <1>2 DEF AbsenceOwned
<1>12. GoodAtRecord'
  BY <1>0, <1>1, <1>2, <1>h DEF GoodAtRecord, Actors, Sorts
<1>13. KicksCount'
  <2> SUFFICES ASSUME NEW k \in live' PROVE KicksOf(k)'
    BY DEF KicksCount
  <2>1. KicksOf(k) /\ k \in Ops
    BY <1>0, <1>1, <1>2, <1>h DEF KicksCount, Sorts
  <2>2. \A a \in Actors : GoodKick(a, k)' => GoodKick(a, k)
    BY <1>0, <1>1, <1>2, <1>h DEF GoodKick, On, Actors, GoodAtRecord, Sorts
  <2>3. (OneKick(k) => OneKick(k)') /\ (TwoKicks(k) => TwoKicks(k)') /\ task'[k].kicks = task[k].kicks
    BY <1>0, <1>1, <1>2, <1>h, <2>1
       DEF OneKick, TwoKicks, NoOld, Committed, TasksOlder, Locks, SameTask, Sorts
  <2> QED
    BY <2>1, <2>2, <2>3 DEF KicksOf
<1>14. NobodyIsZero'
  BY <1>0, <1>1, <1>2, <1>h DEF NobodyIsZero
<1>15. Coverage'
  <2> SUFFICES ASSUME ~rushed', NEW g \in inflight' \cup sessions', g # gen' PROVE Covered(g)'
    BY DEF Coverage
  <2>1. PICK k \in live : Covers(k, g)
    BY <1>0, <1>1, <1>2, <1>h DEF Coverage, Covered
  <2>2. k \in live' /\ Covers(k, g)'
    BY <1>0, <1>1, <1>2, <1>h, <2>1 DEF Covers, Committed, SameTask, Sorts
  <2> QED
    BY <2>2 DEF Covered
<1> QED
  BY <1>3, <1>4, <1>5, <1>6, <1>7, <1>8, <1>9, <1>10, <1>11, <1>12, <1>13, <1>14, <1>15
     DEF IInv

\* The worker redoes a deletion: its task is in the queue and covers the generation it removes.
LEMMA WorkerDeleteRedone == ASSUME IInv, WorkerDelete, ~Superseded PROVE IInv'
<1>0. /\ TypeOK /\ Locks /\ Holders /\ TasksOlder /\ ClaimCopy /\ ClaimSettled /\ CountSettled
      /\ HistoryKept /\ AbsenceOwned /\ GoodAtRecord /\ KicksCount /\ NobodyIsZero /\ Coverage
  BY DEF IInv
<1>1. RevocationAssumption /\ Sorts
  BY <1>0, RevocationAssumption, TypeSorts
<1>h. /\ wpc = "claimed" /\ lock = NoOne /\ claim.kind = "delete" /\ claim.id # 0
      /\ 0 < claim.prev /\ claim.prev < claim.id
  BY <1>0 DEF WorkerDelete, ClaimCopy
<1>i. /\ attempt' \in [Actors -> Attempts] /\ static' \in Gens
      /\ paused' \in BOOLEAN /\ faults' \in 0 .. MaxFaults
      /\ \A b \in Actors : attempt'[b].good = attempt[b].good
  <2>1. WorkerSync(0) /\ 0 \in Gens
    BY <1>1 DEF WorkerDelete, Gens, RevocationAssumption
  <2> QED
    BY <1>0, <2>1, SyncFacts
<1>r. gen # 0 => /\ claim.id \in live /\ task[claim.id].kind = "delete" /\ task[claim.id].prev = gen
                 /\ task[claim.id].bound /\ gen = claim.prev
  BY <1>0, <1>h DEF Superseded, ClaimSettled, ClaimCopy
<1>2. /\ wpc' = "effects" /\ gen' = 0 /\ durable' = 0 /\ history' = "none"
      /\ \A a \in Actors : attempt'[a].good = attempt[a].good
      /\ live' = live /\ task' = task
      /\ pc' = pc /\ op' = op /\ id' = id /\ lock' = lock /\ nextOp' = nextOp
      /\ inflight' = inflight /\ sessions' = sessions /\ claim' = claim /\ rushed' = rushed
  BY <1>0, <1>1, <1>h, <1>i DEF WorkerDelete, SaveUsers, accountVars, staticVars,
         queueVars, reqVars, workerVars, netVars
<1>3. TypeOK'
  <2>1. 0 \in Gens
    BY <1>1 DEF Gens, RevocationAssumption
  <2> QED
    BY <1>0, <1>1, <1>2, <1>i, <2>1
       DEF TypeOK, WorkerDelete, accountVars, staticVars, queueVars, reqVars, workerVars,
           netVars
<1>4. Locks'
  BY <1>0, <1>1, <1>2, <1>h DEF Locks, Sorts
<1>5. Holders'
  <2>1. ASSUME NEW q \in Requests, lock' = q PROVE Holder(q)'
    BY <1>0, <1>1, <1>2, <1>h, <2>1 DEF Holders, Holder, Locks, ClaimCopy, SameTask, Sorts
  <2> QED
    BY <1>4, <2>1, LockedOut
<1>6. TasksOlder'
  BY <1>0, <1>1, <1>2, <1>h DEF TasksOlder, Holders, Holder, SameTask, Sorts
<1>7. ClaimCopy'
  BY <1>0, <1>1, <1>2, <1>h DEF ClaimCopy, TasksOlder, Locks, Holders, Holder, SameTask, Sorts
<1>8. ClaimSettled'
  BY <1>0, <1>1, <1>2, <1>h DEF ClaimSettled, ClaimCopy, Acting, Locks, Sorts
<1>9. CountSettled'
  <2> SUFFICES ASSUME NEW k \in live', task'[k].kind = "delete", task'[k].succ > 0,
                      NEW q \in Requests, id'[q] = k
               PROVE  gen' # task'[k].prev \/ ~task'[k].bound
    BY DEF CountSettled, Settled, Requested
  <2> QED
    BY <1>0, <1>1, <1>2, <1>h
       DEF CountSettled, Settled, Requested, TasksOlder, Locks, SameTask, Sorts
<1>10. HistoryKept'
  BY <1>0, <1>1, <1>2, <1>h DEF HistoryKept, Holders, Holder
<1>11. AbsenceOwned'
  BY <1>2 DEF AbsenceOwned
<1>12. GoodAtRecord'
  BY <1>0, <1>1, <1>2, <1>h DEF GoodAtRecord, Actors, Sorts
<1>13. KicksCount'
  <2> SUFFICES ASSUME NEW k \in live' PROVE KicksOf(k)'
    BY DEF KicksCount
  <2>1. KicksOf(k) /\ k \in Ops
    BY <1>0, <1>1, <1>2, <1>h DEF KicksCount, Sorts
  <2>2. \A a \in Actors : GoodKick(a, k)' => GoodKick(a, k)
    BY <1>0, <1>1, <1>2, <1>h DEF GoodKick, On, Actors, GoodAtRecord, Sorts
  <2>3. (OneKick(k) => OneKick(k)') /\ (TwoKicks(k) => TwoKicks(k)') /\ task'[k].kicks = task[k].kicks
    BY <1>0, <1>1, <1>2, <1>h, <2>1
       DEF OneKick, TwoKicks, NoOld, Committed, TasksOlder, Locks, SameTask, Sorts
  <2> QED
    BY <2>1, <2>2, <2>3 DEF KicksOf
<1>14. NobodyIsZero'
  BY <1>0, <1>1, <1>2, <1>h DEF NobodyIsZero
<1>15. Coverage'
  <2> SUFFICES ASSUME ~rushed', NEW g \in inflight' \cup sessions', g # gen' PROVE Covered(g)'
    BY DEF Coverage
  <2>0. g \in Nat /\ g # 0 /\ g \in inflight \cup sessions
    BY <1>0, <1>1, <1>2 DEF NobodyIsZero, Sorts
  <2>1. ASSUME gen # 0, g <= gen PROVE Covered(g)'
    <3>1. claim.id \in live' /\ task'[claim.id].prev = gen /\ task'[claim.id].kind = "delete"
      BY <1>2, <1>r, <2>1
    <3> QED
      BY <1>2, <2>1, <3>1 DEF Covered, Covers, Committed
  <2>2. CASE g = gen
    BY <1>1, <2>0, <2>1, <2>2 DEF Sorts
  <2>3. CASE g # gen
    <3>1. PICK k \in live : Covers(k, g)
      BY <1>0, <1>2, <2>0, <2>3 DEF Coverage, Covered
    <3>2. k \in Ops /\ k \in Nat /\ 0 < task[k].prev /\ task[k].prev < k /\ task[k].prev \in Nat
      BY <1>0, <1>1 DEF TasksOlder, Sorts
    <3>3. CASE task[k].kind = "delete"
      <4>1. Covers(k, g)' /\ k \in live'
        BY <1>2, <3>1, <3>3 DEF Covers, Committed
      <4> QED
        BY <4>1 DEF Covered
    <3>4. CASE task[k].kind # "delete"
      BY <1>1, <2>0, <2>1, <3>1, <3>2, <3>4 DEF Covers, Sorts
    <3> QED
      BY <3>3, <3>4
  <2> QED
    BY <2>2, <2>3
<1> QED
  BY <1>3, <1>4, <1>5, <1>6, <1>7, <1>8, <1>9, <1>10, <1>11, <1>12, <1>13, <1>14, <1>15
     DEF IInv

\* The worker changes nothing and releases its claim ...
LEMMA WorkerFailsKept == ASSUME IInv, WorkerFails, gen' = gen, durable' = durable PROVE IInv'
<1>0. /\ TypeOK /\ Locks /\ Holders /\ TasksOlder /\ ClaimCopy /\ ClaimSettled /\ CountSettled
      /\ HistoryKept /\ AbsenceOwned /\ GoodAtRecord /\ KicksCount /\ NobodyIsZero /\ Coverage
  BY DEF IInv
<1>1. RevocationAssumption /\ Sorts
  BY <1>0, RevocationAssumption, TypeSorts
<1>i. /\ attempt' \in [Actors -> Attempts] /\ faults' \in 0 .. MaxFaults
      /\ \A b \in Actors : attempt'[b].good = attempt[b].good
  <2>1. PICK e \in BOOLEAN : attempt' = [attempt EXCEPT ![Worker].error = e]
    BY DEF WorkerFails, Met
  <2>2. Worker \in Actors /\ attempt \in [Actors -> Attempts]
    BY <1>0 DEF Actors, TypeOK
  <2>3. attempt' \in [Actors -> Attempts]
    BY <1>0, <2>1, <2>2, AttemptTypes, Zenon
  <2>4. \A b \in Actors : attempt'[b].good = attempt[b].good
    BY <2>1, <2>2 DEF Attempts
  <2>5. faults' \in 0 .. MaxFaults
    BY <1>0, <1>1 DEF WorkerFails, Fault, TypeOK, RevocationAssumption
  <2> QED
    BY <2>3, <2>4, <2>5
<1>2. /\ wpc = "claimed" /\ lock = NoOne /\ wpc' = "release"
      /\ \A a \in Actors : attempt'[a].good = attempt[a].good
      /\ gen' = gen /\ durable' = durable /\ history' = history /\ live' = live /\ task' = task
      /\ pc' = pc /\ op' = op /\ id' = id /\ lock' = lock /\ nextOp' = nextOp
      /\ inflight' = inflight /\ sessions' = sessions /\ claim' = claim /\ rushed' = rushed
  BY <1>0, <1>1, <1>i DEF WorkerFails, accountVars, staticVars, queueVars, reqVars,
         workerVars, netVars
<1>3. TypeOK'
  BY <1>0, <1>1, <1>2, <1>i
     DEF TypeOK, WorkerFails, accountVars, staticVars, queueVars, reqVars, workerVars, netVars
<1>4. Locks'
  BY <1>0, <1>1, <1>2 DEF Locks, Sorts
<1>5. Holders'
  <2>1. ASSUME NEW q \in Requests, lock' = q PROVE Holder(q)'
    BY <1>0, <1>1, <1>2, <2>1 DEF Holders, Holder, Locks, ClaimCopy, SameTask, Sorts
  <2> QED
    BY <1>4, <2>1, LockedOut
<1>6. TasksOlder'
  BY <1>0, <1>1, <1>2 DEF TasksOlder, Holders, Holder, SameTask, Sorts
<1>7. ClaimCopy'
  BY <1>0, <1>1, <1>2 DEF ClaimCopy, TasksOlder, Locks, Holders, Holder, SameTask, Sorts
<1>8. ClaimSettled'
  BY <1>0, <1>1, <1>2 DEF ClaimSettled, ClaimCopy, Acting, Locks, Sorts
<1>9. CountSettled'
  <2> SUFFICES ASSUME NEW k \in live', task'[k].kind = "delete", task'[k].succ > 0,
                      NEW q \in Requests, id'[q] = k
               PROVE  gen' # task'[k].prev \/ ~task'[k].bound
    BY DEF CountSettled, Settled, Requested
  <2> QED
    BY <1>0, <1>1, <1>2 DEF CountSettled, Settled, Requested, TasksOlder, Locks, SameTask, Sorts
<1>10. HistoryKept'
  BY <1>0, <1>1, <1>2 DEF HistoryKept, Holders, Holder
<1>11. AbsenceOwned'
  <2> SUFFICES ASSUME gen' = 0, durable' # 0 \/ history' = "own" PROVE Unfinished'
    BY DEF AbsenceOwned
  <2>1. PICK k \in live : task[k].kind = "delete" /\ ~Handled(k)
    BY <1>0, <1>1, <1>2 DEF AbsenceOwned, Unfinished
  <2>2. k \in live' /\ task'[k].kind = "delete" /\ ~Handled(k)'
    BY <1>0, <1>1, <1>2, <2>1 DEF Handled, Acting, Requested, Locks, SameTask, Sorts
  <2> QED
    BY <2>2 DEF Unfinished
<1>12. GoodAtRecord'
  BY <1>0, <1>1, <1>2 DEF GoodAtRecord, Actors, Sorts
<1>13. KicksCount'
  <2> SUFFICES ASSUME NEW k \in live' PROVE KicksOf(k)'
    BY DEF KicksCount
  <2>1. KicksOf(k) /\ k \in Ops
    BY <1>0, <1>1, <1>2 DEF KicksCount, Sorts
  <2>2. \A a \in Actors : GoodKick(a, k)' => GoodKick(a, k)
    BY <1>0, <1>1, <1>2 DEF GoodKick, On, Actors, GoodAtRecord, Sorts
  <2>3. (OneKick(k) => OneKick(k)') /\ (TwoKicks(k) => TwoKicks(k)') /\ task'[k].kicks = task[k].kicks
    BY <1>0, <1>1, <1>2, <2>1
       DEF OneKick, TwoKicks, NoOld, Committed, TasksOlder, Locks, SameTask, Sorts
  <2> QED
    BY <2>1, <2>2, <2>3 DEF KicksOf
<1>14. NobodyIsZero'
  BY <1>0, <1>1, <1>2 DEF NobodyIsZero
<1>15. Coverage'
  <2> SUFFICES ASSUME ~rushed', NEW g \in inflight' \cup sessions', g # gen' PROVE Covered(g)'
    BY DEF Coverage
  <2>1. PICK k \in live : Covers(k, g)
    BY <1>0, <1>1, <1>2 DEF Coverage, Covered
  <2>2. k \in live' /\ Covers(k, g)'
    BY <1>0, <1>1, <1>2, <2>1 DEF Covers, Committed, SameTask, Sorts
  <2> QED
    BY <2>2 DEF Covered
<1> QED
  BY <1>3, <1>4, <1>5, <1>6, <1>7, <1>8, <1>9, <1>10, <1>11, <1>12, <1>13, <1>14, <1>15
     DEF IInv

\* ... or removes the account without finishing: the deletion is still its own.
LEMMA WorkerFailsDeleted ==
  ASSUME IInv, WorkerFails, claim.kind = "delete", ~Superseded, gen' = 0, durable' \in {durable, 0}
  PROVE  IInv'
<1>0. /\ TypeOK /\ Locks /\ Holders /\ TasksOlder /\ ClaimCopy /\ ClaimSettled /\ CountSettled
      /\ HistoryKept /\ AbsenceOwned /\ GoodAtRecord /\ KicksCount /\ NobodyIsZero /\ Coverage
  BY DEF IInv
<1>1. RevocationAssumption /\ Sorts
  BY <1>0, RevocationAssumption, TypeSorts
<1>h. /\ wpc = "claimed" /\ lock = NoOne /\ claim.kind = "delete" /\ claim.id # 0
      /\ 0 < claim.prev /\ claim.prev < claim.id
  BY <1>0 DEF WorkerFails, ClaimCopy
<1>i. /\ attempt' \in [Actors -> Attempts] /\ faults' \in 0 .. MaxFaults
      /\ \A b \in Actors : attempt'[b].good = attempt[b].good
  <2>1. PICK e \in BOOLEAN : attempt' = [attempt EXCEPT ![Worker].error = e]
    BY DEF WorkerFails, Met
  <2>2. Worker \in Actors /\ attempt \in [Actors -> Attempts]
    BY <1>0 DEF Actors, TypeOK
  <2>3. attempt' \in [Actors -> Attempts]
    BY <1>0, <2>1, <2>2, AttemptTypes, Zenon
  <2>4. \A b \in Actors : attempt'[b].good = attempt[b].good
    BY <2>1, <2>2 DEF Attempts
  <2>5. faults' \in 0 .. MaxFaults
    BY <1>0, <1>1 DEF WorkerFails, Fault, TypeOK, RevocationAssumption
  <2> QED
    BY <2>3, <2>4, <2>5
<1>r. gen # 0 => /\ claim.id \in live /\ task[claim.id].kind = "delete" /\ task[claim.id].prev = gen
                 /\ task[claim.id].bound /\ gen = claim.prev
  BY <1>0, <1>h DEF Superseded, ClaimSettled, ClaimCopy
<1>2. /\ wpc' = "release" /\ gen' = 0 /\ (durable' = durable \/ durable' = 0) /\ history' = history
      /\ \A a \in Actors : attempt'[a].good = attempt[a].good
      /\ live' = live /\ task' = task
      /\ pc' = pc /\ op' = op /\ id' = id /\ lock' = lock /\ nextOp' = nextOp
      /\ inflight' = inflight /\ sessions' = sessions /\ claim' = claim /\ rushed' = rushed
  BY <1>0, <1>1, <1>i DEF WorkerFails, accountVars, staticVars, queueVars, reqVars,
         workerVars, netVars
<1>3. TypeOK'
  <2>1. 0 \in Gens
    BY <1>1 DEF Gens, RevocationAssumption
  <2> QED
    BY <1>0, <1>1, <1>2, <1>i, <2>1
       DEF TypeOK, WorkerFails, accountVars, staticVars, queueVars, reqVars, workerVars, netVars
<1>4. Locks'
  BY <1>0, <1>1, <1>2, <1>h DEF Locks, Sorts
<1>5. Holders'
  <2>1. ASSUME NEW q \in Requests, lock' = q PROVE Holder(q)'
    BY <1>0, <1>1, <1>2, <1>h, <2>1 DEF Holders, Holder, Locks, ClaimCopy, SameTask, Sorts
  <2> QED
    BY <1>4, <2>1, LockedOut
<1>6. TasksOlder'
  BY <1>0, <1>1, <1>2, <1>h DEF TasksOlder, Holders, Holder, SameTask, Sorts
<1>7. ClaimCopy'
  BY <1>0, <1>1, <1>2, <1>h DEF ClaimCopy, TasksOlder, Locks, Holders, Holder, SameTask, Sorts
<1>8. ClaimSettled'
  BY <1>0, <1>1, <1>2, <1>h DEF ClaimSettled, ClaimCopy, Acting, Locks, Sorts
<1>9. CountSettled'
  <2> SUFFICES ASSUME NEW k \in live', task'[k].kind = "delete", task'[k].succ > 0,
                      NEW q \in Requests, id'[q] = k
               PROVE  gen' # task'[k].prev \/ ~task'[k].bound
    BY DEF CountSettled, Settled, Requested
  <2> QED
    BY <1>0, <1>1, <1>2, <1>h
       DEF CountSettled, Settled, Requested, TasksOlder, Locks, SameTask, Sorts
<1>10. HistoryKept'
  BY <1>0, <1>1, <1>2, <1>h DEF HistoryKept, Holders, Holder
<1>11. AbsenceOwned'
  <2> SUFFICES ASSUME gen' = 0, durable' # 0 \/ history' = "own" PROVE Unfinished'
    BY DEF AbsenceOwned
  <2>1. PICK k \in live : task[k].kind = "delete" /\ ~(task[k].succ > 0 /\ Requested(k))
    <3>1. CASE gen = 0
      BY <1>0, <1>2, <3>1 DEF AbsenceOwned, Unfinished, Handled
    <3>2. CASE gen # 0
      <4>1. claim.id \in live /\ task[claim.id].kind = "delete" /\ ~Settled(claim.id)
        BY <1>r, <3>2 DEF Settled
      <4>2. ~(task[claim.id].succ > 0 /\ Requested(claim.id))
        BY <1>0, <4>1 DEF CountSettled
      <4> QED
        BY <4>1, <4>2
    <3> QED
      BY <3>1, <3>2
  <2>2. k \in live' /\ task'[k].kind = "delete" /\ ~Handled(k)'
    BY <1>2, <2>1 DEF Handled, Acting, Requested
  <2> QED
    BY <2>2 DEF Unfinished
<1>12. GoodAtRecord'
  BY <1>0, <1>1, <1>2, <1>h DEF GoodAtRecord, Actors, Sorts
<1>13. KicksCount'
  <2> SUFFICES ASSUME NEW k \in live' PROVE KicksOf(k)'
    BY DEF KicksCount
  <2>1. KicksOf(k) /\ k \in Ops
    BY <1>0, <1>1, <1>2, <1>h DEF KicksCount, Sorts
  <2>2. \A a \in Actors : GoodKick(a, k)' => GoodKick(a, k)
    BY <1>0, <1>1, <1>2, <1>h DEF GoodKick, On, Actors, GoodAtRecord, Sorts
  <2>3. (OneKick(k) => OneKick(k)') /\ (TwoKicks(k) => TwoKicks(k)') /\ task'[k].kicks = task[k].kicks
    BY <1>0, <1>1, <1>2, <1>h, <2>1
       DEF OneKick, TwoKicks, NoOld, Committed, TasksOlder, Locks, SameTask, Sorts
  <2> QED
    BY <2>1, <2>2, <2>3 DEF KicksOf
<1>14. NobodyIsZero'
  BY <1>0, <1>1, <1>2, <1>h DEF NobodyIsZero
<1>15. Coverage'
  <2> SUFFICES ASSUME ~rushed', NEW g \in inflight' \cup sessions', g # gen' PROVE Covered(g)'
    BY DEF Coverage
  <2>0. g \in Nat /\ g # 0 /\ g \in inflight \cup sessions
    BY <1>0, <1>1, <1>2 DEF NobodyIsZero, Sorts
  <2>1. ASSUME gen # 0, g <= gen PROVE Covered(g)'
    <3>1. claim.id \in live' /\ task'[claim.id].prev = gen /\ task'[claim.id].kind = "delete"
      BY <1>2, <1>r, <2>1
    <3> QED
      BY <1>2, <2>1, <3>1 DEF Covered, Covers, Committed
  <2>2. CASE g = gen
    BY <1>1, <2>0, <2>1, <2>2 DEF Sorts
  <2>3. CASE g # gen
    <3>1. PICK k \in live : Covers(k, g)
      BY <1>0, <1>2, <2>0, <2>3 DEF Coverage, Covered
    <3>2. k \in Ops /\ k \in Nat /\ 0 < task[k].prev /\ task[k].prev < k /\ task[k].prev \in Nat
      BY <1>0, <1>1 DEF TasksOlder, Sorts
    <3>3. CASE task[k].kind = "delete"
      <4>1. Covers(k, g)' /\ k \in live'
        BY <1>2, <3>1, <3>3 DEF Covers, Committed
      <4> QED
        BY <4>1 DEF Covered
    <3>4. CASE task[k].kind # "delete"
      BY <1>1, <2>0, <2>1, <3>1, <3>2, <3>4 DEF Covers, Sorts
    <3> QED
      BY <3>3, <3>4
  <2> QED
    BY <2>2, <2>3
<1> QED
  BY <1>3, <1>4, <1>5, <1>6, <1>7, <1>8, <1>9, <1>10, <1>11, <1>12, <1>13, <1>14, <1>15
     DEF IInv

\* The worker goes on with a canonical rotation and discards one that is not.
LEMMA WorkerRotateStep == ASSUME IInv, WorkerRotate PROVE IInv'
<1>0. /\ TypeOK /\ Locks /\ Holders /\ TasksOlder /\ ClaimCopy /\ ClaimSettled /\ CountSettled
      /\ HistoryKept /\ AbsenceOwned /\ GoodAtRecord /\ KicksCount /\ NobodyIsZero /\ Coverage
  BY DEF IInv
<1>1. RevocationAssumption /\ Sorts
  BY <1>0, RevocationAssumption, TypeSorts
<1>i. /\ attempt' \in [Actors -> Attempts] /\ static' \in Gens
      /\ paused' \in BOOLEAN /\ faults' \in 0 .. MaxFaults
      /\ \A b \in Actors : attempt'[b].good = attempt[b].good
  <2>1. CASE gen = claim.id
    <3>1. WorkerSync(gen) /\ gen \in Gens
      BY <1>0, <2>1 DEF WorkerRotate, TypeOK
    <3> QED
      BY <1>0, <3>1, SyncFacts
  <2>2. CASE gen # claim.id
    BY <1>0, <2>2 DEF WorkerRotate, NoFault, staticVars, TypeOK
  <2> QED
    BY <2>1, <2>2
<1>2. /\ wpc = "claimed" /\ lock = NoOne /\ claim.kind = "rotate"
      /\ wpc' \in {"effects", "release", "discard"} /\ (wpc' = "discard" => gen # claim.id)
      /\ \A a \in Actors : attempt'[a].good = attempt[a].good
      /\ gen' = gen /\ durable' = durable /\ history' = history /\ live' = live /\ task' = task
      /\ pc' = pc /\ op' = op /\ id' = id /\ lock' = lock /\ nextOp' = nextOp
      /\ inflight' = inflight /\ sessions' = sessions /\ claim' = claim /\ rushed' = rushed
  BY <1>0, <1>1, <1>i DEF WorkerRotate, accountVars, staticVars, queueVars, reqVars,
         workerVars, netVars
<1>3. TypeOK'
  BY <1>0, <1>1, <1>2, <1>i
     DEF TypeOK, WorkerRotate, accountVars, staticVars, queueVars, reqVars, workerVars, netVars
<1>4. Locks'
  BY <1>0, <1>1, <1>2 DEF Locks, Sorts
<1>5. Holders'
  <2>1. ASSUME NEW q \in Requests, lock' = q PROVE Holder(q)'
    BY <1>0, <1>1, <1>2, <2>1 DEF Holders, Holder, Locks, ClaimCopy, SameTask, Sorts
  <2> QED
    BY <1>4, <2>1, LockedOut
<1>6. TasksOlder'
  BY <1>0, <1>1, <1>2 DEF TasksOlder, Holders, Holder, SameTask, Sorts
<1>7. ClaimCopy'
  BY <1>0, <1>1, <1>2 DEF ClaimCopy, TasksOlder, Locks, Holders, Holder, SameTask, Sorts
<1>8. ClaimSettled'
  BY <1>0, <1>1, <1>2 DEF ClaimSettled, ClaimCopy, Acting, Locks, Sorts
<1>9. CountSettled'
  <2> SUFFICES ASSUME NEW k \in live', task'[k].kind = "delete", task'[k].succ > 0,
                      NEW q \in Requests, id'[q] = k
               PROVE  gen' # task'[k].prev \/ ~task'[k].bound
    BY DEF CountSettled, Settled, Requested
  <2> QED
    BY <1>0, <1>1, <1>2 DEF CountSettled, Settled, Requested, TasksOlder, Locks, SameTask, Sorts
<1>10. HistoryKept'
  BY <1>0, <1>1, <1>2 DEF HistoryKept, Holders, Holder
<1>11. AbsenceOwned'
  <2> SUFFICES ASSUME gen' = 0, durable' # 0 \/ history' = "own" PROVE Unfinished'
    BY DEF AbsenceOwned
  <2>1. PICK k \in live : task[k].kind = "delete" /\ ~Handled(k)
    BY <1>0, <1>2 DEF AbsenceOwned, Unfinished
  <2>2. k # claim.id
    BY <1>0, <1>2, <2>1 DEF ClaimCopy
  <2>3. k \in live' /\ task'[k].kind = "delete" /\ ~Handled(k)'
    BY <1>2, <2>1, <2>2 DEF Handled, Requested
  <2> QED
    BY <2>3 DEF Unfinished
<1>12. GoodAtRecord'
  BY <1>0, <1>1, <1>2 DEF GoodAtRecord, Actors, Sorts
<1>13. KicksCount'
  <2> SUFFICES ASSUME NEW k \in live' PROVE KicksOf(k)'
    BY DEF KicksCount
  <2>1. KicksOf(k) /\ k \in Ops
    BY <1>0, <1>1, <1>2 DEF KicksCount, Sorts
  <2>2. \A a \in Actors : GoodKick(a, k)' => GoodKick(a, k)
    BY <1>0, <1>1, <1>2 DEF GoodKick, On, Actors, GoodAtRecord, Sorts
  <2>3. (OneKick(k) => OneKick(k)') /\ (TwoKicks(k) => TwoKicks(k)') /\ task'[k].kicks = task[k].kicks
    BY <1>0, <1>1, <1>2, <2>1
       DEF OneKick, TwoKicks, NoOld, Committed, TasksOlder, Locks, SameTask, Sorts
  <2> QED
    BY <2>1, <2>2, <2>3 DEF KicksOf
<1>14. NobodyIsZero'
  BY <1>0, <1>1, <1>2 DEF NobodyIsZero
<1>15. Coverage'
  <2> SUFFICES ASSUME ~rushed', NEW g \in inflight' \cup sessions', g # gen' PROVE Covered(g)'
    BY DEF Coverage
  <2>1. PICK k \in live : Covers(k, g)
    BY <1>0, <1>1, <1>2 DEF Coverage, Covered
  <2>2. k \in live' /\ Covers(k, g)'
    BY <1>0, <1>1, <1>2, <2>1 DEF Covers, Committed, SameTask, Sorts
  <2> QED
    BY <2>2 DEF Covered
<1> QED
  BY <1>3, <1>4, <1>5, <1>6, <1>7, <1>8, <1>9, <1>10, <1>11, <1>12, <1>13, <1>14, <1>15
     DEF IInv

\* The claim is given back.
LEMMA WorkerReleaseStep == ASSUME IInv, WorkerRelease PROVE IInv'
<1>0. /\ TypeOK /\ Locks /\ Holders /\ TasksOlder /\ ClaimCopy /\ ClaimSettled /\ CountSettled
      /\ HistoryKept /\ AbsenceOwned /\ GoodAtRecord /\ KicksCount /\ NobodyIsZero /\ Coverage
  BY DEF IInv
<1>1. RevocationAssumption /\ Sorts
  BY <1>0, RevocationAssumption, TypeSorts
<1>h. /\ wpc' = "idle" /\ claim' \in Claims /\ claim'.id = 0 /\ claim'.kind = "rotate"
      /\ attempt' \in [Actors -> Attempts] /\ ~attempt'[Worker].good
      /\ \A b \in Actors : b # Worker => attempt'[b] = attempt[b]
  BY <1>0, WorkerEnds DEF WorkerRelease
<1>g. task \in [Ops -> Tasks] /\ claim.id \in Ops
  BY <1>0, <1>1 DEF WorkerRelease, ClaimCopy, Sorts, TypeOK
<1>e. task' = task \/ task' = [task EXCEPT ![claim.id].leased = FALSE, ![claim.id].due = FALSE]
  BY DEF WorkerRelease
<1>i. task' \in [Ops -> Tasks]
  <2>1. [task EXCEPT ![claim.id].leased = FALSE, ![claim.id].due = FALSE] \in [Ops -> Tasks]
    BY <1>0, <1>g, TaskEdited, Zenon
  <2> QED
    BY <1>g, <1>e, <2>1
<1>j. \A j \in Ops : SameTask(task'[j], task[j]) /\ task'[j].since = task[j].since
  BY <1>g, <1>e DEF SameTask, Tasks
<1>2. /\ wpc = "release"
      /\ \A j \in Ops : SameTask(task'[j], task[j]) /\ task'[j].since = task[j].since
      /\ claim'.id = 0 /\ claim'.kind = "rotate" /\ wpc' = "idle" /\ ~attempt'[Worker].good
      /\ \A a \in Actors : a # Worker => attempt'[a] = attempt[a]
      /\ gen' = gen /\ durable' = durable /\ history' = history /\ live' = live
      /\ pc' = pc /\ op' = op /\ id' = id /\ lock' = lock /\ nextOp' = nextOp
      /\ inflight' = inflight /\ sessions' = sessions /\ rushed' = rushed
  BY <1>0, <1>1, <1>h, <1>j DEF WorkerRelease, accountVars, staticVars, queueVars, reqVars,
         workerVars, netVars
<1>3. TypeOK'
  <2>1. faults' \in 0 .. MaxFaults
    BY <1>0, <1>1 DEF WorkerRelease, Fault, NoFault, TypeOK, RevocationAssumption
  <2>2. static' \in Gens /\ paused' \in BOOLEAN
    BY <1>0 DEF WorkerRelease, MayPause, staticVars, TypeOK
  <2> QED
    BY <1>0, <1>1, <1>2, <1>h, <1>i, <2>1, <2>2
       DEF TypeOK, WorkerRelease, accountVars, staticVars, queueVars, reqVars, workerVars,
           netVars
<1>4. Locks'
  BY <1>0, <1>1, <1>2, <1>h DEF Locks, Sorts
<1>5. Holders'
  <2>1. ASSUME NEW q \in Requests, lock' = q PROVE Holder(q)'
    BY <1>0, <1>1, <1>2, <1>h, <2>1 DEF Holders, Holder, Locks, ClaimCopy, SameTask, Sorts
  <2> QED
    BY <1>4, <2>1, LockedOut
<1>6. TasksOlder'
  BY <1>0, <1>1, <1>2, <1>h DEF TasksOlder, Holders, Holder, SameTask, Sorts
<1>7. ClaimCopy'
  BY <1>0, <1>1, <1>2, <1>h DEF ClaimCopy, TasksOlder, Locks, Holders, Holder, SameTask, Sorts
<1>8. ClaimSettled'
  BY <1>0, <1>1, <1>2, <1>h DEF ClaimSettled, ClaimCopy, Acting, Locks, Sorts
<1>9. CountSettled'
  <2> SUFFICES ASSUME NEW k \in live', task'[k].kind = "delete", task'[k].succ > 0,
                      NEW q \in Requests, id'[q] = k
               PROVE  gen' # task'[k].prev \/ ~task'[k].bound
    BY DEF CountSettled, Settled, Requested
  <2> QED
    BY <1>0, <1>1, <1>2, <1>h
       DEF CountSettled, Settled, Requested, TasksOlder, Locks, SameTask, Sorts
<1>10. HistoryKept'
  BY <1>0, <1>1, <1>2, <1>h DEF HistoryKept, Holders, Holder
<1>11. AbsenceOwned'
  <2> SUFFICES ASSUME gen' = 0, durable' # 0 \/ history' = "own" PROVE Unfinished'
    BY DEF AbsenceOwned
  <2>1. PICK k \in live : task[k].kind = "delete" /\ ~Handled(k)
    BY <1>0, <1>1, <1>2, <1>h DEF AbsenceOwned, Unfinished
  <2>2. k \in live' /\ task'[k].kind = "delete" /\ ~Handled(k)'
    BY <1>0, <1>1, <1>2, <1>h, <2>1 DEF Handled, Acting, Requested, Locks, SameTask, Sorts
  <2> QED
    BY <2>2 DEF Unfinished
<1>12. GoodAtRecord'
  BY <1>0, <1>1, <1>2, <1>h DEF GoodAtRecord, Actors, Sorts
<1>13. KicksCount'
  <2> SUFFICES ASSUME NEW k \in live' PROVE KicksOf(k)'
    BY DEF KicksCount
  <2>1. KicksOf(k) /\ k \in Ops
    BY <1>0, <1>1, <1>2, <1>h DEF KicksCount, Sorts
  <2>2. \A a \in Actors : GoodKick(a, k)' => GoodKick(a, k)
    BY <1>0, <1>1, <1>2, <1>h DEF GoodKick, On, Actors, GoodAtRecord, Sorts
  <2>3. (OneKick(k) => OneKick(k)') /\ (TwoKicks(k) => TwoKicks(k)') /\ task'[k].kicks = task[k].kicks
    BY <1>0, <1>1, <1>2, <1>h, <2>1
       DEF OneKick, TwoKicks, NoOld, Committed, TasksOlder, Locks, SameTask, Sorts
  <2> QED
    BY <2>1, <2>2, <2>3 DEF KicksOf
<1>14. NobodyIsZero'
  BY <1>0, <1>1, <1>2, <1>h DEF NobodyIsZero
<1>15. Coverage'
  <2> SUFFICES ASSUME ~rushed', NEW g \in inflight' \cup sessions', g # gen' PROVE Covered(g)'
    BY DEF Coverage
  <2>1. PICK k \in live : Covers(k, g)
    BY <1>0, <1>1, <1>2, <1>h DEF Coverage, Covered
  <2>2. k \in live' /\ Covers(k, g)'
    BY <1>0, <1>1, <1>2, <1>h, <2>1 DEF Covers, Committed, SameTask, Sorts
  <2> QED
    BY <2>2 DEF Covered
<1> QED
  BY <1>3, <1>4, <1>5, <1>6, <1>7, <1>8, <1>9, <1>10, <1>11, <1>12, <1>13, <1>14, <1>15
     DEF IInv

\* Only a rotation that is not canonical is discarded, and it covers nobody.
LEMMA WorkerDiscardStep == ASSUME IInv, WorkerDiscard PROVE IInv'
<1>0. /\ TypeOK /\ Locks /\ Holders /\ TasksOlder /\ ClaimCopy /\ ClaimSettled /\ CountSettled
      /\ HistoryKept /\ AbsenceOwned /\ GoodAtRecord /\ KicksCount /\ NobodyIsZero /\ Coverage
  BY DEF IInv
<1>1. RevocationAssumption /\ Sorts
  BY <1>0, RevocationAssumption, TypeSorts
<1>g. /\ wpc' = "idle" /\ claim' \in Claims /\ claim'.id = 0 /\ claim'.kind = "rotate"
      /\ attempt' \in [Actors -> Attempts] /\ ~attempt'[Worker].good
      /\ \A b \in Actors : b # Worker => attempt'[b] = attempt[b]
  BY <1>0, WorkerEnds DEF WorkerDiscard
<1>i. /\ task' \in [Ops -> Tasks] /\ live' \subseteq live /\ Cardinality(live') <= MaxTasks
      /\ \A j \in live : j # claim.id => j \in live'
      /\ \A j \in live' : task'[j] = task[j]
  <2>1. claim.id \in Ops
    BY <1>0, <1>1 DEF WorkerDiscard, ClaimCopy, Sorts
  <2>2. CASE UNCHANGED queueVars
    BY <1>0, <2>2 DEF queueVars, TypeOK
  <2>3. CASE DropTask(claim.id)
    <3>1. /\ live' = live \ {claim.id} /\ task' \in [Ops -> Tasks]
          /\ \A j \in live' : task'[j] = task[j]
      BY <1>0, <2>1, <2>3, TaskDropped
    <3>2. Cardinality(live \ {claim.id}) <= Cardinality(live) /\ Cardinality(live) \in Nat
      BY <1>0, LiveCount, LiveIsFinite
    <3>3. IsFiniteSet(live \ {claim.id})
      BY <1>0, LiveIsFinite, FS_Subset
    <3>4. /\ Cardinality(live \ {claim.id}) \in Nat /\ MaxTasks \in Nat
          /\ Cardinality(live) <= MaxTasks
      BY <1>0, <1>1, <3>3, FS_CardinalityType DEF RevocationAssumption, TypeOK
    <3> QED
      BY <3>1, <3>2, <3>4
  <2> QED
    BY <2>2, <2>3 DEF WorkerDiscard
<1>2. /\ wpc = "discard" /\ claim.kind = "rotate" /\ gen # claim.id
      /\ live' \subseteq live /\ \A j \in live : j # claim.id => j \in live'
      /\ \A j \in live' : task'[j] = task[j]
      /\ claim'.id = 0 /\ claim'.kind = "rotate" /\ wpc' = "idle" /\ ~attempt'[Worker].good
      /\ \A a \in Actors : a # Worker => attempt'[a] = attempt[a]
      /\ gen' = gen /\ durable' = durable /\ history' = history
      /\ pc' = pc /\ op' = op /\ id' = id /\ lock' = lock /\ nextOp' = nextOp
      /\ inflight' = inflight /\ sessions' = sessions /\ rushed' = rushed
  BY <1>0, <1>1, <1>g, <1>i DEF WorkerDiscard, ClaimCopy, accountVars, staticVars,
         queueVars, reqVars, workerVars, netVars
<1>3. TypeOK'
  <2>1. faults' \in 0 .. MaxFaults
    BY <1>0, <1>1 DEF WorkerDiscard, Fault, NoFault, TypeOK, RevocationAssumption
  <2> QED
    BY <1>0, <1>1, <1>2, <1>g, <1>i, <2>1
       DEF TypeOK, WorkerDiscard, accountVars, staticVars, queueVars, reqVars, workerVars,
           netVars
<1>4. Locks'
  BY <1>0, <1>1, <1>2 DEF Locks, Sorts
<1>5. Holders'
  <2>1. ASSUME NEW q \in Requests, lock' = q PROVE Holder(q)'
    BY <1>0, <1>1, <1>2, <2>1 DEF Holders, Holder, Locks, ClaimCopy, SameTask, Sorts
  <2> QED
    BY <1>4, <2>1, LockedOut
<1>6. TasksOlder'
  BY <1>0, <1>1, <1>2 DEF TasksOlder, Holders, Holder, SameTask, Sorts
<1>7. ClaimCopy'
  BY <1>0, <1>1, <1>2 DEF ClaimCopy, TasksOlder, Locks, Holders, Holder, SameTask, Sorts
<1>8. ClaimSettled'
  BY <1>0, <1>1, <1>2 DEF ClaimSettled, ClaimCopy, Acting, Locks, Sorts
<1>9. CountSettled'
  <2> SUFFICES ASSUME NEW k \in live', task'[k].kind = "delete", task'[k].succ > 0,
                      NEW q \in Requests, id'[q] = k
               PROVE  gen' # task'[k].prev \/ ~task'[k].bound
    BY DEF CountSettled, Settled, Requested
  <2> QED
    BY <1>0, <1>1, <1>2 DEF CountSettled, Settled, Requested, TasksOlder, Locks, SameTask, Sorts
<1>10. HistoryKept'
  BY <1>0, <1>1, <1>2 DEF HistoryKept, Holders, Holder
<1>11. AbsenceOwned'
  <2> SUFFICES ASSUME gen' = 0, durable' # 0 \/ history' = "own" PROVE Unfinished'
    BY DEF AbsenceOwned
  <2>1. PICK k \in live : task[k].kind = "delete" /\ ~Handled(k)
    BY <1>0, <1>2 DEF AbsenceOwned, Unfinished
  <2>2. k # claim.id /\ k # 0
    BY <1>0, <1>1, <1>2, <2>1 DEF ClaimCopy, Sorts
  <2>3. k \in live' /\ task'[k].kind = "delete" /\ ~Handled(k)'
    BY <1>2, <2>1, <2>2 DEF Handled, Acting, Requested
  <2> QED
    BY <2>3 DEF Unfinished
<1>12. GoodAtRecord'
  BY <1>0, <1>1, <1>2 DEF GoodAtRecord, Actors, Sorts
<1>13. KicksCount'
  <2> SUFFICES ASSUME NEW k \in live' PROVE KicksOf(k)'
    BY DEF KicksCount
  <2>1. KicksOf(k) /\ k \in Ops
    BY <1>0, <1>1, <1>2 DEF KicksCount, Sorts
  <2>2. \A a \in Actors : GoodKick(a, k)' => GoodKick(a, k)
    BY <1>0, <1>1, <1>2 DEF GoodKick, On, Actors, GoodAtRecord, Sorts
  <2>3. (OneKick(k) => OneKick(k)') /\ (TwoKicks(k) => TwoKicks(k)') /\ task'[k].kicks = task[k].kicks
    BY <1>0, <1>1, <1>2, <2>1
       DEF OneKick, TwoKicks, NoOld, Committed, TasksOlder, Locks, SameTask, Sorts
  <2> QED
    BY <2>1, <2>2, <2>3 DEF KicksOf
<1>14. NobodyIsZero'
  BY <1>0, <1>1, <1>2 DEF NobodyIsZero
<1>15. Coverage'
  <2> SUFFICES ASSUME ~rushed', NEW g \in inflight' \cup sessions', g # gen' PROVE Covered(g)'
    BY DEF Coverage
  <2>1. PICK k \in live : Covers(k, g)
    BY <1>0, <1>2 DEF Coverage, Covered
  <2>2. k # claim.id
    BY <1>0, <1>2, <2>1 DEF ClaimCopy, Covers
  <2>3. k \in live' /\ Covers(k, g)'
    BY <1>2, <2>1, <2>2 DEF Covers, Committed
  <2> QED
    BY <2>3 DEF Covered
<1> QED
  BY <1>3, <1>4, <1>5, <1>6, <1>7, <1>8, <1>9, <1>10, <1>11, <1>12, <1>13, <1>14, <1>15
     DEF IInv

\* The static proxies again.
LEMMA WorkerEffectsStep == ASSUME IInv, WorkerEffects PROVE IInv'
<1>0. /\ TypeOK /\ Locks /\ Holders /\ TasksOlder /\ ClaimCopy /\ ClaimSettled /\ CountSettled
      /\ HistoryKept /\ AbsenceOwned /\ GoodAtRecord /\ KicksCount /\ NobodyIsZero /\ Coverage
  BY DEF IInv
<1>1. RevocationAssumption /\ Sorts
  BY <1>0, RevocationAssumption, TypeSorts
<1>i. /\ attempt' \in [Actors -> Attempts] /\ static' = static
      /\ paused' \in BOOLEAN /\ faults' \in 0 .. MaxFaults
      /\ \A b \in Actors : attempt'[b].good = attempt[b].good
  <2>1. CASE claim.static
    <3>1. PICK ok \in BOOLEAN : StaticEffects(Worker, ok)
      BY <2>1 DEF WorkerEffects
    <3>2. Worker \in Actors
      BY DEF Actors
    <3> QED
      BY <1>0, <3>1, <3>2, EffectsFacts
  <2>2. CASE ~claim.static
    BY <1>0, <2>2 DEF WorkerEffects, NoFault, staticVars, TypeOK
  <2> QED
    BY <2>1, <2>2
<1>2. /\ wpc = "effects" /\ wpc' = "kick"
      /\ \A a \in Actors : attempt'[a].good = attempt[a].good
      /\ gen' = gen /\ durable' = durable /\ history' = history /\ live' = live /\ task' = task
      /\ pc' = pc /\ op' = op /\ id' = id /\ lock' = lock /\ nextOp' = nextOp
      /\ inflight' = inflight /\ sessions' = sessions /\ claim' = claim /\ rushed' = rushed
  BY <1>0, <1>1, <1>i DEF WorkerEffects, accountVars, staticVars, queueVars, reqVars,
         workerVars, netVars
<1>3. TypeOK'
  BY <1>0, <1>1, <1>2, <1>i
     DEF TypeOK, WorkerEffects, accountVars, staticVars, queueVars, reqVars, workerVars, netVars
<1>4. Locks'
  BY <1>0, <1>1, <1>2 DEF Locks, Sorts
<1>5. Holders'
  <2>1. ASSUME NEW q \in Requests, lock' = q PROVE Holder(q)'
    BY <1>0, <1>1, <1>2, <2>1 DEF Holders, Holder, Locks, ClaimCopy, SameTask, Sorts
  <2> QED
    BY <1>4, <2>1, LockedOut
<1>6. TasksOlder'
  BY <1>0, <1>1, <1>2 DEF TasksOlder, Holders, Holder, SameTask, Sorts
<1>7. ClaimCopy'
  BY <1>0, <1>1, <1>2 DEF ClaimCopy, TasksOlder, Locks, Holders, Holder, SameTask, Sorts
<1>8. ClaimSettled'
  BY <1>0, <1>1, <1>2 DEF ClaimSettled, ClaimCopy, Acting, Locks, Sorts
<1>9. CountSettled'
  <2> SUFFICES ASSUME NEW k \in live', task'[k].kind = "delete", task'[k].succ > 0,
                      NEW q \in Requests, id'[q] = k
               PROVE  gen' # task'[k].prev \/ ~task'[k].bound
    BY DEF CountSettled, Settled, Requested
  <2> QED
    BY <1>0, <1>1, <1>2 DEF CountSettled, Settled, Requested, TasksOlder, Locks, SameTask, Sorts
<1>10. HistoryKept'
  BY <1>0, <1>1, <1>2 DEF HistoryKept, Holders, Holder
<1>11. AbsenceOwned'
  <2> SUFFICES ASSUME gen' = 0, durable' # 0 \/ history' = "own" PROVE Unfinished'
    BY DEF AbsenceOwned
  <2>1. PICK k \in live : task[k].kind = "delete" /\ ~Handled(k)
    BY <1>0, <1>1, <1>2 DEF AbsenceOwned, Unfinished
  <2>2. k \in live' /\ task'[k].kind = "delete" /\ ~Handled(k)'
    BY <1>0, <1>1, <1>2, <2>1 DEF Handled, Acting, Requested, Locks, SameTask, Sorts
  <2> QED
    BY <2>2 DEF Unfinished
<1>12. GoodAtRecord'
  BY <1>0, <1>1, <1>2 DEF GoodAtRecord, Actors, Sorts
<1>13. KicksCount'
  <2> SUFFICES ASSUME NEW k \in live' PROVE KicksOf(k)'
    BY DEF KicksCount
  <2>1. KicksOf(k) /\ k \in Ops
    BY <1>0, <1>1, <1>2 DEF KicksCount, Sorts
  <2>2. \A a \in Actors : GoodKick(a, k)' => GoodKick(a, k)
    BY <1>0, <1>1, <1>2 DEF GoodKick, On, Actors, GoodAtRecord, Sorts
  <2>3. (OneKick(k) => OneKick(k)') /\ (TwoKicks(k) => TwoKicks(k)') /\ task'[k].kicks = task[k].kicks
    BY <1>0, <1>1, <1>2, <2>1
       DEF OneKick, TwoKicks, NoOld, Committed, TasksOlder, Locks, SameTask, Sorts
  <2> QED
    BY <2>1, <2>2, <2>3 DEF KicksOf
<1>14. NobodyIsZero'
  BY <1>0, <1>1, <1>2 DEF NobodyIsZero
<1>15. Coverage'
  <2> SUFFICES ASSUME ~rushed', NEW g \in inflight' \cup sessions', g # gen' PROVE Covered(g)'
    BY DEF Coverage
  <2>1. PICK k \in live : Covers(k, g)
    BY <1>0, <1>1, <1>2 DEF Coverage, Covered
  <2>2. k \in live' /\ Covers(k, g)'
    BY <1>0, <1>1, <1>2, <2>1 DEF Covers, Committed, SameTask, Sorts
  <2> QED
    BY <2>2 DEF Covered
<1> QED
  BY <1>3, <1>4, <1>5, <1>6, <1>7, <1>8, <1>9, <1>10, <1>11, <1>12, <1>13, <1>14, <1>15
     DEF IInv

\* The worker kicks.
LEMMA WorkerKickStep == ASSUME IInv, WorkerKick PROVE IInv'
<1>0. /\ TypeOK /\ Locks /\ Holders /\ TasksOlder /\ ClaimCopy /\ ClaimSettled /\ CountSettled
      /\ HistoryKept /\ AbsenceOwned /\ GoodAtRecord /\ KicksCount /\ NobodyIsZero /\ Coverage
  BY DEF IInv
<1>1. RevocationAssumption /\ Sorts
  BY <1>0, RevocationAssumption, TypeSorts
<1>h. wpc = "kick" /\ claim.id \in Ops /\ Worker \in Actors /\ On(Worker) = claim.id
  BY <1>0, <1>1 DEF WorkerKick, ClaimCopy, Sorts, Actors, On
<1>e. Kick(claim.id, Worker) /\ ~attempt[Worker].good
  BY <1>0, <1>h DEF WorkerKick, GoodAtRecord
<1>2. /\ task' \in [Ops -> Tasks] /\ attempt' \in [Actors -> Attempts]
      /\ faults' \in 0 .. MaxFaults
      /\ \A j \in Ops : SameTask(task'[j], task[j])
      /\ sessions' \subseteq sessions
      /\ wpc = "kick" /\ wpc' = "record"
      /\ \A a \in Actors : a # Worker => attempt'[a] = attempt[a]
      /\ gen' = gen /\ durable' = durable /\ history' = history /\ live' = live
      /\ pc' = pc /\ op' = op /\ id' = id /\ lock' = lock /\ nextOp' = nextOp
      /\ claim' = claim /\ inflight' = inflight /\ rushed' = rushed
  BY <1>0, <1>1, <1>e, <1>h, KickFacts DEF WorkerKick, TypeOK, accountVars, staticVars,
         queueVars, reqVars, workerVars, netVars
<1>3. TypeOK'
  BY <1>0, <1>1, <1>2
     DEF TypeOK, WorkerKick, accountVars, staticVars, queueVars, reqVars, workerVars, netVars
<1>4. Locks'
  BY <1>0, <1>1, <1>2, <1>h DEF Locks, Sorts
<1>5. Holders'
  <2>1. ASSUME NEW q \in Requests, lock' = q PROVE Holder(q)'
    BY <1>0, <1>1, <1>2, <1>h, <2>1 DEF Holders, Holder, Locks, ClaimCopy, SameTask, Sorts
  <2> QED
    BY <1>4, <2>1, LockedOut
<1>6. TasksOlder'
  BY <1>0, <1>1, <1>2, <1>h DEF TasksOlder, Holders, Holder, SameTask, Sorts
<1>7. ClaimCopy'
  BY <1>0, <1>1, <1>2, <1>h DEF ClaimCopy, TasksOlder, Locks, Holders, Holder, SameTask, Sorts
<1>8. ClaimSettled'
  BY <1>0, <1>1, <1>2, <1>h DEF ClaimSettled, ClaimCopy, Acting, Locks, Sorts
<1>9. CountSettled'
  <2> SUFFICES ASSUME NEW k \in live', task'[k].kind = "delete", task'[k].succ > 0,
                      NEW q \in Requests, id'[q] = k
               PROVE  gen' # task'[k].prev \/ ~task'[k].bound
    BY DEF CountSettled, Settled, Requested
  <2> QED
    BY <1>0, <1>1, <1>2, <1>h
       DEF CountSettled, Settled, Requested, TasksOlder, Locks, SameTask, Sorts
<1>10. HistoryKept'
  BY <1>0, <1>1, <1>2, <1>h DEF HistoryKept, Holders, Holder
<1>11. AbsenceOwned'
  <2> SUFFICES ASSUME gen' = 0, durable' # 0 \/ history' = "own" PROVE Unfinished'
    BY DEF AbsenceOwned
  <2>1. PICK k \in live : task[k].kind = "delete" /\ ~Handled(k)
    BY <1>0, <1>1, <1>2, <1>h DEF AbsenceOwned, Unfinished
  <2>2. k \in live' /\ task'[k].kind = "delete" /\ ~Handled(k)'
    BY <1>0, <1>1, <1>2, <1>h, <2>1 DEF Handled, Acting, Requested, Locks, SameTask, Sorts
  <2> QED
    BY <2>2 DEF Unfinished
<1>12. GoodAtRecord'
  BY <1>0, <1>1, <1>2, <1>h DEF GoodAtRecord, Actors, Sorts
<1>13. KicksCount'
  BY <1>0, <1>1, <1>2, <1>e, <1>h, KickCounts
<1>14. NobodyIsZero'
  BY <1>0, <1>1, <1>2, <1>h DEF NobodyIsZero
<1>15. Coverage'
  <2> SUFFICES ASSUME ~rushed', NEW g \in inflight' \cup sessions', g # gen' PROVE Covered(g)'
    BY DEF Coverage
  <2>1. PICK k \in live : Covers(k, g)
    BY <1>0, <1>1, <1>2, <1>h DEF Coverage, Covered
  <2>2. k \in live' /\ Covers(k, g)'
    BY <1>0, <1>1, <1>2, <1>h, <2>1 DEF Covers, Committed, SameTask, Sorts
  <2> QED
    BY <2>2 DEF Covered
<1> QED
  BY <1>3, <1>4, <1>5, <1>6, <1>7, <1>8, <1>9, <1>10, <1>11, <1>12, <1>13, <1>14, <1>15
     DEF IInv

\* The worker records; what it drops it has decided on before.
LEMMA WorkerRecordStep == ASSUME IInv, WorkerRecord PROVE IInv'
<1>0. /\ TypeOK /\ Locks /\ Holders /\ TasksOlder /\ ClaimCopy /\ ClaimSettled /\ CountSettled
      /\ HistoryKept /\ AbsenceOwned /\ GoodAtRecord /\ KicksCount /\ NobodyIsZero /\ Coverage
  BY DEF IInv
<1>1. RevocationAssumption /\ Sorts
  BY <1>0, RevocationAssumption, TypeSorts
<1>h. wpc = "record" /\ claim.id \in Ops /\ Worker \in Actors /\ On(Worker) = claim.id
  BY <1>0, <1>1 DEF WorkerRecord, ClaimCopy, Sorts, Actors, On
<1>e. CompleteAttempt(claim.id, Worker) \/ UNCHANGED <<queueVars, rushed>>
  BY DEF WorkerRecord
<1>g. /\ wpc' = "idle" /\ claim' \in Claims /\ claim'.id = 0 /\ claim'.kind = "rotate"
      /\ attempt' \in [Actors -> Attempts] /\ ~attempt'[Worker].good
      /\ \A b \in Actors : b # Worker => attempt'[b] = attempt[b]
  BY <1>0, WorkerEnds DEF WorkerRecord
<1>2. /\ task' \in [Ops -> Tasks] /\ live' \subseteq live /\ Cardinality(live') <= MaxTasks
      /\ rushed' \in BOOLEAN /\ (rushed => rushed')
      /\ \A j \in live' : j # claim.id => task'[j] = task[j]
      /\ \A j \in live' : /\ task'[j].kind = task[j].kind /\ task'[j].prev = task[j].prev
                         /\ task'[j].bound = task[j].bound
      /\ \A j \in live : j \notin live' => j = claim.id /\ task[j].succ > 0
      /\ claim'.id = 0 /\ claim'.kind = "rotate" /\ wpc' = "idle" /\ ~attempt'[Worker].good
      /\ \A a \in Actors : a # Worker => attempt'[a] = attempt[a]
      /\ gen' = gen /\ durable' = durable /\ history' = history
      /\ pc' = pc /\ op' = op /\ id' = id /\ lock' = lock /\ nextOp' = nextOp
      /\ inflight' = inflight /\ sessions' = sessions
  BY <1>0, <1>1, <1>e, <1>g, <1>h, RecordFacts DEF WorkerRecord, accountVars, staticVars,
         queueVars, reqVars, workerVars, netVars
<1>3. TypeOK'
  <2>2. faults' \in 0 .. MaxFaults
    BY <1>0, <1>1 DEF WorkerRecord, NoFault, Fault, TypeOK, RevocationAssumption
  <2> QED
    BY <1>0, <1>1, <1>2, <1>g, <2>2
       DEF TypeOK, WorkerRecord, accountVars, staticVars, queueVars, reqVars, workerVars,
           netVars
<1>4. Locks'
  BY <1>0, <1>1, <1>2, <1>h DEF Locks, Sorts
<1>5. Holders'
  <2>1. ASSUME NEW q \in Requests, lock' = q PROVE Holder(q)'
    BY <1>0, <1>1, <1>2, <1>h, <2>1 DEF Holders, Holder, Locks, ClaimCopy, SameTask, Sorts
  <2> QED
    BY <1>4, <2>1, LockedOut
<1>6. TasksOlder'
  BY <1>0, <1>1, <1>2, <1>h DEF TasksOlder, Holders, Holder, SameTask, Sorts
<1>7. ClaimCopy'
  BY <1>0, <1>1, <1>2, <1>h DEF ClaimCopy, TasksOlder, Locks, Holders, Holder, SameTask, Sorts
<1>8. ClaimSettled'
  BY <1>0, <1>1, <1>2, <1>h DEF ClaimSettled, ClaimCopy, Acting, Locks, Sorts
<1>9. CountSettled'
  <2> SUFFICES ASSUME NEW k \in live', task'[k].kind = "delete", task'[k].succ > 0,
                      NEW q \in Requests, id'[q] = k
               PROVE  gen' # task'[k].prev \/ ~task'[k].bound
    BY DEF CountSettled, Settled, Requested
  <2>1. CASE k = claim.id
    BY <1>0, <1>2, <1>h, <2>1 DEF ClaimSettled, ClaimCopy, Acting
  <2>2. CASE k # claim.id
    BY <1>0, <1>2, <2>2 DEF CountSettled, Settled, Requested
  <2> QED
    BY <2>1, <2>2
<1>10. HistoryKept'
  BY <1>0, <1>1, <1>2, <1>h DEF HistoryKept, Holders, Holder
<1>11. AbsenceOwned'
  <2> SUFFICES ASSUME gen' = 0, durable' # 0 \/ history' = "own" PROVE Unfinished'
    BY DEF AbsenceOwned
  <2>1. PICK k \in live : task[k].kind = "delete" /\ ~Handled(k)
    BY <1>0, <1>2 DEF AbsenceOwned, Unfinished
  <2>2. k # claim.id /\ k # 0
    BY <1>0, <1>1, <1>h, <2>1 DEF Handled, Acting, Sorts
  <2>3. k \in live' /\ task'[k].kind = "delete" /\ ~Handled(k)'
    BY <1>2, <2>1, <2>2 DEF Handled, Acting, Requested
  <2> QED
    BY <2>3 DEF Unfinished
<1>12. GoodAtRecord'
  BY <1>0, <1>1, <1>2, <1>h DEF GoodAtRecord, Actors, Sorts
<1>13. KicksCount'
  <2>1. \A b \in Actors : b # Worker => attempt'[b] = attempt[b] /\ On(b)' = On(b)
    BY <1>2 DEF On
  <2> QED
    BY <1>0, <1>1, <1>2, <1>e, <1>h, <2>1, RecordCounts
<1>14. NobodyIsZero'
  BY <1>0, <1>1, <1>2, <1>h DEF NobodyIsZero
<1>15. Coverage'
  <2> SUFFICES ASSUME ~rushed', NEW g \in inflight' \cup sessions', g # gen' PROVE Covered(g)'
    BY DEF Coverage
  <2>1. PICK k \in live : Covers(k, g)
    BY <1>0, <1>2 DEF Coverage, Covered
  <2>2. k \in live'
    <3> SUFFICES ASSUME k \notin live' PROVE FALSE
      OBVIOUS
    <3>1. k = claim.id /\ (task[k].kicks > 1 \/ (task[k].kicks > 0 /\ GoodKick(Worker, k)))
      BY <1>0, <1>2, <1>e, <1>h, RecordFacts DEF GoodKick
    <3>2. TwoKicks(k)
      BY <1>0, <1>h, <3>1 DEF KicksCount, KicksOf
    <3> QED
      BY <1>1, <1>2, <2>1, <3>2 DEF TwoKicks, NoOld, Covers, Sorts
  <2>3. Covers(k, g)'
    BY <1>1, <1>2, <2>1, <2>2 DEF Covers, Committed, Sorts
  <2> QED
    BY <2>2, <2>3 DEF Covered
<1> QED
  BY <1>3, <1>4, <1>5, <1>6, <1>7, <1>8, <1>9, <1>10, <1>11, <1>12, <1>13, <1>14, <1>15
     DEF IInv

\* A delay passes only when no authentication is on its way.
LEMMA ElapseStep == ASSUME IInv, NEW n \in Ops, Elapse(n) PROVE IInv'
<1>0. /\ TypeOK /\ Locks /\ Holders /\ TasksOlder /\ ClaimCopy /\ ClaimSettled /\ CountSettled
      /\ HistoryKept /\ AbsenceOwned /\ GoodAtRecord /\ KicksCount /\ NobodyIsZero /\ Coverage
  BY DEF IInv
<1>1. RevocationAssumption /\ Sorts
  BY <1>0, RevocationAssumption, TypeSorts
<1>g. /\ task' = [task EXCEPT ![n].due = TRUE, ![n].leased = FALSE, ![n].since = TRUE]
      /\ task \in [Ops -> Tasks]
  BY <1>0 DEF Elapse, TypeOK
<1>i. task' \in [Ops -> Tasks]
  BY <1>0, <1>g, TaskEdited, Zenon
<1>j. \A j \in Ops : /\ SameTask(task'[j], task[j])
                     /\ task'[j].since = task[j].since \/ j = n
  BY <1>g, ZenonT(40) DEF SameTask, Tasks
<1>2. /\ inflight = {}
      /\ \A j \in Ops : SameTask(task'[j], task[j]) /\ (task'[j].since = task[j].since \/ j = n)
      /\ gen' = gen /\ durable' = durable /\ history' = history /\ live' = live
      /\ pc' = pc /\ op' = op /\ id' = id /\ lock' = lock /\ nextOp' = nextOp
      /\ wpc' = wpc /\ claim' = claim
      /\ inflight' = inflight /\ sessions' = sessions /\ attempt' = attempt /\ rushed' = rushed
  BY <1>0, <1>1, <1>j DEF Elapse, accountVars, staticVars, queueVars, reqVars, workerVars,
         netVars
<1>3. TypeOK'
  BY <1>0, <1>i
     DEF TypeOK, Elapse, accountVars, staticVars, queueVars, reqVars, workerVars, netVars
<1>4. Locks'
  BY <1>0, <1>1, <1>2 DEF Locks, Sorts
<1>5. Holders'
  <2>1. ASSUME NEW q \in Requests, lock' = q PROVE Holder(q)'
    BY <1>0, <1>1, <1>2, <2>1 DEF Holders, Holder, Locks, ClaimCopy, SameTask, Sorts
  <2> QED
    BY <1>4, <2>1, LockedOut
<1>6. TasksOlder'
  BY <1>0, <1>1, <1>2 DEF TasksOlder, Holders, Holder, SameTask, Sorts
<1>7. ClaimCopy'
  BY <1>0, <1>1, <1>2 DEF ClaimCopy, TasksOlder, Locks, Holders, Holder, SameTask, Sorts
<1>8. ClaimSettled'
  BY <1>0, <1>1, <1>2 DEF ClaimSettled, ClaimCopy, Acting, Locks, Sorts
<1>9. CountSettled'
  <2> SUFFICES ASSUME NEW k \in live', task'[k].kind = "delete", task'[k].succ > 0,
                      NEW q \in Requests, id'[q] = k
               PROVE  gen' # task'[k].prev \/ ~task'[k].bound
    BY DEF CountSettled, Settled, Requested
  <2> QED
    BY <1>0, <1>1, <1>2 DEF CountSettled, Settled, Requested, TasksOlder, Locks, SameTask, Sorts
<1>10. HistoryKept'
  BY <1>0, <1>1, <1>2 DEF HistoryKept, Holders, Holder
<1>11. AbsenceOwned'
  <2> SUFFICES ASSUME gen' = 0, durable' # 0 \/ history' = "own" PROVE Unfinished'
    BY DEF AbsenceOwned
  <2>1. PICK k \in live : task[k].kind = "delete" /\ ~Handled(k)
    BY <1>0, <1>1, <1>2 DEF AbsenceOwned, Unfinished
  <2>2. k \in live' /\ task'[k].kind = "delete" /\ ~Handled(k)'
    BY <1>0, <1>1, <1>2, <2>1 DEF Handled, Acting, Requested, Locks, SameTask, Sorts
  <2> QED
    BY <2>2 DEF Unfinished
<1>12. GoodAtRecord'
  BY <1>0, <1>1, <1>2 DEF GoodAtRecord, Actors, Sorts
<1>13. KicksCount'
  <2> SUFFICES ASSUME NEW k \in live' PROVE KicksOf(k)'
    BY DEF KicksCount
  <2>1. KicksOf(k) /\ k \in Ops
    BY <1>0, <1>1, <1>2 DEF KicksCount, Sorts
  <2>2. \A a \in Actors : GoodKick(a, k)' => GoodKick(a, k)
    BY <1>0, <1>1, <1>2 DEF GoodKick, On, Actors, GoodAtRecord, Sorts
  <2>3. (OneKick(k) => OneKick(k)') /\ (TwoKicks(k) => TwoKicks(k)') /\ task'[k].kicks = task[k].kicks
    BY <1>0, <1>1, <1>2, <2>1
       DEF OneKick, TwoKicks, NoOld, Committed, TasksOlder, Locks, SameTask, Sorts
  <2> QED
    BY <2>1, <2>2, <2>3 DEF KicksOf
<1>14. NobodyIsZero'
  BY <1>0, <1>1, <1>2 DEF NobodyIsZero
<1>15. Coverage'
  <2> SUFFICES ASSUME ~rushed', NEW g \in inflight' \cup sessions', g # gen' PROVE Covered(g)'
    BY DEF Coverage
  <2>1. PICK k \in live : Covers(k, g)
    BY <1>0, <1>1, <1>2 DEF Coverage, Covered
  <2>2. k \in live' /\ Covers(k, g)'
    BY <1>0, <1>1, <1>2, <2>1 DEF Covers, Committed, SameTask, Sorts
  <2> QED
    BY <2>2 DEF Covered
<1> QED
  BY <1>3, <1>4, <1>5, <1>6, <1>7, <1>8, <1>9, <1>10, <1>11, <1>12, <1>13, <1>14, <1>15
     DEF IInv

\* Expiry of a rotation intent.
LEMMA ExpireStep == ASSUME IInv, NEW n \in Ops, Expire(n) PROVE IInv'
<1>0. /\ TypeOK /\ Locks /\ Holders /\ TasksOlder /\ ClaimCopy /\ ClaimSettled /\ CountSettled
      /\ HistoryKept /\ AbsenceOwned /\ GoodAtRecord /\ KicksCount /\ NobodyIsZero /\ Coverage
  BY DEF IInv
<1>1. RevocationAssumption /\ Sorts
  BY <1>0, RevocationAssumption, TypeSorts
<1>g. task' = [task EXCEPT ![n].expired = TRUE] /\ task \in [Ops -> Tasks]
  BY <1>0 DEF Expire, TypeOK
<1>i. task' \in [Ops -> Tasks]
  BY <1>0, <1>g, TaskEdited, Zenon
<1>j. \A j \in Ops : /\ SameTask(task'[j], task[j])
                     /\ task'[j].since = task[j].since 
  BY <1>g DEF SameTask, Tasks
<1>2. /\ \A j \in Ops : SameTask(task'[j], task[j]) /\ task'[j].since = task[j].since
      /\ gen' = gen /\ durable' = durable /\ history' = history /\ live' = live
      /\ pc' = pc /\ op' = op /\ id' = id /\ lock' = lock /\ nextOp' = nextOp
      /\ wpc' = wpc /\ claim' = claim
      /\ inflight' = inflight /\ sessions' = sessions /\ attempt' = attempt /\ rushed' = rushed
  BY <1>0, <1>1, <1>j DEF Expire, accountVars, staticVars, queueVars, reqVars, workerVars,
         netVars
<1>3. TypeOK'
  BY <1>0, <1>i
     DEF TypeOK, Expire, accountVars, staticVars, queueVars, reqVars, workerVars, netVars
<1>4. Locks'
  BY <1>0, <1>1, <1>2 DEF Locks, Sorts
<1>5. Holders'
  <2>1. ASSUME NEW q \in Requests, lock' = q PROVE Holder(q)'
    BY <1>0, <1>1, <1>2, <2>1 DEF Holders, Holder, Locks, ClaimCopy, SameTask, Sorts
  <2> QED
    BY <1>4, <2>1, LockedOut
<1>6. TasksOlder'
  BY <1>0, <1>1, <1>2 DEF TasksOlder, Holders, Holder, SameTask, Sorts
<1>7. ClaimCopy'
  BY <1>0, <1>1, <1>2 DEF ClaimCopy, TasksOlder, Locks, Holders, Holder, SameTask, Sorts
<1>8. ClaimSettled'
  BY <1>0, <1>1, <1>2 DEF ClaimSettled, ClaimCopy, Acting, Locks, Sorts
<1>9. CountSettled'
  <2> SUFFICES ASSUME NEW k \in live', task'[k].kind = "delete", task'[k].succ > 0,
                      NEW q \in Requests, id'[q] = k
               PROVE  gen' # task'[k].prev \/ ~task'[k].bound
    BY DEF CountSettled, Settled, Requested
  <2> QED
    BY <1>0, <1>1, <1>2 DEF CountSettled, Settled, Requested, TasksOlder, Locks, SameTask, Sorts
<1>10. HistoryKept'
  BY <1>0, <1>1, <1>2 DEF HistoryKept, Holders, Holder
<1>11. AbsenceOwned'
  <2> SUFFICES ASSUME gen' = 0, durable' # 0 \/ history' = "own" PROVE Unfinished'
    BY DEF AbsenceOwned
  <2>1. PICK k \in live : task[k].kind = "delete" /\ ~Handled(k)
    BY <1>0, <1>1, <1>2 DEF AbsenceOwned, Unfinished
  <2>2. k \in live' /\ task'[k].kind = "delete" /\ ~Handled(k)'
    BY <1>0, <1>1, <1>2, <2>1 DEF Handled, Acting, Requested, Locks, SameTask, Sorts
  <2> QED
    BY <2>2 DEF Unfinished
<1>12. GoodAtRecord'
  BY <1>0, <1>1, <1>2 DEF GoodAtRecord, Actors, Sorts
<1>13. KicksCount'
  <2> SUFFICES ASSUME NEW k \in live' PROVE KicksOf(k)'
    BY DEF KicksCount
  <2>1. KicksOf(k) /\ k \in Ops
    BY <1>0, <1>1, <1>2 DEF KicksCount, Sorts
  <2>2. \A a \in Actors : GoodKick(a, k)' => GoodKick(a, k)
    BY <1>0, <1>1, <1>2 DEF GoodKick, On, Actors, GoodAtRecord, Sorts
  <2>3. (OneKick(k) => OneKick(k)') /\ (TwoKicks(k) => TwoKicks(k)') /\ task'[k].kicks = task[k].kicks
    BY <1>0, <1>1, <1>2, <2>1
       DEF OneKick, TwoKicks, NoOld, Committed, TasksOlder, Locks, SameTask, Sorts
  <2> QED
    BY <2>1, <2>2, <2>3 DEF KicksOf
<1>14. NobodyIsZero'
  BY <1>0, <1>1, <1>2 DEF NobodyIsZero
<1>15. Coverage'
  <2> SUFFICES ASSUME ~rushed', NEW g \in inflight' \cup sessions', g # gen' PROVE Covered(g)'
    BY DEF Coverage
  <2>1. PICK k \in live : Covers(k, g)
    BY <1>0, <1>1, <1>2 DEF Coverage, Covered
  <2>2. k \in live' /\ Covers(k, g)'
    BY <1>0, <1>1, <1>2, <2>1 DEF Covers, Committed, SameTask, Sorts
  <2> QED
    BY <2>2 DEF Covered
<1> QED
  BY <1>3, <1>4, <1>5, <1>6, <1>7, <1>8, <1>9, <1>10, <1>11, <1>12, <1>13, <1>14, <1>15
     DEF IInv

\* Only the visible generation gets in, which is newer than what any counted kick was for.
LEMMA AuthenticateStep == ASSUME IInv, Authenticate PROVE IInv'
<1>0. /\ TypeOK /\ Locks /\ Holders /\ TasksOlder /\ ClaimCopy /\ ClaimSettled /\ CountSettled
      /\ HistoryKept /\ AbsenceOwned /\ GoodAtRecord /\ KicksCount /\ NobodyIsZero /\ Coverage
  BY DEF IInv
<1>1. RevocationAssumption /\ Sorts
  BY <1>0, RevocationAssumption, TypeSorts
<1>2. /\ gen # 0 /\ inflight' = inflight \cup {gen}
      /\ gen' = gen /\ durable' = durable /\ history' = history /\ live' = live /\ task' = task
      /\ pc' = pc /\ op' = op /\ id' = id /\ lock' = lock /\ nextOp' = nextOp
      /\ wpc' = wpc /\ claim' = claim
      /\ sessions' = sessions /\ attempt' = attempt /\ rushed' = rushed
  BY <1>0, <1>1 DEF Authenticate, accountVars, staticVars, queueVars, reqVars, workerVars,
         netVars
<1>3. TypeOK'
  BY <1>0, <1>2
     DEF TypeOK, Authenticate, accountVars, staticVars, queueVars, reqVars, workerVars, netVars
<1>4. Locks'
  BY <1>0, <1>1, <1>2 DEF Locks, Sorts
<1>5. Holders'
  <2>1. ASSUME NEW q \in Requests, lock' = q PROVE Holder(q)'
    BY <1>0, <1>1, <1>2, <2>1 DEF Holders, Holder, Locks, ClaimCopy, SameTask, Sorts
  <2> QED
    BY <1>4, <2>1, LockedOut
<1>6. TasksOlder'
  BY <1>0, <1>1, <1>2 DEF TasksOlder, Holders, Holder, SameTask, Sorts
<1>7. ClaimCopy'
  BY <1>0, <1>1, <1>2 DEF ClaimCopy, TasksOlder, Locks, Holders, Holder, SameTask, Sorts
<1>8. ClaimSettled'
  BY <1>0, <1>1, <1>2 DEF ClaimSettled, ClaimCopy, Acting, Locks, Sorts
<1>9. CountSettled'
  <2> SUFFICES ASSUME NEW k \in live', task'[k].kind = "delete", task'[k].succ > 0,
                      NEW q \in Requests, id'[q] = k
               PROVE  gen' # task'[k].prev \/ ~task'[k].bound
    BY DEF CountSettled, Settled, Requested
  <2> QED
    BY <1>0, <1>1, <1>2 DEF CountSettled, Settled, Requested, TasksOlder, Locks, SameTask, Sorts
<1>10. HistoryKept'
  BY <1>0, <1>1, <1>2 DEF HistoryKept, Holders, Holder
<1>11. AbsenceOwned'
  <2> SUFFICES ASSUME gen' = 0, durable' # 0 \/ history' = "own" PROVE Unfinished'
    BY DEF AbsenceOwned
  <2>1. PICK k \in live : task[k].kind = "delete" /\ ~Handled(k)
    BY <1>0, <1>1, <1>2 DEF AbsenceOwned, Unfinished
  <2>2. k \in live' /\ task'[k].kind = "delete" /\ ~Handled(k)'
    BY <1>0, <1>1, <1>2, <2>1 DEF Handled, Acting, Requested, Locks, SameTask, Sorts
  <2> QED
    BY <2>2 DEF Unfinished
<1>12. GoodAtRecord'
  BY <1>0, <1>1, <1>2 DEF GoodAtRecord, Actors, Sorts
<1>13. KicksCount'
  <2> SUFFICES ASSUME NEW k \in live PROVE KicksOf(k)'
    BY <1>2 DEF KicksCount
  <2>1. KicksOf(k) /\ k \in Ops
    BY <1>0, <1>1 DEF KicksCount, Sorts
  <2>2. \A a \in Actors : GoodKick(a, k)' => GoodKick(a, k)
    BY <1>2 DEF GoodKick, On
  <2>3. (OneKick(k) => OneKick(k)') /\ (OneKick(k) /\ TwoKicks(k) => TwoKicks(k)')
    BY <1>1, <1>2, <2>1 DEF OneKick, TwoKicks, NoOld, Committed, Sorts
  <2>4. task[k].kicks > 1 => task[k].kicks > 0
    BY <1>1, <2>1 DEF Sorts
  <2> QED
    BY <1>2, <2>1, <2>2, <2>3, <2>4 DEF KicksOf
<1>14. NobodyIsZero'
  BY <1>0, <1>1, <1>2 DEF NobodyIsZero
<1>15. Coverage'
  <2> SUFFICES ASSUME ~rushed', NEW g \in inflight' \cup sessions', g # gen' PROVE Covered(g)'
    BY DEF Coverage
  <2>1. PICK k \in live : Covers(k, g)
    BY <1>0, <1>1, <1>2 DEF Coverage, Covered
  <2>2. k \in live' /\ Covers(k, g)'
    BY <1>0, <1>1, <1>2, <2>1 DEF Covers, Committed, SameTask, Sorts
  <2> QED
    BY <2>2 DEF Covered
<1> QED
  BY <1>3, <1>4, <1>5, <1>6, <1>7, <1>8, <1>9, <1>10, <1>11, <1>12, <1>13, <1>14, <1>15
     DEF IInv

\* An accepted authentication becomes a session.
LEMMA ConnectStep == ASSUME IInv, NEW h \in Gens \ {0}, Connect(h) PROVE IInv'
<1>0. /\ TypeOK /\ Locks /\ Holders /\ TasksOlder /\ ClaimCopy /\ ClaimSettled /\ CountSettled
      /\ HistoryKept /\ AbsenceOwned /\ GoodAtRecord /\ KicksCount /\ NobodyIsZero /\ Coverage
  BY DEF IInv
<1>1. RevocationAssumption /\ Sorts
  BY <1>0, RevocationAssumption, TypeSorts
<1>2. /\ h \in inflight /\ inflight' = inflight \ {h} /\ sessions' = sessions \cup {h}
      /\ gen' = gen /\ durable' = durable /\ history' = history /\ live' = live /\ task' = task
      /\ pc' = pc /\ op' = op /\ id' = id /\ lock' = lock /\ nextOp' = nextOp
      /\ wpc' = wpc /\ claim' = claim
      /\ attempt' = attempt /\ rushed' = rushed
  BY <1>0, <1>1 DEF Connect, accountVars, staticVars, queueVars, reqVars, workerVars,
         netVars
<1>3. TypeOK'
  BY <1>0, <1>2
     DEF TypeOK, Connect, accountVars, staticVars, queueVars, reqVars, workerVars, netVars
<1>4. Locks'
  BY <1>0, <1>1, <1>2 DEF Locks, Sorts
<1>5. Holders'
  <2>1. ASSUME NEW q \in Requests, lock' = q PROVE Holder(q)'
    BY <1>0, <1>1, <1>2, <2>1 DEF Holders, Holder, Locks, ClaimCopy, SameTask, Sorts
  <2> QED
    BY <1>4, <2>1, LockedOut
<1>6. TasksOlder'
  BY <1>0, <1>1, <1>2 DEF TasksOlder, Holders, Holder, SameTask, Sorts
<1>7. ClaimCopy'
  BY <1>0, <1>1, <1>2 DEF ClaimCopy, TasksOlder, Locks, Holders, Holder, SameTask, Sorts
<1>8. ClaimSettled'
  BY <1>0, <1>1, <1>2 DEF ClaimSettled, ClaimCopy, Acting, Locks, Sorts
<1>9. CountSettled'
  <2> SUFFICES ASSUME NEW k \in live', task'[k].kind = "delete", task'[k].succ > 0,
                      NEW q \in Requests, id'[q] = k
               PROVE  gen' # task'[k].prev \/ ~task'[k].bound
    BY DEF CountSettled, Settled, Requested
  <2> QED
    BY <1>0, <1>1, <1>2 DEF CountSettled, Settled, Requested, TasksOlder, Locks, SameTask, Sorts
<1>10. HistoryKept'
  BY <1>0, <1>1, <1>2 DEF HistoryKept, Holders, Holder
<1>11. AbsenceOwned'
  <2> SUFFICES ASSUME gen' = 0, durable' # 0 \/ history' = "own" PROVE Unfinished'
    BY DEF AbsenceOwned
  <2>1. PICK k \in live : task[k].kind = "delete" /\ ~Handled(k)
    BY <1>0, <1>1, <1>2 DEF AbsenceOwned, Unfinished
  <2>2. k \in live' /\ task'[k].kind = "delete" /\ ~Handled(k)'
    BY <1>0, <1>1, <1>2, <2>1 DEF Handled, Acting, Requested, Locks, SameTask, Sorts
  <2> QED
    BY <2>2 DEF Unfinished
<1>12. GoodAtRecord'
  BY <1>0, <1>1, <1>2 DEF GoodAtRecord, Actors, Sorts
<1>13. KicksCount'
  <2> SUFFICES ASSUME NEW k \in live' PROVE KicksOf(k)'
    BY DEF KicksCount
  <2>1. KicksOf(k) /\ k \in Ops
    BY <1>0, <1>1, <1>2 DEF KicksCount, Sorts
  <2>2. \A a \in Actors : GoodKick(a, k)' => GoodKick(a, k)
    BY <1>0, <1>1, <1>2 DEF GoodKick, On, Actors, GoodAtRecord, Sorts
  <2>3. (OneKick(k) => OneKick(k)') /\ (TwoKicks(k) => TwoKicks(k)') /\ task'[k].kicks = task[k].kicks
    BY <1>0, <1>1, <1>2, <2>1
       DEF OneKick, TwoKicks, NoOld, Committed, TasksOlder, Locks, SameTask, Sorts
  <2> QED
    BY <2>1, <2>2, <2>3 DEF KicksOf
<1>14. NobodyIsZero'
  BY <1>0, <1>1, <1>2 DEF NobodyIsZero
<1>15. Coverage'
  <2> SUFFICES ASSUME ~rushed', NEW g \in inflight' \cup sessions', g # gen' PROVE Covered(g)'
    BY DEF Coverage
  <2>1. PICK k \in live : Covers(k, g)
    BY <1>0, <1>1, <1>2 DEF Coverage, Covered
  <2>2. k \in live' /\ Covers(k, g)'
    BY <1>0, <1>1, <1>2, <2>1 DEF Covers, Committed, SameTask, Sorts
  <2> QED
    BY <2>2 DEF Covered
<1> QED
  BY <1>3, <1>4, <1>5, <1>6, <1>7, <1>8, <1>9, <1>10, <1>11, <1>12, <1>13, <1>14, <1>15
     DEF IInv

\* An edit settles the deletions that were bound to the old revision.
LEMMA EditStep == ASSUME IInv, Edit PROVE IInv'
<1>0. /\ TypeOK /\ Locks /\ Holders /\ TasksOlder /\ ClaimCopy /\ ClaimSettled /\ CountSettled
      /\ HistoryKept /\ AbsenceOwned /\ GoodAtRecord /\ KicksCount /\ NobodyIsZero /\ Coverage
  BY DEF IInv
<1>1. RevocationAssumption /\ Sorts
  BY <1>0, RevocationAssumption, TypeSorts
<1>e. task \in [Ops -> Tasks] /\ live \subseteq Ops /\ claim \in Claims
  BY <1>0 DEF TypeOK
<1>f. /\ task' = [k \in Ops |-> IF k \in live /\ task[k].kind = "delete"
                                THEN [task[k] EXCEPT !.bound = FALSE] ELSE task[k]]
      /\ claim' = [claim EXCEPT !.bound = claim.kind # "delete"]
  BY DEF Edit
<1>g. task' \in [Ops -> Tasks]
  <2>1. ASSUME NEW x \in Tasks PROVE [x EXCEPT !.bound = FALSE] \in Tasks
    BY DEF Tasks
  <2> QED
    BY <1>e, <1>f, <2>1
<1>i. /\ \A j \in live : task'[j].kind = "delete" => task'[j].bound = FALSE
      /\ \A j \in Ops : /\ task'[j].kind = task[j].kind /\ task'[j].prev = task[j].prev
                        /\ task'[j].succ = task[j].succ /\ task'[j].kicks = task[j].kicks
                        /\ task'[j].since = task[j].since
  BY <1>e, <1>f DEF Tasks
<1>j. /\ claim' \in Claims /\ claim'.id = claim.id /\ claim'.kind = claim.kind
      /\ claim'.prev = claim.prev /\ (claim.kind = "delete" => claim'.bound = FALSE)
  BY <1>e, <1>f DEF Claims
<1>2. /\ lock = NoOne /\ gen # 0 /\ claim'.id = claim.id /\ claim'.kind = claim.kind
      /\ claim'.prev = claim.prev
      /\ claim.kind = "delete" => claim'.bound = FALSE
      /\ \A j \in live : task'[j].kind = "delete" => task'[j].bound = FALSE
      /\ \A j \in Ops : /\ task'[j].kind = task[j].kind /\ task'[j].prev = task[j].prev /\ task'[j].succ = task[j].succ
                       /\ task'[j].kicks = task[j].kicks /\ task'[j].since = task[j].since
      /\ gen' = gen /\ durable' = durable /\ history' = history /\ live' = live
      /\ pc' = pc /\ op' = op /\ id' = id /\ lock' = lock /\ nextOp' = nextOp
      /\ wpc' = wpc /\ attempt' = attempt
      /\ inflight' = inflight /\ sessions' = sessions /\ rushed' = rushed
  BY <1>0, <1>1, <1>i, <1>j DEF Edit, accountVars, staticVars, queueVars, reqVars,
         workerVars, netVars
<1>3. TypeOK'
  BY <1>0, <1>g, <1>j
     DEF TypeOK, Edit, accountVars, staticVars, queueVars, reqVars, workerVars, netVars
<1>4. Locks'
  BY <1>0, <1>1, <1>2 DEF Locks, Sorts
<1>5. Holders'
  <2>1. ASSUME NEW q \in Requests, lock' = q PROVE Holder(q)'
    BY <1>0, <1>1, <1>2, <2>1 DEF Holders, Holder, Locks, ClaimCopy, SameTask, Sorts
  <2> QED
    BY <1>4, <2>1, LockedOut
<1>6. TasksOlder'
  BY <1>0, <1>1, <1>2 DEF TasksOlder, Holders, Holder, SameTask, Sorts
<1>7. ClaimCopy'
  BY <1>0, <1>1, <1>2, ZenonT(40) DEF ClaimCopy, TasksOlder, Locks, Holders, Holder, SameTask, Sorts
<1>8. ClaimSettled'
  BY <1>0, <1>1, <1>2 DEF ClaimSettled, ClaimCopy, Acting, Locks, Sorts
<1>9. CountSettled'
  <2> SUFFICES ASSUME NEW k \in live', task'[k].kind = "delete", task'[k].succ > 0,
                      NEW q \in Requests, id'[q] = k
               PROVE  gen' # task'[k].prev \/ ~task'[k].bound
    BY DEF CountSettled, Settled, Requested
  <2> QED
    BY <1>0, <1>1, <1>2 DEF CountSettled, Settled, Requested, TasksOlder, Locks, SameTask, Sorts
<1>10. HistoryKept'
  BY <1>0, <1>1, <1>2 DEF HistoryKept, Holders, Holder
<1>11. AbsenceOwned'
  BY <1>2 DEF AbsenceOwned
<1>12. GoodAtRecord'
  BY <1>0, <1>1, <1>2 DEF GoodAtRecord, Actors, Sorts
<1>13. KicksCount'
  <2> SUFFICES ASSUME NEW k \in live' PROVE KicksOf(k)'
    BY DEF KicksCount
  <2>1. KicksOf(k) /\ k \in Ops
    BY <1>0, <1>1, <1>2 DEF KicksCount, Sorts
  <2>2. \A a \in Actors : GoodKick(a, k)' => GoodKick(a, k)
    BY <1>0, <1>1, <1>2 DEF GoodKick, On, Actors, GoodAtRecord, Sorts
  <2>3. (OneKick(k) => OneKick(k)') /\ (TwoKicks(k) => TwoKicks(k)') /\ task'[k].kicks = task[k].kicks
    BY <1>0, <1>1, <1>2, <2>1
       DEF OneKick, TwoKicks, NoOld, Committed, TasksOlder, Locks, SameTask, Sorts
  <2> QED
    BY <2>1, <2>2, <2>3 DEF KicksOf
<1>14. NobodyIsZero'
  BY <1>0, <1>1, <1>2 DEF NobodyIsZero
<1>15. Coverage'
  <2> SUFFICES ASSUME ~rushed', NEW g \in inflight' \cup sessions', g # gen' PROVE Covered(g)'
    BY DEF Coverage
  <2>1. PICK k \in live : Covers(k, g)
    BY <1>0, <1>1, <1>2 DEF Coverage, Covered
  <2>2. k \in live' /\ Covers(k, g)'
    BY <1>0, <1>1, <1>2, <2>1 DEF Covers, Committed, SameTask, Sorts
  <2> QED
    BY <2>2 DEF Covered
<1> QED
  BY <1>3, <1>4, <1>5, <1>6, <1>7, <1>8, <1>9, <1>10, <1>11, <1>12, <1>13, <1>14, <1>15
     DEF IInv

\* The limiter touches the static proxies only.
LEMMA LimiterStep == ASSUME IInv, LimiterTick PROVE IInv'
<1>0. /\ TypeOK /\ Locks /\ Holders /\ TasksOlder /\ ClaimCopy /\ ClaimSettled /\ CountSettled
      /\ HistoryKept /\ AbsenceOwned /\ GoodAtRecord /\ KicksCount /\ NobodyIsZero /\ Coverage
  BY DEF IInv
<1>1. RevocationAssumption /\ Sorts
  BY <1>0, RevocationAssumption, TypeSorts
<1>2. /\ gen' = gen /\ durable' = durable /\ history' = history /\ live' = live /\ task' = task
      /\ pc' = pc /\ op' = op /\ id' = id /\ lock' = lock /\ nextOp' = nextOp
      /\ wpc' = wpc /\ claim' = claim
      /\ inflight' = inflight /\ sessions' = sessions /\ attempt' = attempt /\ rushed' = rushed
  BY <1>0, <1>1 DEF LimiterTick, accountVars, staticVars, queueVars, reqVars, workerVars,
         netVars
<1>3. TypeOK'
  BY <1>0, <1>2
     DEF TypeOK, LimiterTick, SyncStatic, NoFault, accountVars, staticVars, queueVars, reqVars,
         workerVars, netVars
<1>4. Locks'
  BY <1>0, <1>1, <1>2 DEF Locks, Sorts
<1>5. Holders'
  <2>1. ASSUME NEW q \in Requests, lock' = q PROVE Holder(q)'
    BY <1>0, <1>1, <1>2, <2>1 DEF Holders, Holder, Locks, ClaimCopy, SameTask, Sorts
  <2> QED
    BY <1>4, <2>1, LockedOut
<1>6. TasksOlder'
  BY <1>0, <1>1, <1>2 DEF TasksOlder, Holders, Holder, SameTask, Sorts
<1>7. ClaimCopy'
  BY <1>0, <1>1, <1>2 DEF ClaimCopy, TasksOlder, Locks, Holders, Holder, SameTask, Sorts
<1>8. ClaimSettled'
  BY <1>0, <1>1, <1>2 DEF ClaimSettled, ClaimCopy, Acting, Locks, Sorts
<1>9. CountSettled'
  <2> SUFFICES ASSUME NEW k \in live', task'[k].kind = "delete", task'[k].succ > 0,
                      NEW q \in Requests, id'[q] = k
               PROVE  gen' # task'[k].prev \/ ~task'[k].bound
    BY DEF CountSettled, Settled, Requested
  <2> QED
    BY <1>0, <1>1, <1>2 DEF CountSettled, Settled, Requested, TasksOlder, Locks, SameTask, Sorts
<1>10. HistoryKept'
  BY <1>0, <1>1, <1>2 DEF HistoryKept, Holders, Holder
<1>11. AbsenceOwned'
  <2> SUFFICES ASSUME gen' = 0, durable' # 0 \/ history' = "own" PROVE Unfinished'
    BY DEF AbsenceOwned
  <2>1. PICK k \in live : task[k].kind = "delete" /\ ~Handled(k)
    BY <1>0, <1>1, <1>2 DEF AbsenceOwned, Unfinished
  <2>2. k \in live' /\ task'[k].kind = "delete" /\ ~Handled(k)'
    BY <1>0, <1>1, <1>2, <2>1 DEF Handled, Acting, Requested, Locks, SameTask, Sorts
  <2> QED
    BY <2>2 DEF Unfinished
<1>12. GoodAtRecord'
  BY <1>0, <1>1, <1>2 DEF GoodAtRecord, Actors, Sorts
<1>13. KicksCount'
  <2> SUFFICES ASSUME NEW k \in live' PROVE KicksOf(k)'
    BY DEF KicksCount
  <2>1. KicksOf(k) /\ k \in Ops
    BY <1>0, <1>1, <1>2 DEF KicksCount, Sorts
  <2>2. \A a \in Actors : GoodKick(a, k)' => GoodKick(a, k)
    BY <1>0, <1>1, <1>2 DEF GoodKick, On, Actors, GoodAtRecord, Sorts
  <2>3. (OneKick(k) => OneKick(k)') /\ (TwoKicks(k) => TwoKicks(k)') /\ task'[k].kicks = task[k].kicks
    BY <1>0, <1>1, <1>2, <2>1
       DEF OneKick, TwoKicks, NoOld, Committed, TasksOlder, Locks, SameTask, Sorts
  <2> QED
    BY <2>1, <2>2, <2>3 DEF KicksOf
<1>14. NobodyIsZero'
  BY <1>0, <1>1, <1>2 DEF NobodyIsZero
<1>15. Coverage'
  <2> SUFFICES ASSUME ~rushed', NEW g \in inflight' \cup sessions', g # gen' PROVE Covered(g)'
    BY DEF Coverage
  <2>1. PICK k \in live : Covers(k, g)
    BY <1>0, <1>1, <1>2 DEF Coverage, Covered
  <2>2. k \in live' /\ Covers(k, g)'
    BY <1>0, <1>1, <1>2, <2>1 DEF Covers, Committed, SameTask, Sorts
  <2> QED
    BY <2>2 DEF Covered
<1> QED
  BY <1>3, <1>4, <1>5, <1>6, <1>7, <1>8, <1>9, <1>10, <1>11, <1>12, <1>13, <1>14, <1>15
     DEF IInv

\* Nothing happens.
LEMMA StutterStep == ASSUME IInv, UNCHANGED vars PROVE IInv'
<1>0. /\ TypeOK /\ Locks /\ Holders /\ TasksOlder /\ ClaimCopy /\ ClaimSettled /\ CountSettled
      /\ HistoryKept /\ AbsenceOwned /\ GoodAtRecord /\ KicksCount /\ NobodyIsZero /\ Coverage
  BY DEF IInv
<1>1. RevocationAssumption /\ Sorts
  BY <1>0, RevocationAssumption, TypeSorts
<1>2. /\ gen' = gen /\ durable' = durable /\ history' = history /\ live' = live /\ task' = task
      /\ pc' = pc /\ op' = op /\ id' = id /\ lock' = lock /\ nextOp' = nextOp
      /\ wpc' = wpc /\ claim' = claim
      /\ inflight' = inflight /\ sessions' = sessions /\ attempt' = attempt /\ rushed' = rushed
  BY <1>0, <1>1 DEF vars, accountVars, staticVars, queueVars, reqVars, workerVars, netVars
<1>3. TypeOK'
  BY <1>0 DEF TypeOK, vars, accountVars, staticVars, queueVars, reqVars, workerVars, netVars
<1>4. Locks'
  BY <1>0, <1>1, <1>2 DEF Locks, Sorts
<1>5. Holders'
  <2>1. ASSUME NEW q \in Requests, lock' = q PROVE Holder(q)'
    BY <1>0, <1>1, <1>2, <2>1 DEF Holders, Holder, Locks, ClaimCopy, SameTask, Sorts
  <2> QED
    BY <1>4, <2>1, LockedOut
<1>6. TasksOlder'
  BY <1>0, <1>1, <1>2 DEF TasksOlder, Holders, Holder, SameTask, Sorts
<1>7. ClaimCopy'
  BY <1>0, <1>1, <1>2 DEF ClaimCopy, TasksOlder, Locks, Holders, Holder, SameTask, Sorts
<1>8. ClaimSettled'
  BY <1>0, <1>1, <1>2 DEF ClaimSettled, ClaimCopy, Acting, Locks, Sorts
<1>9. CountSettled'
  <2> SUFFICES ASSUME NEW k \in live', task'[k].kind = "delete", task'[k].succ > 0,
                      NEW q \in Requests, id'[q] = k
               PROVE  gen' # task'[k].prev \/ ~task'[k].bound
    BY DEF CountSettled, Settled, Requested
  <2> QED
    BY <1>0, <1>1, <1>2 DEF CountSettled, Settled, Requested, TasksOlder, Locks, SameTask, Sorts
<1>10. HistoryKept'
  BY <1>0, <1>1, <1>2 DEF HistoryKept, Holders, Holder
<1>11. AbsenceOwned'
  <2> SUFFICES ASSUME gen' = 0, durable' # 0 \/ history' = "own" PROVE Unfinished'
    BY DEF AbsenceOwned
  <2>1. PICK k \in live : task[k].kind = "delete" /\ ~Handled(k)
    BY <1>0, <1>1, <1>2 DEF AbsenceOwned, Unfinished
  <2>2. k \in live' /\ task'[k].kind = "delete" /\ ~Handled(k)'
    BY <1>0, <1>1, <1>2, <2>1 DEF Handled, Acting, Requested, Locks, SameTask, Sorts
  <2> QED
    BY <2>2 DEF Unfinished
<1>12. GoodAtRecord'
  BY <1>0, <1>1, <1>2 DEF GoodAtRecord, Actors, Sorts
<1>13. KicksCount'
  <2> SUFFICES ASSUME NEW k \in live' PROVE KicksOf(k)'
    BY DEF KicksCount
  <2>1. KicksOf(k) /\ k \in Ops
    BY <1>0, <1>1, <1>2 DEF KicksCount, Sorts
  <2>2. \A a \in Actors : GoodKick(a, k)' => GoodKick(a, k)
    BY <1>0, <1>1, <1>2 DEF GoodKick, On, Actors, GoodAtRecord, Sorts
  <2>3. (OneKick(k) => OneKick(k)') /\ (TwoKicks(k) => TwoKicks(k)') /\ task'[k].kicks = task[k].kicks
    BY <1>0, <1>1, <1>2, <2>1
       DEF OneKick, TwoKicks, NoOld, Committed, TasksOlder, Locks, SameTask, Sorts
  <2> QED
    BY <2>1, <2>2, <2>3 DEF KicksOf
<1>14. NobodyIsZero'
  BY <1>0, <1>1, <1>2 DEF NobodyIsZero
<1>15. Coverage'
  <2> SUFFICES ASSUME ~rushed', NEW g \in inflight' \cup sessions', g # gen' PROVE Covered(g)'
    BY DEF Coverage
  <2>1. PICK k \in live : Covers(k, g)
    BY <1>0, <1>1, <1>2 DEF Coverage, Covered
  <2>2. k \in live' /\ Covers(k, g)'
    BY <1>0, <1>1, <1>2, <2>1 DEF Covers, Committed, SameTask, Sorts
  <2> QED
    BY <2>2 DEF Covered
<1> QED
  BY <1>3, <1>4, <1>5, <1>6, <1>7, <1>8, <1>9, <1>10, <1>11, <1>12, <1>13, <1>14, <1>15
     DEF IInv

\* The threads of the panel are gone with all they knew.
LEMMA GoneFacts ==
  ASSUME TypeOK, PanelGone
  PROVE  /\ lock' = NoOne /\ wpc' = "idle" /\ claim' \in Claims /\ claim'.id = 0 /\ claim'.kind = "rotate"
         /\ \A q \in Requests : pc'[q] = "idle" /\ id'[q] = 0
         /\ \A a \in Actors : ~attempt'[a].good
         /\ attempt' \in [Actors -> Attempts] /\ id' \in [Requests -> Ops \cup {0}]
         /\ op' \in [Requests -> {"rotate", "delete", "add"}]
         /\ pc' \in [Requests -> {"idle", "locked", "commit", "sync", "effects", "kick", "record"}]
<1>1. /\ lock' = NoOne /\ wpc' = "idle" /\ claim' \in Claims /\ claim'.id = 0
      /\ claim'.kind = "rotate"
  BY RevocationAssumption DEF PanelGone, NoClaim, Claims, Gens, RevocationAssumption
<1>2. (\A a \in Actors : ~attempt'[a].good) /\ attempt' \in [Actors -> Attempts]
  BY DEF PanelGone, NoAttempt, Attempts
<1> QED
  BY <1>1, <1>2 DEF PanelGone

\* All threads are gone, so every deletion in the queue is unfinished again.
LEMMA PanelCrashStep == ASSUME IInv, PanelCrash PROVE IInv'
<1>0. /\ TypeOK /\ Locks /\ Holders /\ TasksOlder /\ ClaimCopy /\ ClaimSettled /\ CountSettled
      /\ HistoryKept /\ AbsenceOwned /\ GoodAtRecord /\ KicksCount /\ NobodyIsZero /\ Coverage
  BY DEF IInv
<1>1. RevocationAssumption /\ Sorts
  BY <1>0, RevocationAssumption, TypeSorts
<1>i. /\ lock' = NoOne /\ wpc' = "idle" /\ claim' \in Claims /\ claim'.id = 0
      /\ claim'.kind = "rotate"
      /\ \A q \in Requests : pc'[q] = "idle" /\ id'[q] = 0
      /\ \A a \in Actors : ~attempt'[a].good
      /\ attempt' \in [Actors -> Attempts] /\ id' \in [Requests -> Ops \cup {0}]
      /\ op' \in [Requests -> {"rotate", "delete", "add"}]
      /\ pc' \in [Requests -> {"idle", "locked", "commit", "sync", "effects", "kick", "record"}]
  BY <1>0, GoneFacts DEF PanelCrash
<1>j. faults' \in 0 .. MaxFaults
  BY <1>0, <1>1 DEF PanelCrash, Fault, TypeOK, RevocationAssumption
<1>2. /\ lock' = NoOne /\ wpc' = "idle" /\ claim'.id = 0 /\ claim'.kind = "rotate"
      /\ \A q \in Requests : pc'[q] = "idle" /\ id'[q] = 0
      /\ \A a \in Actors : ~attempt'[a].good
      /\ gen' = gen /\ durable' = durable /\ history' = history /\ live' = live /\ task' = task
      /\ inflight' = inflight /\ sessions' = sessions /\ nextOp' = nextOp /\ rushed' = rushed
  BY <1>0, <1>1, <1>i DEF PanelCrash, accountVars, staticVars, queueVars, reqVars,
         workerVars, netVars
<1>3. TypeOK'
  BY <1>0, <1>2, <1>i, <1>j
     DEF TypeOK, PanelCrash, accountVars, staticVars, queueVars, reqVars, workerVars, netVars
<1>4. Locks'
  BY <1>0, <1>1, <1>2 DEF Locks, Sorts
<1>5. Holders'
  <2>1. ASSUME NEW q \in Requests, lock' = q PROVE Holder(q)'
    BY <1>0, <1>1, <1>2, <2>1 DEF Holders, Holder, Locks, ClaimCopy, SameTask, Sorts
  <2> QED
    BY <1>4, <2>1, LockedOut
<1>6. TasksOlder'
  BY <1>0, <1>1, <1>2 DEF TasksOlder, Holders, Holder, SameTask, Sorts
<1>7. ClaimCopy'
  BY <1>0, <1>1, <1>2 DEF ClaimCopy, TasksOlder, Locks, Holders, Holder, SameTask, Sorts
<1>8. ClaimSettled'
  BY <1>0, <1>1, <1>2 DEF ClaimSettled, ClaimCopy, Acting, Locks, Sorts
<1>9. CountSettled'
  <2> SUFFICES ASSUME NEW k \in live', task'[k].kind = "delete", task'[k].succ > 0,
                      NEW q \in Requests, id'[q] = k
               PROVE  gen' # task'[k].prev \/ ~task'[k].bound
    BY DEF CountSettled, Settled, Requested
  <2> QED
    BY <1>0, <1>1, <1>2 DEF CountSettled, Settled, Requested, TasksOlder, Locks, SameTask, Sorts
<1>10. HistoryKept'
  BY <1>0, <1>1, <1>2 DEF HistoryKept, Holders, Holder
<1>11. AbsenceOwned'
  <2> SUFFICES ASSUME gen' = 0, durable' # 0 \/ history' = "own" PROVE Unfinished'
    BY DEF AbsenceOwned
  <2>1. PICK k \in live : task[k].kind = "delete"
    BY <1>0, <1>2 DEF AbsenceOwned, Unfinished
  <2>2. k # 0 /\ k \in live' /\ task'[k].kind = "delete"
    BY <1>1, <1>2, <2>1 DEF Sorts
  <2>3. ~Handled(k)'
    BY <1>2, <2>2 DEF Handled, Acting, Requested
  <2> QED
    BY <2>2, <2>3 DEF Unfinished
<1>12. GoodAtRecord'
  BY <1>0, <1>1, <1>2 DEF GoodAtRecord, Actors, Sorts
<1>13. KicksCount'
  <2> SUFFICES ASSUME NEW k \in live' PROVE KicksOf(k)'
    BY DEF KicksCount
  <2>1. KicksOf(k) /\ k \in Ops
    BY <1>0, <1>1, <1>2 DEF KicksCount, Sorts
  <2>2. \A a \in Actors : GoodKick(a, k)' => GoodKick(a, k)
    BY <1>0, <1>1, <1>2 DEF GoodKick, On, Actors, GoodAtRecord, Sorts
  <2>3. (OneKick(k) => OneKick(k)') /\ (TwoKicks(k) => TwoKicks(k)') /\ task'[k].kicks = task[k].kicks
    BY <1>0, <1>1, <1>2, <2>1
       DEF OneKick, TwoKicks, NoOld, Committed, TasksOlder, Locks, SameTask, Sorts
  <2> QED
    BY <2>1, <2>2, <2>3 DEF KicksOf
<1>14. NobodyIsZero'
  BY <1>0, <1>1, <1>2 DEF NobodyIsZero
<1>15. Coverage'
  <2> SUFFICES ASSUME ~rushed', NEW g \in inflight' \cup sessions', g # gen' PROVE Covered(g)'
    BY DEF Coverage
  <2>1. PICK k \in live : Covers(k, g)
    BY <1>0, <1>1, <1>2 DEF Coverage, Covered
  <2>2. k \in live' /\ Covers(k, g)'
    BY <1>0, <1>1, <1>2, <2>1 DEF Covers, Committed, SameTask, Sorts
  <2> QED
    BY <2>2 DEF Covered
<1> QED
  BY <1>3, <1>4, <1>5, <1>6, <1>7, <1>8, <1>9, <1>10, <1>11, <1>12, <1>13, <1>14, <1>15
     DEF IInv

\* The host goes down: nobody is connected, and kicks for what was taken back do not count.
LEMMA HostCrashStep == ASSUME IInv, HostCrash PROVE IInv'
<1>0. /\ TypeOK /\ Locks /\ Holders /\ TasksOlder /\ ClaimCopy /\ ClaimSettled /\ CountSettled
      /\ HistoryKept /\ AbsenceOwned /\ GoodAtRecord /\ KicksCount /\ NobodyIsZero /\ Coverage
  BY DEF IInv
<1>1. RevocationAssumption /\ Sorts
  BY <1>0, RevocationAssumption, TypeSorts
<1>i. /\ lock' = NoOne /\ wpc' = "idle" /\ claim' \in Claims /\ claim'.id = 0
      /\ claim'.kind = "rotate"
      /\ \A q \in Requests : pc'[q] = "idle" /\ id'[q] = 0
      /\ \A a \in Actors : ~attempt'[a].good
      /\ attempt' \in [Actors -> Attempts] /\ id' \in [Requests -> Ops \cup {0}]
      /\ op' \in [Requests -> {"rotate", "delete", "add"}]
      /\ pc' \in [Requests -> {"idle", "locked", "commit", "sync", "effects", "kick", "record"}]
  BY <1>0, GoneFacts DEF HostCrash
<1>j. faults' \in 0 .. MaxFaults
  BY <1>0, <1>1 DEF HostCrash, Fault, TypeOK, RevocationAssumption
<1>e. /\ task \in [Ops -> Tasks]
      /\ task' = [k \in Ops |-> IF gen' = gen THEN task[k] ELSE [task[k] EXCEPT !.kicks = 0]]
  BY <1>0 DEF TypeOK, HostCrash
<1>f. task' \in [Ops -> Tasks]
  <2>1. ASSUME NEW x \in Tasks PROVE [x EXCEPT !.kicks = 0] \in Tasks
    BY DEF Tasks
  <2> QED
    BY <1>e, <2>1
<1>g. \A j \in Ops : /\ task'[j].kicks = IF gen' = gen THEN task[j].kicks ELSE 0
                     /\ task'[j].kind = task[j].kind /\ task'[j].prev = task[j].prev
                     /\ task'[j].succ = task[j].succ /\ task'[j].bound = task[j].bound
                     /\ task'[j].since = task[j].since
  BY <1>e DEF Tasks
<1>2. /\ lock' = NoOne /\ wpc' = "idle" /\ claim'.id = 0 /\ claim'.kind = "rotate"
      /\ \A q \in Requests : pc'[q] = "idle" /\ id'[q] = 0
      /\ \A a \in Actors : ~attempt'[a].good
      /\ (gen' = gen \/ gen' = durable) /\ durable' = gen'
      /\ history' = IF gen # 0 /\ gen' = 0 THEN "lost" ELSE history
      /\ inflight' = {} /\ sessions' = {}
      /\ \A j \in Ops : task'[j].kicks = IF gen' = gen THEN task[j].kicks ELSE 0
      /\ \A j \in Ops : /\ task'[j].kind = task[j].kind /\ task'[j].prev = task[j].prev /\ task'[j].succ = task[j].succ
                       /\ task'[j].bound = task[j].bound /\ task'[j].since = task[j].since
      /\ live' = live /\ nextOp' = nextOp /\ rushed' = rushed
  BY <1>0, <1>1, <1>g, <1>i DEF HostCrash, accountVars, staticVars, queueVars, reqVars,
         workerVars, netVars
<1>3. TypeOK'
  BY <1>0, <1>2, <1>f, <1>i, <1>j
     DEF TypeOK, HostCrash, accountVars, staticVars, queueVars, reqVars, workerVars, netVars
<1>4. Locks'
  BY <1>0, <1>1, <1>2 DEF Locks, Sorts
<1>5. Holders'
  <2>1. ASSUME NEW q \in Requests, lock' = q PROVE Holder(q)'
    BY <1>0, <1>1, <1>2, <2>1 DEF Holders, Holder, Locks, ClaimCopy, SameTask, Sorts
  <2> QED
    BY <1>4, <2>1, LockedOut
<1>6. TasksOlder'
  BY <1>0, <1>1, <1>2 DEF TasksOlder, Holders, Holder, SameTask, Sorts
<1>7. ClaimCopy'
  BY <1>0, <1>1, <1>2 DEF ClaimCopy, TasksOlder, Locks, Holders, Holder, SameTask, Sorts
<1>8. ClaimSettled'
  BY <1>0, <1>1, <1>2 DEF ClaimSettled, ClaimCopy, Acting, Locks, Sorts
<1>9. CountSettled'
  <2> SUFFICES ASSUME NEW k \in live', task'[k].kind = "delete", task'[k].succ > 0,
                      NEW q \in Requests, id'[q] = k
               PROVE  gen' # task'[k].prev \/ ~task'[k].bound
    BY DEF CountSettled, Settled, Requested
  <2> QED
    BY <1>0, <1>1, <1>2 DEF CountSettled, Settled, Requested, TasksOlder, Locks, SameTask, Sorts
<1>10. HistoryKept'
  BY <1>0, <1>1, <1>2 DEF HistoryKept, Holders, Holder
<1>11. AbsenceOwned'
  <2> SUFFICES ASSUME gen' = 0, durable' # 0 \/ history' = "own" PROVE Unfinished'
    BY DEF AbsenceOwned
  <2>1. PICK k \in live : task[k].kind = "delete"
    BY <1>0, <1>2 DEF AbsenceOwned, Unfinished
  <2>2. k # 0 /\ k \in live' /\ task'[k].kind = "delete"
    BY <1>1, <1>2, <2>1 DEF Sorts
  <2>3. ~Handled(k)'
    BY <1>2, <2>2 DEF Handled, Acting, Requested
  <2> QED
    BY <2>2, <2>3 DEF Unfinished
<1>12. GoodAtRecord'
  BY <1>0, <1>1, <1>2 DEF GoodAtRecord, Actors, Sorts
<1>13. KicksCount'
  <2> SUFFICES ASSUME NEW k \in live PROVE KicksOf(k)'
    BY <1>2 DEF KicksCount
  <2>1. KicksOf(k) /\ k \in Ops
    BY <1>0, <1>1 DEF KicksCount, Sorts
  <2>2. TwoKicks(k)' /\ \A a \in Actors : ~GoodKick(a, k)'
    BY <1>2 DEF TwoKicks, NoOld, GoodKick
  <2>3. task'[k].kicks > 0 => OneKick(k)'
    BY <1>2, <2>1 DEF KicksOf, OneKick, NoOld, Committed
  <2> QED
    BY <2>2, <2>3 DEF KicksOf
<1>14. NobodyIsZero'
  BY <1>0, <1>1, <1>2 DEF NobodyIsZero
<1>15. Coverage'
  <2> SUFFICES ASSUME ~rushed', NEW g \in inflight' \cup sessions', g # gen' PROVE Covered(g)'
    BY DEF Coverage
  <2>1. PICK k \in live : Covers(k, g)
    BY <1>0, <1>1, <1>2 DEF Coverage, Covered
  <2>2. k \in live' /\ Covers(k, g)'
    BY <1>0, <1>1, <1>2, <2>1 DEF Covers, Committed, SameTask, Sorts
  <2> QED
    BY <2>2 DEF Covered
<1> QED
  BY <1>3, <1>4, <1>5, <1>6, <1>7, <1>8, <1>9, <1>10, <1>11, <1>12, <1>13, <1>14, <1>15
     DEF IInv

-----------------------------------------------------------------------------
(* The theorems.                                                           *)

\* At the start nothing is queued and nobody is connected.
LEMMA InitIInv == Init => IInv
<1> SUFFICES ASSUME Init PROVE IInv
  OBVIOUS
<1>0. MaxOps \in Nat \ {0} /\ MaxTasks \in Nat /\ MaxFaults \in Nat /\ NoOne \notin Requests
  BY RevocationAssumption DEF RevocationAssumption
<1>1. TypeOK
  <2>1. NoTask \in Tasks
    BY <1>0 DEF NoTask, FreshTask, Tasks, Gens
  <2>2. NoClaim \in Claims /\ NoAttempt \in Attempts
    BY <1>0 DEF NoClaim, Claims, NoAttempt, Attempts, Gens
  <2>3. task \in [Ops -> Tasks] /\ claim \in Claims /\ attempt \in [Actors -> Attempts]
    BY <2>1, <2>2 DEF Init
  <2>4. Cardinality(live) <= MaxTasks
    BY <1>0, FS_EmptySet DEF Init
  <2>5. /\ gen \in Gens /\ durable \in Gens /\ static \in Gens /\ nextOp \in 2 .. MaxOps + 1
        /\ faults \in 0 .. MaxFaults
    BY <1>0 DEF Init, Gens
  <2>6. /\ pc \in [Requests -> {"idle", "locked", "commit", "sync", "effects", "kick", "record"}]
        /\ op \in [Requests -> {"rotate", "delete", "add"}] /\ id \in [Requests -> Ops \cup {0}]
    BY DEF Init
  <2>7. /\ history \in {"none", "own", "lost"} /\ paused \in BOOLEAN /\ live \subseteq Ops
        /\ lock \in Requests \cup {NoOne} /\ wpc = "idle" /\ inflight = {} /\ sessions = {}
        /\ rushed \in BOOLEAN
    BY DEF Init
  <2> QED
    BY <2>3, <2>4, <2>5, <2>6, <2>7 DEF TypeOK
<1>2. /\ gen = 1 /\ durable = 1 /\ history = "own" /\ nextOp = 2 /\ live = {} /\ lock = NoOne
      /\ \A r \in Requests : pc[r] = "idle" /\ id[r] = 0
      /\ wpc = "idle" /\ claim.id = 0 /\ inflight = {} /\ sessions = {}
      /\ \A a \in Actors : ~attempt[a].good
  BY DEF Init, NoClaim, NoAttempt
<1>3. Locks
  BY <1>0, <1>2 DEF Locks
<1>4. Holders
  BY <1>2 DEF Holders, Holder
<1>5. TasksOlder /\ CountSettled /\ KicksCount
  BY <1>2 DEF TasksOlder, CountSettled, KicksCount
<1>6. ClaimCopy
  BY <1>2 DEF ClaimCopy
<1>7. ClaimSettled /\ HistoryKept /\ AbsenceOwned /\ NobodyIsZero /\ Coverage
  BY <1>2 DEF ClaimSettled, HistoryKept, AbsenceOwned, NobodyIsZero, Coverage
<1>8. GoodAtRecord
  BY <1>2 DEF GoodAtRecord, Actors
<1> QED
  BY <1>1, <1>3, <1>4, <1>5, <1>6, <1>7, <1>8 DEF IInv

\* A failed preparation may have left the task behind.
LEMMA PrepareFailsStep == ASSUME IInv, NEW r \in Requests, PrepareFails(r) PROVE IInv'
<1>1. CASE UNCHANGED queueVars
  BY <1>1, PrepareFailsKept
<1>2. CASE Cardinality(live) < MaxTasks /\ AddTask(id[r], op[r])
  BY <1>2, PrepareFailsAdded
<1> QED
  BY <1>1, <1>2 DEF PrepareFails

\* The worker redoes a deletion, or lets it be.
LEMMA WorkerDeleteStep == ASSUME IInv, WorkerDelete PROVE IInv'
  BY WorkerDeleteSuperseded, WorkerDeleteRedone

\* The worker's save or purge raises.
LEMMA WorkerFailsStep == ASSUME IInv, WorkerFails PROVE IInv'
<1>1. CASE gen' = gen /\ durable' = durable
  BY <1>1, WorkerFailsKept
<1>2. CASE claim.kind = "delete" /\ ~Superseded /\ gen' = 0 /\ durable' \in {durable, 0}
  BY <1>2, WorkerFailsDeleted
<1> QED
  BY <1>1, <1>2 DEF WorkerFails, SaveUsers, SaveUsersUncertain

\* Every step keeps the invariant.
LEMMA NextIInv == ASSUME IInv, [Next]_vars PROVE IInv'
<1>1. ASSUME NEW r \in Requests, Begin(r) \/ RequestStep(r) PROVE IInv'
  BY <1>1, BeginStep, PrepareStep, PrepareFailsStep, CommitStep, CommitUncertainStep,
     CommitFailsStep, SyncStep, EffectsStep, RequestKickStep, RequestRecordStep DEF RequestStep
<1>2. ASSUME NEW k \in Ops, Claim(k) \/ Elapse(k) \/ Expire(k) PROVE IInv'
  BY <1>2, ClaimStep, ElapseStep, ExpireStep
<1>3. CASE WorkerStep
  BY <1>3, WorkerDeleteStep, WorkerRotateStep, WorkerFailsStep, WorkerReleaseStep,
     WorkerDiscardStep, WorkerEffectsStep, WorkerKickStep, WorkerRecordStep DEF WorkerStep
<1>4. CASE Authenticate \/ (\E g \in Gens \ {0} : Connect(g))
  BY <1>4, AuthenticateStep, ConnectStep
<1>5. CASE Edit \/ LimiterTick \/ PanelCrash \/ HostCrash \/ UNCHANGED vars
  BY <1>5, EditStep, LimiterStep, PanelCrashStep, HostCrashStep, StutterStep
<1> QED
  BY <1>1, <1>2, <1>3, <1>4, <1>5 DEF Next

\* For any number of requests, operations, tasks and failures: usage_lock orders the
\* commits, the worker's copy of a task is the task, no deletion is counted as done
\* before it is settled, an unfinished absence has an owner in the queue, and every
\* replaced generation in use has a task that will still kick it.
THEOREM QueueInductive == Spec => []IInv
<1>1. Init => IInv
  BY InitIInv
<1>2. IInv /\ [Next]_vars => IInv'
  BY NextIInv
<1> QED
  BY <1>1, <1>2, PTL DEF Spec

\* Once the queue is empty nobody is connected, or about to be, with a credential that
\* was rotated or deleted (unless a task was dropped without its two spaced kicks):
\* while one is, Coverage has a task in the queue.
THEOREM CredentialsAreRevoked == Spec => []RevokedWhenDone
<1>1. IInv => RevokedWhenDone
  BY DEF IInv, Coverage, Covered, RevokedWhenDone, Stale
<1> QED
  BY <1>1, QueueInductive, PTL

\* Accounts and their usage history go together: HistoryKept never purges before the
\* absence is durable, AbsenceOwned keeps a deletion queued until both are done.
THEOREM HistoryAlwaysFollows == Spec => []HistoryFollowsAccount
<1>1. IInv => HistoryFollowsAccount
  BY DEF IInv, HistoryKept, AbsenceOwned, Unfinished, HistoryFollowsAccount
<1> QED
  BY <1>1, QueueInductive, PTL

\* Only commits, the worker's deletion and a host crash change the generation.
LEMMA WhoReplaces ==
  ASSUME [Next]_vars, gen' # gen
  PROVE  \/ \E r \in Requests : Commit(r) \/ CommitUncertain(r)
         \/ WorkerDelete \/ WorkerFails \/ HostCrash
<1>1. ASSUME NEW r \in Requests, Begin(r) \/ RequestStep(r) PROVE Commit(r) \/ CommitUncertain(r)
  BY <1>1 DEF RequestStep, Begin, Prepare, PrepareFails, CommitFails, Sync, Effects,
              RequestKick, RequestRecord, accountVars
<1>2. ASSUME NEW k \in Ops, Claim(k) \/ Elapse(k) \/ Expire(k) PROVE FALSE
  BY <1>2 DEF Claim, Elapse, Expire, accountVars
<1>3. WorkerStep => WorkerDelete \/ WorkerFails
  BY DEF WorkerStep, WorkerRotate, WorkerRelease, WorkerDiscard, WorkerEffects, WorkerKick,
         WorkerRecord, accountVars
<1>4. ~(Authenticate \/ (\E g \in Gens \ {0} : Connect(g)) \/ Edit \/ LimiterTick \/ PanelCrash)
  BY DEF Authenticate, Connect, Edit, LimiterTick, PanelCrash, accountVars
<1>5. ~UNCHANGED vars
  BY DEF vars, accountVars
<1> QED
  BY <1>1, <1>2, <1>3, <1>4, <1>5 DEF Next

\* The write-ahead rule: a request that commits has prepared its task under the same
\* usage_lock (Holders), and the worker redoes a deletion only while its task is in the
\* queue and bound to the visible generation (ClaimSettled).
THEOREM CommitsAreCovered == Spec => CommitIsCovered
<1> DEFINE Rule == HostCrash \/ gen = 0 \/ gen' = gen
                   \/ \E k \in live : task[k].prev = gen
                        /\ IF task[k].kind = "delete" THEN gen' = 0 ELSE gen' = k
<1>1. ASSUME IInv, [Next]_vars PROVE Rule
  <2> SUFFICES ASSUME gen # 0, gen' # gen, ~HostCrash
               PROVE  \E k \in live : task[k].prev = gen
                        /\ IF task[k].kind = "delete" THEN gen' = 0 ELSE gen' = k
    OBVIOUS
  <2>0. TypeOK /\ Locks /\ Holders /\ ClaimCopy /\ ClaimSettled /\ Sorts
    BY <1>1, TypeSorts DEF IInv
  <2>1. ASSUME NEW r \in Requests, Commit(r) \/ CommitUncertain(r)
        PROVE  \E k \in live : task[k].prev = gen
                 /\ IF task[k].kind = "delete" THEN gen' = 0 ELSE gen' = k
    <3>1. pc[r] = "commit" /\ gen' = IF op[r] = "delete" THEN 0 ELSE id[r]
      BY <2>1 DEF Commit, CommitUncertain, SaveUsers, SaveUsersUncertain, Target
    <3>2. id[r] \in live /\ task[id[r]].prev = gen /\ task[id[r]].kind = op[r]
      BY <2>0, <3>1 DEF Holders, Holder
    <3> QED
      BY <3>1, <3>2
  <2>2. ASSUME WorkerDelete \/ WorkerFails
        PROVE  \E k \in live : task[k].prev = gen
                 /\ IF task[k].kind = "delete" THEN gen' = 0 ELSE gen' = k
    <3>1. wpc = "claimed" /\ claim.kind = "delete" /\ ~Superseded /\ gen' = 0
      BY <2>2 DEF WorkerDelete, WorkerFails, SaveUsers, SaveUsersUncertain, accountVars
    <3>2. claim.id # 0 /\ gen = claim.prev /\ claim.bound
      BY <2>0, <3>1 DEF Superseded, ClaimCopy
    <3>3. claim.id \in live
      BY <2>0, <3>1, <3>2 DEF ClaimSettled
    <3> QED
      BY <2>0, <3>1, <3>2, <3>3 DEF ClaimCopy
  <2> QED
    BY <1>1, <2>1, <2>2, WhoReplaces
<1>2. IInv /\ [Next]_vars => [Rule]_vars
  BY <1>1
<1> QED
  BY <1>2, QueueInductive, PTL DEF Spec, CommitIsCovered

\* Only records and the worker's discard take a task out of the queue.
LEMMA WhoDrops ==
  ASSUME [Next]_vars, NEW k \in live, k \notin live'
  PROVE  (\E r \in Requests : RequestRecord(r)) \/ WorkerRecord \/ WorkerDiscard
<1>1. ASSUME NEW r \in Requests, Begin(r) \/ RequestStep(r) PROVE RequestRecord(r)
  BY <1>1 DEF RequestStep, Begin, Prepare, PrepareFails, AddTask, Commit, CommitUncertain,
              CommitFails, Sync, Effects, RequestKick, queueVars
<1>2. ASSUME NEW j \in Ops, Claim(j) \/ Elapse(j) \/ Expire(j) PROVE FALSE
  BY <1>2 DEF Claim, Elapse, Expire
<1>3. WorkerStep => WorkerRecord \/ WorkerDiscard
  BY DEF WorkerStep, WorkerDelete, WorkerFails, WorkerRotate, WorkerRelease, WorkerEffects,
         WorkerKick, queueVars
<1>4. ~(Authenticate \/ (\E g \in Gens \ {0} : Connect(g)) \/ Edit \/ LimiterTick)
  BY DEF Authenticate, Connect, Edit, LimiterTick, queueVars
<1>5. ~(PanelCrash \/ HostCrash \/ UNCHANGED vars)
  BY DEF PanelCrash, HostCrash, vars, queueVars
<1> QED
  BY <1>1, <1>2, <1>3, <1>4, <1>5 DEF Next

\* A deletion leaves the queue with its account still there only after an edit, a
\* rotation or a re-creation: it is dropped on the second recorded kick, and neither the
\* request (CountSettled) nor the worker (ClaimSettled) counts one before it is settled.
THEOREM DeletionsAreRedone == Spec => DeletionRedone
<1> DEFINE Rule == \A k \in live \ live' :
                     task[k].kind = "delete" /\ gen' = task[k].prev => ~task[k].bound
<1>1. ASSUME IInv, [Next]_vars PROVE Rule
  <2> SUFFICES ASSUME NEW k \in live, k \notin live', task[k].kind = "delete", gen' = task[k].prev
               PROVE  ~task[k].bound
    OBVIOUS
  <2>0. TypeOK /\ Locks /\ ClaimCopy /\ ClaimSettled /\ CountSettled /\ Sorts
    BY <1>1, TypeSorts DEF IInv
  <2>1. ASSUME NEW r \in Requests, RequestRecord(r) PROVE ~task[k].bound
    <3>1. /\ CompleteAttempt(id[r], r) \/ UNCHANGED <<queueVars, rushed>>
          /\ gen' = gen /\ r \in Actors /\ pc[r] = "record"
      BY <2>1 DEF RequestRecord, accountVars, Actors
    <3>2. id[r] \in Ops
      BY <2>0, <3>1 DEF Locks, Sorts
    <3>3. k = id[r] /\ task[k].succ > 0
      BY <2>0, <3>1, <3>2, RecordFacts
    <3>4. Settled(k)
      BY <2>0, <3>3 DEF CountSettled, Requested
    <3> QED
      BY <3>1, <3>4 DEF Settled
  <2>2. ASSUME WorkerRecord PROVE ~task[k].bound
    <3>1. /\ CompleteAttempt(claim.id, Worker) \/ UNCHANGED <<queueVars, rushed>>
          /\ gen' = gen /\ Worker \in Actors /\ wpc = "record"
      BY <2>2 DEF WorkerRecord, accountVars, Actors
    <3>2. claim.id \in Ops /\ claim.id # 0
      BY <2>0, <3>1 DEF ClaimCopy, Sorts
    <3>3. k = claim.id
      BY <2>0, <3>1, <3>2, RecordFacts
    <3> QED
      BY <2>0, <3>1, <3>2, <3>3 DEF ClaimSettled, ClaimCopy, Acting
  <2>3. ASSUME WorkerDiscard PROVE ~task[k].bound
    <3>1. wpc = "discard" /\ k = claim.id
      BY <2>3 DEF WorkerDiscard, DropTask, queueVars
    <3> QED
      BY <2>0, <3>1 DEF ClaimCopy
  <2> QED
    BY <1>1, <2>1, <2>2, <2>3, WhoDrops
<1>2. IInv /\ [Next]_vars => [Rule]_vars
  BY <1>1
<1> QED
  BY <1>2, QueueInductive, PTL DEF Spec, DeletionRedone

=============================================================================
