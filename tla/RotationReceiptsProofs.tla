------------------------ MODULE RotationReceiptsProofs ------------------------
(***************************************************************************)
(* Proofs about the recoverable rotation: it implements the idempotent     *)
(* rotation, the token in force has its revocation intent, and a token     *)
(* the browser was not shown can be asked for again.                       *)
(*                                                                         *)
(* Every action is first shown to be a step of one of a few kinds, with    *)
(* its effect on every request and every thread; the invariants are then   *)
(* shown for the kinds.                                                    *)
(***************************************************************************)
EXTENDS RotationReceipts, CommonLemmas

-----------------------------------------------------------------------------
(* Tokens, receipts and threads                                            *)

\* The states of a thread under the lock, and of one that has committed.
Held == {"queue", "commit"}
Past == {"mint", "bind", "answer"}

\* A receipt of a page with token p, when n tokens were made.
OfPage(rec, p, n) ==
  rec = NoReceipt \/ (rec.old = p /\ p >= 1 /\ rec.new > p /\ rec.new <= n)

\* A thread at work on a page with token p, when n tokens and k sessions were made.
AtWork(a, p, n, k) ==
  /\ a.req \in Requests /\ p # 0 /\ a.sid \in 1..k /\ OfPage(a.seen, p, n)
  /\ a.minted # 0 => a.minted \in 1..k /\ a.pc \in {"bind", "answer"}
  /\ a.pc = "bind" => a.minted # 0
  /\ a.pc \in {"lookup", "lock"} => a.new = 0
  /\ a.pc \in Held => a.seen # NoReceipt /\ a.new = a.seen.new
  /\ a.pc \in Held \cup Past => a.new > p /\ a.new <= n

\* Thread a, when the pages have the tokens P.
ThreadOK(a, P, n, k) == IF a.pc = "idle" THEN a = Idle ELSE AtWork(a, P[a.req], n, k)

\* Every thread is idle or at work on a page that was rendered.
ThreadsOK == \A t \in Threads : ThreadOK(at[t], posted, next, Len(sessions))

\* usage_lock is held by whoever is between the receipt and the commit.
LockOK == \A t \in Threads : at[t].pc \in Held <=> lock = t

\* Tokens and sessions are numbered as they are made.
Ordered == /\ durGen <= gen /\ gen <= next /\ cookie <= Len(sessions)
           /\ \A i \in 1..Len(sessions) : sessions[i] <= next

\* What a request may have issued, and the intent it may have in the queue.
IssuedOK(i, p, n) == i <= n /\ (i # 0 => i > p /\ p # 0)
TaskOK(k, p, n) == k = NoTask \/ (k.prev = p /\ p >= 1 /\ k.target > p /\ k.target <= n)

\* What the files hold of a request is of its own page, and was made.
RequestsOK ==
  \A r \in Requests :
     /\ posted[r] <= next /\ IssuedOK(issued[r], posted[r], next)
     /\ OfPage(receipts[r], posted[r], next) /\ OfPage(durReceipts[r], posted[r], next)
     /\ TaskOK(tasks[r], posted[r], next)

\* The shape of every reachable state.
Basics == TypeOK /\ ThreadsOK /\ LockOK /\ Ordered /\ RequestsOK

-----------------------------------------------------------------------------

\* The empty receipt, the empty intent and the idle thread have their types.
LEMMA NoReceiptType ==
  /\ NoReceipt \in Receipts /\ NoReceipt.old = 0 /\ NoReceipt.new = 0
  /\ NoReceipt.sessions = <<>> /\ Len(NoReceipt.sessions) = 0
  /\ \A s : ~Bound(NoReceipt, s)
  /\ Idle \in ThreadStates /\ NoTask \in [prev : Gens, target : Gens]
<1>1. 0 \in Gens /\ 0 \in Sids
  BY ReceiptAssumption DEF Gens, Sids
<1>2. <<>> \in Seq(Sids) /\ Len(<<>>) = 0
  OBVIOUS
<1>3. NoReceipt \in Receipts
  BY <1>1, <1>2 DEF NoReceipt, Receipts
<1>4. \A s : ~Bound(NoReceipt, s)
  BY DEF Bound, ToSet, NoReceipt
<1> QED
  BY <1>1, <1>2, <1>3, <1>4 DEF NoReceipt, Idle, ThreadStates, NoTask

\* What bind_replacement_session makes of a receipt.
LEMMA WithSessionFacts ==
  ASSUME NEW rec \in Receipts, NEW m \in Sids, Len(rec.sessions) <= KeepSessions,
         NEW w, w = WithSession(rec, m)
  PROVE  /\ w \in Receipts /\ w.old = rec.old /\ w.new = rec.new
         /\ Len(w.sessions) <= KeepSessions /\ Len(w.sessions) <= Len(rec.sessions) + 1
         /\ \A s : Bound(rec, s) => Bound(w, s) \/ Len(rec.sessions) >= KeepSessions
<1> DEFINE q == rec.sessions
           z == Append(q, m)
<1>0. KeepSessions \in Nat /\ KeepSessions >= 1
  BY ReceiptAssumption
<1>1. q \in Seq(Sids) /\ z \in Seq(Sids) /\ Len(z) = Len(q) + 1 /\ Len(q) \in Nat
  BY DEF Receipts
<1>2. w = [rec EXCEPT !.sessions = LastSessions(z)]
  BY DEF WithSession
<1>3. LastSessions(z) \in Seq(Sids) /\ Len(LastSessions(z)) <= KeepSessions
      /\ Len(LastSessions(z)) <= Len(q) + 1
  <2>1. CASE Len(z) <= KeepSessions
    BY <1>0, <1>1, <2>1 DEF LastSessions
  <2>2. CASE Len(z) > KeepSessions
    <3>1. LastSessions(z) = SubSeq(z, Len(z) - KeepSessions + 1, Len(z))
      BY <1>0, <1>1, <2>2 DEF LastSessions
    <3> HIDE DEF z
    <3> QED
      BY <3>1, <1>0, <1>1, <2>2
  <2> QED
    BY <1>0, <1>1, <2>1, <2>2
<1>4. w \in Receipts /\ w.old = rec.old /\ w.new = rec.new /\ w.sessions = LastSessions(z)
  <2> HIDE DEF z
  <2> QED
    BY <1>2, <1>3 DEF Receipts
<1>5. ASSUME NEW s, Bound(rec, s), Len(q) < KeepSessions
      PROVE  Bound(w, s)
  <2>1. w.sessions = z
    <3>1. Len(z) <= KeepSessions
      BY <1>0, <1>1, <1>5
    <3>2. LastSessions(z) = z
      BY <3>1 DEF LastSessions
    <3> QED
      BY <3>2, <1>4
  <2>2. PICK i \in 1..Len(q) : q[i] = s
    BY <1>1, <1>5 DEF Bound, ToSet
  <2>3. z[i] = s /\ i \in 1..Len(z) /\ DOMAIN z = 1..Len(z)
    BY <1>1, <2>2
  <2> HIDE DEF z
  <2> QED
    BY <2>1, <2>3 DEF Bound, ToSet
<1> QED
  BY <1>0, <1>1, <1>3, <1>4, <1>5

-----------------------------------------------------------------------------
(* The steps, by what they do to each request and each thread.             *)

\* Thread t goes to state a, the others stay; the same for the receipts.
Moves(t, a) == at'[t] = a /\ \A u \in Threads : u # t => at'[u] = at[u]

Stores(r, rec) == receipts'[r] = rec /\ \A q \in Requests : q # r => receipts'[q] = receipts[q]

\* A step of a page, of the worker or of the administrator.
Rendered(r) ==
  /\ posted[r] = 0 /\ posted'[r] = gen
  /\ \A q \in Requests : q # r => posted'[q] = posted[q]
  /\ UNCHANGED <<gen, durGen, receipts, durReceipts, tasks, doomed, sessions, lock, at, cookie,
                 next, issued, told, expired, revoked, bound, crossed, late>>

\* The receipt of r expires (Expire).
Expired(r) ==
  /\ r \notin expired /\ Stores(r, NoReceipt) /\ durReceipts' = receipts'
  /\ expired' = expired \cup {r}
  /\ issued'[r] = (IF gen <= posted[r] THEN 0 ELSE issued[r])
  /\ \A q \in Requests : q # r => issued'[q] = issued[q]
  /\ UNCHANGED <<gen, durGen, tasks, doomed, sessions, lock, at, cookie, posted, next, told,
                 revoked, bound, crossed, late>>

\* An intent leaves the queue, or is marked to leave it.
Removed(r) ==
  /\ tasks'[r] = NoTask /\ \A q \in Requests : q # r => tasks'[q] = tasks[q]
  /\ \/ tasks[r].target = gen /\ lock = NoOne /\ revoked' = revoked \cup {gen} /\ UNCHANGED doomed
     \/ doomed = r /\ doomed' = NoOne /\ UNCHANGED revoked
  /\ UNCHANGED <<gen, durGen, receipts, durReceipts, sessions, lock, at, cookie, posted, next,
                 issued, told, expired, bound, crossed, late>>

\* The worker decides to discard an intent (TaskJudged).
Judged(r) ==
  /\ doomed' = r /\ tasks[r] # NoTask /\ gen # tasks[r].target
  /\ gen = tasks[r].prev => r \in expired
  /\ late' = IF gen < tasks[r].prev THEN late \cup {r} ELSE late
  /\ UNCHANGED <<gen, durGen, receipts, durReceipts, tasks, sessions, lock, at, cookie, posted,
                 next, issued, told, expired, revoked, bound, crossed>>

\* Another session for the browser (SignIn).
SignsIn ==
  /\ Len(sessions') = Len(sessions) + 1 /\ cookie' = Len(sessions')
  /\ sessions'[Len(sessions) + 1] \in {Password, gen}
  /\ \A i \in 1..Len(sessions) : sessions'[i] = sessions[i]
  /\ crossed \subseteq crossed' /\ \A r \in Requests : posted[r] # 0 => r \in crossed'
  /\ UNCHANGED <<gen, durGen, receipts, durReceipts, tasks, doomed, lock, at, posted, next,
                 issued, told, expired, revoked, bound, late>>

\* An administrator's rotation (AdminRotates).
Overruled ==
  /\ lock = NoOne /\ next' = next + 1 /\ gen' = next + 1 /\ durGen' = next + 1
  /\ UNCHANGED <<receipts, durReceipts, tasks, doomed, sessions, lock, at, cookie, posted,
                 issued, told, expired, revoked, bound, crossed, late>>

\* The panel dies; with the host, also what was not durable.
Dies ==
  /\ \A t \in Threads : at'[t] = Idle
  /\ lock' = NoOne /\ doomed' = NoOne
  /\ UNCHANGED <<durGen, durReceipts, tasks, sessions, cookie, posted, next, told, expired,
                 bound, crossed, late>>
Restarts == Dies /\ UNCHANGED <<gen, receipts, issued, revoked>>
Reboots ==
  /\ Dies /\ gen' = durGen /\ receipts' = durReceipts /\ revoked' = revoked \cup {durGen}
  /\ \A r \in Requests : issued'[r] = IF posted[r] >= durGen /\ durReceipts[r].new # issued[r]
                                        THEN 0 ELSE issued[r]

\* A thread begins, goes on, or ends without a trace.
Begins(t, r) ==
  /\ at[t] = Idle /\ posted[r] # 0
  /\ Moves(t, [pc |-> "lookup", req |-> r, sid |-> cookie, seen |-> NoReceipt, new |-> 0,
               minted |-> 0])
  /\ crossed \subseteq crossed'
  /\ \A u \in Threads : at[u].req \notin {r, NoOne} => r \in crossed' /\ at[u].req \in crossed'
  /\ UNCHANGED <<gen, durGen, receipts, durReceipts, tasks, doomed, sessions, lock, cookie,
                 posted, next, issued, told, expired, revoked, bound, late>>

\* The first lookup finds rec.
Looks(t, rec) ==
  /\ at[t].pc = "lookup" /\ rec \in {NoReceipt, receipts[at[t].req]}
  /\ Moves(t, [at[t] EXCEPT !.seen = rec, !.pc = "lock"])
  /\ UNCHANGED <<gen, durGen, receipts, durReceipts, tasks, doomed, sessions, lock, cookie,
                 posted, next, issued, told, expired, revoked, bound, crossed, late>>

\* A mint that failed goes on to the answer.
Skips(t) ==
  /\ at[t].pc = "mint"
  /\ Moves(t, [at[t] EXCEPT !.pc = "answer"])
  /\ UNCHANGED <<gen, durGen, receipts, durReceipts, tasks, doomed, sessions, lock, cookie,
                 posted, next, issued, told, expired, revoked, bound, crossed, late>>

\* A thread ends: refused, failed or its answer lost.
Ends(t) ==
  /\ at[t].pc # "idle" /\ Moves(t, Idle) /\ next <= next'
  /\ lock' = IF lock = t THEN NoOne ELSE lock
  /\ UNCHANGED <<gen, durGen, receipts, durReceipts, tasks, doomed, sessions, cookie,
                 posted, issued, told, expired, revoked, bound, crossed, late>>

\* The receipt p that thread t makes or finds for request r.
Preparing(t, r, p) ==
  /\ at[t].pc = "lock" /\ at[t].req = r /\ lock = NoOne /\ next <= next'
  /\ p # NoReceipt /\ OfPage(p, posted[r], next') /\ Bound(p, at[t].sid)
  /\ IF receipts[r] # NoReceipt THEN p = receipts[r] ELSE Len(p.sessions) <= 1
  /\ \/ p.new \in {at[t].seen.new, receipts[r].new}
     \/ p.new = next + 1 /\ next' = next + 1
  /\ Stores(r, p)
  /\ UNCHANGED <<gen, durGen, tasks, doomed, sessions, cookie, posted, issued, told, expired,
                 revoked, bound, crossed, late>>
Prepares(t, r, p) ==
  /\ Preparing(t, r, p) /\ durReceipts' = receipts' /\ lock' = t
  /\ Moves(t, [at[t] EXCEPT !.seen = p, !.new = p.new, !.pc = "queue"])
PreparesInVain(t, r, p) == Preparing(t, r, p) /\ UNCHANGED <<durReceipts, lock>> /\ Moves(t, Idle)

\* The intent is written, and the thread goes on or not.
Queues(t, r) ==
  /\ at[t].pc = "queue" /\ at[t].req = r
  /\ tasks[r] \in {NoTask, tasks'[r]} /\ tasks'[r] = [prev |-> at[t].seen.old, target |-> at[t].new]
  /\ \A q \in Requests : q # r => tasks'[q] = tasks[q]
  /\ \/ Moves(t, [at[t] EXCEPT !.pc = "commit"]) /\ UNCHANGED lock
     \/ Moves(t, Idle) /\ lock' = NoOne
  /\ UNCHANGED <<gen, durGen, receipts, durReceipts, doomed, sessions, cookie, posted, next,
                 issued, told, expired, revoked, bound, crossed, late>>

\* The token is committed, durably or not.
Commits(t, r) ==
  /\ at[t].pc = "commit" /\ at[t].req = r /\ CanCommit(t) /\ lock' = NoOne
  /\ gen' = at[t].new /\ durGen' \in {durGen, at[t].new}
  /\ issued'[r] = at[t].new /\ \A q \in Requests : q # r => issued'[q] = issued[q]
  /\ Moves(t, [at[t] EXCEPT !.pc = "mint"])
  /\ late' = IF gen' # gen /\ r \in expired THEN late \cup {r} ELSE late
  /\ UNCHANGED <<receipts, durReceipts, tasks, doomed, sessions, cookie, posted, next, told,
                 expired, revoked, bound, crossed>>

\* The rotation gives up: it was overtaken.
Yields(t, r) ==
  /\ at[t].pc = "commit" /\ at[t].req = r /\ ~CanCommit(t) /\ lock' = NoOne /\ Moves(t, Idle)
  /\ Stores(r, NoReceipt) /\ durReceipts' = receipts'
  /\ tasks'[r] = NoTask /\ \A q \in Requests : q # r => tasks'[q] = tasks[q]
  /\ issued'[r] = (IF gen < posted[r] THEN 0 ELSE issued[r])
  /\ \A q \in Requests : q # r => issued'[q] = issued[q]
  /\ UNCHANGED <<gen, durGen, doomed, sessions, cookie, posted, next, told, expired, revoked,
                 bound, crossed, late>>

\* A session is minted for the token in force.
Mints(t) ==
  /\ at[t].pc = "mint" /\ gen = at[t].new
  /\ Len(sessions') = Len(sessions) + 1 /\ sessions'[Len(sessions) + 1] = gen
  /\ \A i \in 1..Len(sessions) : sessions'[i] = sessions[i]
  /\ Moves(t, [at[t] EXCEPT !.seen = NoReceipt, !.minted = Len(sessions) + 1, !.pc = "bind"])
  /\ UNCHANGED <<gen, durGen, receipts, durReceipts, tasks, doomed, lock, cookie, posted, next,
                 issued, told, expired, revoked, bound, crossed, late>>

\* The receipt is bound to one more session, w; durably only if the cookie is sent.
Binds(t, r, w) ==
  /\ at[t].pc = "bind" /\ at[t].req = r /\ receipts[r] # NoReceipt
  /\ w = WithSession(receipts[r], at[t].minted) /\ Stores(r, w)
  /\ bound'[r] = bound[r] + 1 /\ \A q \in Requests : q # r => bound'[q] = bound[q]
  /\ \/ durReceipts' = receipts' /\ Moves(t, [at[t] EXCEPT !.pc = "answer"])
     \/ UNCHANGED durReceipts /\ Moves(t, [at[t] EXCEPT !.minted = 0, !.pc = "answer"])
  /\ UNCHANGED <<gen, durGen, tasks, doomed, sessions, lock, cookie, posted, next, issued, told,
                 expired, revoked, crossed, late>>

\* The session could not be bound: the answer will be a page with the token.
BindsNothing(t) ==
  /\ at[t].pc = "bind" /\ Moves(t, [at[t] EXCEPT !.minted = 0, !.pc = "answer"])
  /\ UNCHANGED <<gen, durGen, receipts, durReceipts, tasks, doomed, sessions, lock, cookie,
                 posted, next, issued, told, expired, revoked, bound, crossed, late>>

\* The answer arrives.
Arrives(t, r) ==
  /\ at[t].pc = "answer" /\ at[t].req = r /\ told' = told \cup {<<r, at[t].new>>}
  /\ cookie' = (IF at[t].minted # 0 THEN at[t].minted ELSE cookie) /\ Moves(t, Idle)
  /\ UNCHANGED <<gen, durGen, receipts, durReceipts, tasks, doomed, sessions, lock, posted,
                 next, issued, expired, revoked, bound, crossed, late>>

\* Nothing of all this changes.
Rests == UNCHANGED <<gen, durGen, receipts, durReceipts, tasks, doomed, sessions, lock, at, cookie,
                     posted, next, issued, told, expired, revoked, bound, crossed, late>>

\* Every kind of step.
ThreadStep(t) ==
  \/ \E r \in Requests : Begins(t, r) \/ Queues(t, r) \/ Commits(t, r) \/ Yields(t, r) \/ Arrives(t, r)
  \/ \E r \in Requests, p \in Receipts :
        Prepares(t, r, p) \/ PreparesInVain(t, r, p) \/ Binds(t, r, p)
  \/ \E rec \in Receipts : Looks(t, rec)
  \/ Mints(t) \/ Skips(t) \/ BindsNothing(t) \/ Ends(t)
OtherStep ==
  \/ \E r \in Requests : Rendered(r) \/ Expired(r) \/ Removed(r) \/ Judged(r)
  \/ Overruled \/ Restarts \/ Reboots \/ SignsIn \/ Rests
Step == OtherStep \/ \E t \in Threads : ThreadStep(t)

-----------------------------------------------------------------------------
(* Every action is a step of one kind                                      *)

\* The types of a thread's fields.
LEMMA ThreadTypes ==
  ASSUME TypeOK, NEW t \in Threads
  PROVE  /\ at[t] \in ThreadStates
         /\ at[t].req \in Requests \cup {NoOne} /\ at[t].sid \in Sids /\ at[t].seen \in Receipts
         /\ at[t].new \in Gens /\ at[t].minted \in Sids
         /\ at[t].pc \in {"idle", "lookup", "lock", "queue", "commit", "mint", "bind", "answer"}
<1>1. at[t] \in ThreadStates
  BY DEF TypeOK
<1> QED
  BY <1>1 DEF ThreadStates

\* A thread that is given a new state: the function keeps its type and only it moves.
LEMMA Moved ==
  ASSUME TypeOK, NEW t \in Threads, NEW a \in ThreadStates, at' = [at EXCEPT ![t] = a]
  PROVE  at' \in [Threads -> ThreadStates] /\ Moves(t, a)
BY DEF TypeOK, Moves

\* The same for a thread whose program counter changes (Goto).
LEMMA MovedTo ==
  ASSUME TypeOK, NEW t \in Threads,
         NEW s \in {"idle", "lookup", "lock", "queue", "commit", "mint", "bind", "answer"},
         at' = [at EXCEPT ![t].pc = s]
  PROVE  at' \in [Threads -> ThreadStates] /\ Moves(t, [at[t] EXCEPT !.pc = s])
<1>1. at[t] \in ThreadStates /\ at \in [Threads -> ThreadStates]
  BY DEF TypeOK
<1> DEFINE a == [at[t] EXCEPT !.pc = s]
<1>2. a \in ThreadStates
  BY <1>1 DEF ThreadStates
<1>3. at' = [at EXCEPT ![t] = a]
  BY <1>1
<1> HIDE DEF a
<1>4. at' \in [Threads -> ThreadStates] /\ Moves(t, a)
  BY <1>2, <1>3, Moved
<1> QED
  BY <1>4 DEF a

\* The same for a thread that has prepared its receipt.
LEMMA MovedPrepared ==
  ASSUME TypeOK, NEW t \in Threads, NEW p \in Receipts,
         at' = [at EXCEPT ![t].seen = p, ![t].new = p.new, ![t].pc = "queue"]
  PROVE  /\ at' \in [Threads -> ThreadStates]
         /\ Moves(t, [at[t] EXCEPT !.seen = p, !.new = p.new, !.pc = "queue"])
<1>1. at[t] \in ThreadStates /\ at \in [Threads -> ThreadStates]
  BY DEF TypeOK
<1> DEFINE a == [at[t] EXCEPT !.seen = p, !.new = p.new, !.pc = "queue"]
<1>2. a \in ThreadStates
  <2>1. p.new \in Gens
    BY DEF Receipts
  <2> QED
    BY <1>1, <2>1 DEF ThreadStates
<1>3. at' = [at EXCEPT ![t] = a]
  BY <1>1
<1> HIDE DEF a
<1>4. at' \in [Threads -> ThreadStates] /\ Moves(t, a)
  BY <1>2, <1>3, Moved
<1> QED
  BY <1>4 DEF a

\* The same for a thread that has looked its receipt up.
LEMMA MovedLooked ==
  ASSUME TypeOK, NEW t \in Threads, NEW p \in Receipts,
         at' = [at EXCEPT ![t].seen = p, ![t].pc = "lock"]
  PROVE  /\ at' \in [Threads -> ThreadStates]
         /\ Moves(t, [at[t] EXCEPT !.seen = p, !.pc = "lock"])
<1>1. at[t] \in ThreadStates /\ at \in [Threads -> ThreadStates]
  BY DEF TypeOK
<1> DEFINE a == [at[t] EXCEPT !.seen = p, !.pc = "lock"]
<1>2. a \in ThreadStates
  BY <1>1 DEF ThreadStates
<1>3. at' = [at EXCEPT ![t] = a]
  BY <1>1
<1> HIDE DEF a
<1>4. at' \in [Threads -> ThreadStates] /\ Moves(t, a)
  BY <1>2, <1>3, Moved
<1> QED
  BY <1>4 DEF a

\* The same for a thread that has minted a session.
LEMMA MovedMinted ==
  ASSUME TypeOK, NEW t \in Threads, NEW m \in Sids,
         at' = [at EXCEPT ![t].seen = NoReceipt, ![t].minted = m, ![t].pc = "bind"]
  PROVE  /\ at' \in [Threads -> ThreadStates]
         /\ Moves(t, [at[t] EXCEPT !.seen = NoReceipt, !.minted = m, !.pc = "bind"])
<1>1. at[t] \in ThreadStates /\ at \in [Threads -> ThreadStates]
  BY DEF TypeOK
<1> DEFINE a == [at[t] EXCEPT !.seen = NoReceipt, !.minted = m, !.pc = "bind"]
<1>2. a \in ThreadStates
  BY <1>1, NoReceiptType DEF ThreadStates
<1>3. at' = [at EXCEPT ![t] = a]
  BY <1>1
<1> HIDE DEF a
<1>4. at' \in [Threads -> ThreadStates] /\ Moves(t, a)
  BY <1>2, <1>3, Moved
<1> QED
  BY <1>4 DEF a

\* The same for a thread whose session could not be bound.
LEMMA MovedUnbound ==
  ASSUME TypeOK, NEW t \in Threads,
         at' = [at EXCEPT ![t].minted = 0, ![t].pc = "answer"]
  PROVE  /\ at' \in [Threads -> ThreadStates]
         /\ Moves(t, [at[t] EXCEPT !.minted = 0, !.pc = "answer"])
<1>1. at[t] \in ThreadStates /\ at \in [Threads -> ThreadStates]
  BY DEF TypeOK
<1> DEFINE a == [at[t] EXCEPT !.minted = 0, !.pc = "answer"]
<1>2. a \in ThreadStates
  <2>1. 0 \in Sids
    BY ReceiptAssumption DEF Sids
  <2> QED
    BY <1>1, <2>1 DEF ThreadStates
<1>3. at' = [at EXCEPT ![t] = a]
  BY <1>1
<1> HIDE DEF a
<1>4. at' \in [Threads -> ThreadStates] /\ Moves(t, a)
  BY <1>2, <1>3, Moved
<1> QED
  BY <1>4 DEF a

\* A receipt written into a file of receipts: types, bounds and the other receipts stay.
LEMMA Stored ==
  ASSUME NEW r \in Requests, NEW p \in Receipts, Len(p.sessions) <= KeepSessions,
         NEW f, f \in [Requests -> Receipts], NEW g, g = [f EXCEPT ![r] = p],
         \A q \in Requests : Len(f[q].sessions) <= KeepSessions
  PROVE  /\ g \in [Requests -> Receipts] /\ g[r] = p
         /\ \A q \in Requests : q # r => g[q] = f[q]
         /\ \A q \in Requests : Len(g[q].sessions) <= KeepSessions
<1>1. g \in [Requests -> Receipts] /\ g[r] = p /\ \A q \in Requests : q # r => g[q] = f[q]
  OBVIOUS
<1> QED
  <2>1. ASSUME NEW q \in Requests PROVE Len(g[q].sessions) <= KeepSessions
    <3>1. CASE q = r
      BY <3>1, <1>1
    <3>2. CASE q # r
      <4>1. g[q] = f[q]
        BY <1>1, <3>2
      <4> QED
        BY <4>1
    <3> QED
      BY <3>1, <3>2
  <2> QED
    BY <1>1, <2>1

\* Rendering a page is a step of its kind and keeps the types.
LEMMA OpenPageStep ==
  ASSUME Basics, NEW r \in Requests, OpenPage(r)
  PROVE  TypeOK' /\ Rendered(r)
<1>1. TypeOK
  BY DEF Basics
<1>2. posted' \in [Requests -> Gens]
  BY <1>1 DEF TypeOK, OpenPage, Gens
<1>3. TypeOK'
  BY <1>1, <1>2 DEF TypeOK, OpenPage, files, queue, history
<1>4. posted'[r] = gen /\ \A q \in Requests : q # r => posted'[q] = posted[q]
  BY <1>1 DEF TypeOK, OpenPage
<1> QED
  BY <1>3, <1>4 DEF OpenPage, Rendered, files, queue, history

\* A sign-in is a step of its kind and keeps the types.
LEMMA SignInStep ==
  ASSUME Basics, SignIn
  PROVE  TypeOK' /\ SignsIn
<1>1. TypeOK /\ Len(sessions) < MaxSession /\ MaxSession \in Nat /\ Password \in Gens
  BY ReceiptAssumption DEF Basics, SignIn, Password, Gens
<1>2. sessions \in Seq(Gens) /\ Len(sessions) \in Nat /\ gen \in Gens
  BY <1>1 DEF TypeOK, Gens
<1>3. PICK s \in {Password, gen} : sessions' = Append(sessions, s)
  BY DEF SignIn
<1>4. s \in Gens
  BY <1>1, <1>2
<1>5. /\ sessions' \in Seq(Gens) /\ Len(sessions') = Len(sessions) + 1
      /\ sessions'[Len(sessions) + 1] = s
      /\ \A i \in 1..Len(sessions) : sessions'[i] = sessions[i]
  BY <1>2, <1>3, <1>4
<1>6. cookie' = Len(sessions') /\ cookie' \in 1..MaxSession /\ Len(sessions') <= MaxSession
  BY <1>1, <1>2, <1>5 DEF SignIn
<1>7. /\ crossed \subseteq crossed' /\ crossed' \subseteq Requests
      /\ \A r \in Requests : posted[r] # 0 => r \in crossed'
  BY <1>1 DEF TypeOK, SignIn
<1>8. UNCHANGED <<gen, durGen, receipts, durReceipts, tasks, doomed, lock, at, posted, next, faults,
                  issued, told, expired, revoked, bound, late>>
  BY DEF SignIn, queue
<1>9. TypeOK'
  BY <1>1, <1>5, <1>6, <1>7, <1>8 DEF TypeOK
<1>10. SignsIn
  BY <1>5, <1>6, <1>7, <1>8 DEF SignsIn
<1> QED
  BY <1>9, <1>10

\* Sending a request starts a thread, and marks the requests that cross.
LEMMA SendStep ==
  ASSUME Basics, NEW t \in Threads, NEW r \in Requests, Send(t, r)
  PROVE  TypeOK' /\ Begins(t, r)
<1>1. TypeOK /\ at[t] = Idle
  BY DEF Basics, Send
<1> DEFINE a == [pc |-> "lookup", req |-> r, sid |-> cookie, seen |-> NoReceipt, new |-> 0,
                 minted |-> 0]
<1>2. a \in ThreadStates
  <2>1. cookie \in Sids /\ 0 \in Sids /\ 0 \in Gens
    BY <1>1, ReceiptAssumption DEF TypeOK, Sids, Gens
  <2> QED
    BY <2>1, NoReceiptType DEF ThreadStates
<1>3. at' = [at EXCEPT ![t] = a]
  <2>1. a = [Idle EXCEPT !.pc = "lookup", !.req = r, !.sid = cookie]
    <3> DEFINE b == [Idle EXCEPT !.pc = "lookup"]
               c == [b EXCEPT !.req = r]
               d == [c EXCEPT !.sid = cookie]
    <3>1. b = [pc |-> "lookup", req |-> NoOne, sid |-> 0, seen |-> NoReceipt, new |-> 0,
               minted |-> 0]
      BY DEF Idle
    <3>2. c = [pc |-> "lookup", req |-> r, sid |-> 0, seen |-> NoReceipt, new |-> 0,
               minted |-> 0]
      <4> HIDE DEF b
      <4> QED
        BY <3>1
    <3>3. d = a
      <4> HIDE DEF c
      <4> QED
        BY <3>2
    <3> QED
      BY <3>3
  <2> HIDE DEF a
  <2> QED
    BY <2>1 DEF Send
<1>4. at' \in [Threads -> ThreadStates] /\ Moves(t, a)
  <2> HIDE DEF a
  <2> QED
    BY <1>1, <1>2, <1>3, Moved
<1> DEFINE others == {at[u].req : u \in Threads} \ {r, NoOne}
<1>5. crossed' = IF others = {} THEN crossed ELSE crossed \cup others \cup {r}
  BY DEF Send
<1>6. others \subseteq Requests
  BY <1>1, ThreadTypes
<1>7. /\ crossed \subseteq crossed' /\ crossed' \subseteq Requests
      /\ \A u \in Threads : at[u].req \notin {r, NoOne} => r \in crossed' /\ at[u].req \in crossed'
  <2>1. crossed \subseteq Requests
    BY <1>1 DEF TypeOK
  <2>2. \A u \in Threads : at[u].req \notin {r, NoOne} => at[u].req \in others
    OBVIOUS
  <2> HIDE DEF others
  <2> QED
    BY <1>5, <1>6, <2>1, <2>2
<1>8. UNCHANGED <<gen, durGen, receipts, durReceipts, tasks, doomed, sessions, lock, cookie,
                 posted, next, faults, issued, told, expired, revoked, bound, late>>
  BY DEF Send, files, queue, browser
<1>9. TypeOK'
  BY <1>1, <1>4, <1>7, <1>8 DEF TypeOK
<1>10. posted[r] # 0
  BY DEF Send
<1> HIDE DEF a
<1>11. Begins(t, r)
  BY <1>1, <1>4, <1>7, <1>8, <1>10 DEF Begins, a
<1> QED
  BY <1>9, <1>11

\* lookup_bound answers with the request's receipt, for a bound session, or with nothing.
LEMMA LookupFacts ==
  ASSUME Basics, NEW r \in Requests, NEW s
  PROVE  /\ Lookup(r, s) \in Receipts /\ Lookup(r, s) \in {NoReceipt, receipts[r]}
         /\ Lookup(r, s) # NoReceipt => Bound(receipts[r], s)
BY NoReceiptType DEF Lookup, Basics, TypeOK

\* A thread that is not idle works on a request whose page was rendered.
LEMMA ReqOf ==
  ASSUME Basics, NEW t \in Threads, at[t].pc # "idle"
  PROVE  /\ at[t].req \in Requests /\ posted[at[t].req] # 0
         /\ AtWork(at[t], posted[at[t].req], next, Len(sessions))
BY DEF Basics, ThreadsOK, ThreadOK, AtWork

\* The first lookup is a step of its kind.
LEMMA FirstLookupStep ==
  ASSUME Basics, NEW t \in Threads, FirstLookup(t)
  PROVE  TypeOK' /\ \E rec \in Receipts : Looks(t, rec)
<1>1. TypeOK /\ at[t].pc = "lookup"
  BY DEF Basics, FirstLookup
<1>2. at[t].req \in Requests
  BY <1>1, ReqOf
<1> DEFINE rec == Lookup(at[t].req, at[t].sid)
<1>3. rec \in Receipts /\ rec \in {NoReceipt, receipts[at[t].req]}
  BY <1>2, LookupFacts
<1>4. at' = [at EXCEPT ![t].seen = rec, ![t].pc = "lock"]
  BY DEF FirstLookup
<1> HIDE DEF rec
<1>5. /\ at' \in [Threads -> ThreadStates]
      /\ Moves(t, [at[t] EXCEPT !.seen = rec, !.pc = "lock"])
  BY <1>1, <1>3, <1>4, MovedLooked
<1>6. UNCHANGED <<gen, durGen, receipts, durReceipts, tasks, doomed, sessions, lock, cookie,
                 posted, next, faults, issued, told, expired, revoked, bound, crossed, late>>
  BY DEF FirstLookup, files, queue, browser, history
<1>7. TypeOK'
  BY <1>1, <1>5, <1>6 DEF TypeOK
<1>8. Looks(t, rec)
  BY <1>1, <1>3, <1>5, <1>6 DEF Looks
<1> QED
  BY <1>3, <1>7, <1>8

\* A thread that ends keeps the types.
LEMMA EndsStep ==
  ASSUME Basics, NEW t \in Threads, at[t].pc # "idle", Finish(t), next' \in next..MaxGen,
         lock' = IF lock = t THEN NoOne ELSE lock, faults' \in 0..MaxFaults,
         UNCHANGED <<gen, durGen, receipts, durReceipts, tasks, doomed, sessions, cookie,
                     posted, issued, told, expired, revoked, bound, crossed, late>>
  PROVE  TypeOK' /\ Ends(t)
<1>1. TypeOK /\ next \in Nat /\ next >= 1 /\ MaxGen \in Nat
  BY ReceiptAssumption DEF Basics, TypeOK
<1>2. at' \in [Threads -> ThreadStates] /\ Moves(t, Idle)
  BY <1>1, NoReceiptType, Moved DEF Finish
<1>3. next' \in 1..MaxGen /\ next <= next'
  BY <1>1
<1>4. lock' \in Threads \cup {NoOne}
  BY <1>1 DEF TypeOK
<1> QED
  BY <1>1, <1>2, <1>3, <1>4 DEF TypeOK, Ends

\* The number of faults stays within its bound.
LEMMA FaultType ==
  ASSUME Basics, Fault \/ NoFault
  PROVE  faults' \in 0..MaxFaults
BY ReceiptAssumption DEF Basics, TypeOK, Fault, NoFault

\* A refused request ends its thread.
LEMMA RefuseStep ==
  ASSUME Basics, NEW t \in Threads, Refuse(t)
  PROVE  TypeOK' /\ Ends(t)
<1>1. at[t].pc = "lock" /\ lock = NoOne /\ Finish(t)
  BY DEF Refuse
<1>2. UNCHANGED <<gen, durGen, receipts, durReceipts, tasks, doomed, sessions, lock, cookie,
                 posted, next, faults, issued, told, expired, revoked, bound, crossed, late>>
  BY DEF Refuse, files, queue, browser, history
<1>3. next' \in next..MaxGen /\ faults' \in 0..MaxFaults
  BY <1>2, ReceiptAssumption DEF Basics, TypeOK
<1>4. lock' = IF lock = t THEN NoOne ELSE lock
  BY <1>1, <1>2
<1> QED
  BY <1>1, <1>2, <1>3, <1>4, EndsStep

\* A lost answer ends its thread.
LEMMA LostStep ==
  ASSUME Basics, NEW t \in Threads, Lost(t)
  PROVE  TypeOK' /\ Ends(t)
<1>1. at[t].pc = "answer" /\ Fault /\ Finish(t)
  BY DEF Lost
<1>2. UNCHANGED <<gen, durGen, receipts, durReceipts, tasks, doomed, sessions, lock, cookie,
                 posted, next, issued, told, expired, revoked, bound, crossed, late>>
  BY DEF Lost, files, queue, browser, history
<1>3. next' \in next..MaxGen /\ faults' \in 0..MaxFaults
  BY <1>1, <1>2, FaultType, ReceiptAssumption DEF Basics, TypeOK
<1>4. lock' = IF lock = t THEN NoOne ELSE lock
  <2>1. lock # t
    BY <1>1 DEF Basics, LockOK, Held
  <2> QED
    BY <1>2, <2>1
<1> QED
  BY <1>1, <1>2, <1>3, <1>4, EndsStep

\* What prepare answers with.
LEMMA PreparedFacts ==
  ASSUME Basics, NEW t \in Threads, at[t].pc = "lock", NEW r, r = at[t].req,
         NEW rec, rec = Seen(t), rec # NoReceipt \/ MayRotate(t),
         NEW old, old = (IF rec # NoReceipt THEN rec.old ELSE gen),
         NEW new, new = (IF rec # NoReceipt THEN rec.new ELSE next + 1), new <= MaxGen,
         PrepareAllowed(r, at[t].sid, old),
         NEW n, n = (IF rec # NoReceipt THEN next ELSE next + 1),
         NEW p, p = Prepared(r, at[t].sid, old, new)
  PROVE  /\ r \in Requests /\ n \in next..MaxGen /\ p \in Receipts /\ p # NoReceipt
         /\ Len(p.sessions) <= KeepSessions
         /\ OfPage(p, posted[r], n) /\ Bound(p, at[t].sid)
         /\ IF receipts[r] # NoReceipt THEN p = receipts[r] ELSE Len(p.sessions) <= 1
         /\ \/ p.new \in {at[t].seen.new, receipts[r].new}
            \/ p.new = next + 1 /\ n = next + 1
<1>1. /\ r \in Requests /\ posted[r] # 0 /\ OfPage(at[t].seen, posted[r], next)
      /\ at[t].seen \in Receipts /\ at[t].sid \in Sids /\ TypeOK
  BY ReqOf, ThreadTypes DEF Basics, AtWork
<1>2. /\ receipts[r] \in Receipts /\ OfPage(receipts[r], posted[r], next)
      /\ Len(receipts[r].sessions) <= KeepSessions
      /\ posted[r] \in Gens /\ posted[r] <= next
      /\ gen \in 1..MaxGen /\ next \in 1..MaxGen /\ gen <= next
  BY <1>1 DEF Basics, RequestsOK, TypeOK, Ordered
<1>3. rec \in {at[t].seen, receipts[r], NoReceipt} /\ rec \in Receipts
  BY <1>1, <1>2, LookupFacts, NoReceiptType DEF Seen
<1>4. OfPage(rec, posted[r], next)
  BY <1>1, <1>2, <1>3 DEF OfPage
<1>5. old = posted[r] /\ old \in Gens /\ old >= 1
  <2>1. CASE rec # NoReceipt
    BY <2>1, <1>2, <1>4 DEF OfPage
  <2>2. CASE rec = NoReceipt
    BY <2>2, <1>1, <1>2 DEF MayRotate, Gens
  <2> QED
    BY <2>1, <2>2
<1>6. new \in Gens /\ new > old /\ new <= n /\ n \in next..MaxGen
  <2>0. MaxGen \in Nat
    BY ReceiptAssumption
  <2>1. CASE rec # NoReceipt
    <3>1. rec.new \in Gens
      BY <1>3 DEF Receipts
    <3> QED
      BY <2>1, <3>1, <1>2, <1>4, <1>5, <2>0 DEF OfPage, Gens
  <2>2. CASE rec = NoReceipt
    <3>1. new = next + 1 /\ n = next + 1
      BY <2>2
    <3> QED
      BY <3>1, <1>2, <1>5, <2>0 DEF Gens
  <2> QED
    BY <2>1, <2>2
<1>7. CASE receipts[r] # NoReceipt
  <2>1. p = receipts[r] /\ Bound(p, at[t].sid)
    BY <1>7 DEF Prepared, PrepareAllowed
  <2>2. OfPage(p, posted[r], n)
    BY <2>1, <1>2, <1>6, <1>7 DEF OfPage, Receipts, Gens
  <2> QED
    BY <1>1, <1>2, <1>6, <1>7, <2>1, <2>2
<1>8. CASE receipts[r] = NoReceipt
  <2> DEFINE sq == <<at[t].sid>>
  <2>1. p = [old |-> old, new |-> new, sessions |-> sq]
    BY <1>8 DEF Prepared
  <2>3. sq \in Seq(Sids) /\ Len(sq) = 1 /\ sq[1] = at[t].sid /\ 1 \in DOMAIN sq
    BY <1>1
  <2> HIDE DEF sq
  <2>2. p.old = old /\ p.new = new /\ p.sessions = sq
    BY <2>1
  <2>4. p \in Receipts
    BY <2>1, <2>3, <1>5, <1>6 DEF Receipts
  <2>5. p # NoReceipt
    BY <2>2, <1>5, <1>6, NoReceiptType DEF Gens
  <2>6. Bound(p, at[t].sid)
    BY <2>2, <2>3 DEF Bound, ToSet
  <2>7. OfPage(p, posted[r], n)
    BY <2>2, <1>5, <1>6 DEF OfPage
  <2>8. Len(p.sessions) <= KeepSessions /\ Len(p.sessions) <= 1
    <3>1. KeepSessions \in Nat /\ KeepSessions >= 1
      BY ReceiptAssumption
    <3> DEFINE k == Len(p.sessions)
    <3>2. k = 1
      BY <2>2, <2>3
    <3> HIDE DEF k
    <3>3. k <= KeepSessions /\ k <= 1
      BY <3>1, <3>2
    <3> QED
      BY <3>3 DEF k
  <2>9. p.new \in {at[t].seen.new, receipts[r].new} \/ (p.new = next + 1 /\ n = next + 1)
    <3>1. CASE rec # NoReceipt
      BY <3>1, <2>2, <1>3
    <3>2. CASE rec = NoReceipt
      BY <3>2, <2>2
    <3> QED
      BY <3>1, <3>2
  <2> QED
    BY <1>1, <1>6, <1>8, <2>4, <2>5, <2>6, <2>7, <2>8, <2>9
<1> QED
  BY <1>7, <1>8

\* prepare stores a receipt of the request and goes on, or fails with it visible or not.
LEMMA PrepareReceiptStep ==
  ASSUME Basics, NEW t \in Threads, PrepareReceipt(t)
  PROVE  /\ TypeOK'
         /\ \/ Ends(t)
            \/ \E r \in Requests, p \in Receipts : Prepares(t, r, p) \/ PreparesInVain(t, r, p)
<1> DEFINE r == at[t].req
           rec == Seen(t)
           old == IF rec # NoReceipt THEN rec.old ELSE gen
           new == IF rec # NoReceipt THEN rec.new ELSE next + 1
           n == IF rec # NoReceipt THEN next ELSE next + 1
           p == Prepared(r, at[t].sid, old, new)
<1>1. at[t].pc = "lock" /\ lock = NoOne /\ next' = n /\ TypeOK
  BY DEF PrepareReceipt, Basics
<1>2. /\ r \in Requests /\ n \in next..MaxGen /\ p \in Receipts /\ p # NoReceipt
      /\ Len(p.sessions) <= KeepSessions
      /\ OfPage(p, posted[r], n) /\ Bound(p, at[t].sid)
      /\ IF receipts[r] # NoReceipt THEN p = receipts[r] ELSE Len(p.sessions) <= 1
      /\ \/ p.new \in {at[t].seen.new, receipts[r].new}
         \/ p.new = next + 1 /\ n = next + 1
  <2>1. (rec # NoReceipt \/ MayRotate(t)) /\ new <= MaxGen /\ PrepareAllowed(r, at[t].sid, old)
    BY DEF PrepareReceipt
  <2> HIDE DEF r, rec, old, new, n, p
  <2>2. r = at[t].req /\ rec = Seen(t)
    BY DEF r, rec
  <2>3. /\ old = (IF rec # NoReceipt THEN rec.old ELSE gen)
        /\ new = (IF rec # NoReceipt THEN rec.new ELSE next + 1)
        /\ n = (IF rec # NoReceipt THEN next ELSE next + 1)
        /\ p = Prepared(r, at[t].sid, old, new)
    BY DEF old, new, n, p
  <2> QED
    BY <1>1, <2>1, <2>2, <2>3, PreparedFacts
<1>3. UNCHANGED <<gen, durGen, tasks, doomed, sessions, cookie, posted, issued, told, expired,
                 revoked, bound, crossed, late>>
  BY DEF PrepareReceipt, queue, browser, history
<1>4. \/ /\ SaveReceipt(r, p) /\ NoFault /\ lock' = t
         /\ at' = [at EXCEPT ![t].seen = p, ![t].new = p.new, ![t].pc = "queue"]
      \/ /\ Fault /\ receipts' \in {receipts, [receipts EXCEPT ![r] = p]}
         /\ Finish(t) /\ UNCHANGED <<durReceipts, lock>>
  BY DEF PrepareReceipt
<1> HIDE DEF r, rec, old, new, n, p
<1>5. next' \in 1..MaxGen /\ next <= next' /\ faults' \in 0..MaxFaults
  <2>1. faults' \in 0..MaxFaults
    BY <1>4, FaultType
  <2> QED
    BY <1>1, <1>2, <2>1, ReceiptAssumption DEF TypeOK
<1>6. r = at[t].req /\ n = next'
  BY <1>1 DEF r
<1>7. ASSUME receipts' = [receipts EXCEPT ![r] = p]
      PROVE  /\ receipts' \in [Requests -> Receipts] /\ Stores(r, p)
             /\ \A q \in Requests : Len(receipts'[q].sessions) <= KeepSessions
  BY <1>1, <1>2, <1>7, Stored DEF TypeOK, Stores
<1>8. ASSUME Stores(r, p) PROVE Preparing(t, r, p)
  BY <1>1, <1>2, <1>3, <1>5, <1>6, <1>8 DEF Preparing
<1>9. CASE SaveReceipt(r, p) /\ NoFault /\ lock' = t
           /\ at' = [at EXCEPT ![t].seen = p, ![t].new = p.new, ![t].pc = "queue"]
  <2>1. receipts' = [receipts EXCEPT ![r] = p] /\ durReceipts' = receipts'
    BY <1>9 DEF SaveReceipt
  <2>2. /\ receipts' \in [Requests -> Receipts] /\ Stores(r, p)
        /\ \A q \in Requests : Len(receipts'[q].sessions) <= KeepSessions
    BY <2>1, <1>7
  <2>3. /\ at' \in [Threads -> ThreadStates]
        /\ Moves(t, [at[t] EXCEPT !.seen = p, !.new = p.new, !.pc = "queue"])
    BY <1>1, <1>2, <1>9, MovedPrepared
  <2>4. Prepares(t, r, p)
    BY <1>8, <1>9, <2>1, <2>2, <2>3 DEF Prepares
  <2>5. durReceipts' = receipts'
    BY <2>1
  <2>6. TypeOK'
    BY <1>1, <1>3, <1>5, <1>9, <2>2, <2>3, <2>5 DEF TypeOK
  <2> QED
    BY <1>2, <2>4, <2>6
<1>10. CASE /\ Fault /\ receipts' = [receipts EXCEPT ![r] = p]
            /\ Finish(t) /\ UNCHANGED <<durReceipts, lock>>
  <2>2. /\ receipts' \in [Requests -> Receipts] /\ Stores(r, p)
        /\ \A q \in Requests : Len(receipts'[q].sessions) <= KeepSessions
    BY <1>10, <1>7
  <2>3. at' \in [Threads -> ThreadStates] /\ Moves(t, Idle)
    BY <1>1, <1>10, NoReceiptType, Moved DEF Finish
  <2>4. PreparesInVain(t, r, p)
    BY <1>8, <1>10, <2>2, <2>3 DEF PreparesInVain
  <2>6. TypeOK'
    BY <1>1, <1>3, <1>5, <1>10, <2>2, <2>3 DEF TypeOK
  <2> QED
    BY <1>2, <2>4, <2>6
<1>11. CASE Fault /\ Finish(t) /\ UNCHANGED <<receipts, durReceipts, lock>>
  <2>1. lock' = IF lock = t THEN NoOne ELSE lock
    BY <1>1, <1>11
  <2>2. next' \in next..MaxGen /\ at[t].pc # "idle"
    BY <1>1, <1>2
  <2> QED
    BY <1>3, <1>5, <1>11, <2>1, <2>2, EndsStep
<1> QED
  BY <1>4, <1>9, <1>10, <1>11

\* The lock is held by exactly the thread between receipt and commit.
LEMMA LockHeld ==
  ASSUME Basics, NEW t \in Threads
  PROVE  at[t].pc \in Held <=> lock = t
BY DEF Basics, LockOK

\* Writing the intent is a step of its kind, or ends the thread.
LEMMA QueueTaskStep ==
  ASSUME Basics, NEW t \in Threads, QueueTask(t)
  PROVE  TypeOK' /\ (Ends(t) \/ \E r \in Requests : Queues(t, r))
<1> DEFINE r == at[t].req
           task == [prev |-> at[t].seen.old, target |-> at[t].new]
<1>1. at[t].pc = "queue" /\ TypeOK /\ r \in Requests
  BY ReqOf DEF QueueTask, Basics
<1>2. lock = t
  BY <1>1, LockHeld DEF Held
<1>3. task \in [prev : Gens, target : Gens]
  <2>1. at[t].seen \in Receipts /\ at[t].new \in Gens
    BY <1>1, ThreadTypes
  <2> QED
    BY <2>1 DEF Receipts
<1>4. UNCHANGED <<gen, durGen, receipts, durReceipts, doomed, sessions, cookie, posted, next,
                 issued, told, expired, revoked, bound, crossed, late>>
  BY DEF QueueTask, browser, history
<1>5. \/ /\ tasks[r] \in {NoTask, task} /\ tasks' = [tasks EXCEPT ![r] = task]
         /\ Goto(t, "commit") /\ NoFault /\ UNCHANGED lock
      \/ /\ tasks[r] \in {NoTask, task} /\ tasks' = [tasks EXCEPT ![r] = task]
         /\ Fault /\ Finish(t) /\ lock' = NoOne
      \/ (Fault \/ NoFault) /\ Finish(t) /\ lock' = NoOne /\ UNCHANGED tasks
  BY DEF QueueTask
<1>6. faults' \in 0..MaxFaults /\ MaxGen \in Nat
  BY <1>5, FaultType, ReceiptAssumption
<1>7. lock \in Threads \cup {NoOne} /\ next \in 1..MaxGen /\ tasks \in [Requests -> [prev : Gens, target : Gens]]
  BY <1>1 DEF TypeOK
<1> HIDE DEF task
<1>8. ASSUME tasks' = [tasks EXCEPT ![r] = task]
      PROVE  /\ tasks' \in [Requests -> [prev : Gens, target : Gens]] /\ tasks'[r] = task
             /\ \A q \in Requests : q # r => tasks'[q] = tasks[q]
  BY <1>1, <1>3, <1>7, <1>8
<1>9. CASE /\ tasks[r] \in {NoTask, task} /\ tasks' = [tasks EXCEPT ![r] = task]
           /\ Goto(t, "commit") /\ NoFault /\ UNCHANGED lock
  <2>1. /\ tasks' \in [Requests -> [prev : Gens, target : Gens]] /\ tasks'[r] = task
        /\ \A q \in Requests : q # r => tasks'[q] = tasks[q]
    BY <1>8, <1>9
  <2>2. at' \in [Threads -> ThreadStates] /\ Moves(t, [at[t] EXCEPT !.pc = "commit"])
    BY <1>1, <1>9, MovedTo DEF Goto
  <2>3. TypeOK'
    BY <1>1, <1>4, <1>6, <1>9, <2>1, <2>2 DEF TypeOK
  <2>4. tasks[r] \in {NoTask, tasks'[r]} /\ UNCHANGED lock
    BY <1>9, <2>1
  <2>5. Queues(t, r)
    BY <1>1, <1>4, <2>1, <2>2, <2>4 DEF Queues, task
  <2> QED
    BY <1>1, <2>3, <2>5
<1>10. CASE /\ tasks[r] \in {NoTask, task} /\ tasks' = [tasks EXCEPT ![r] = task]
            /\ Fault /\ Finish(t) /\ lock' = NoOne
  <2>1. /\ tasks' \in [Requests -> [prev : Gens, target : Gens]] /\ tasks'[r] = task
        /\ \A q \in Requests : q # r => tasks'[q] = tasks[q]
    BY <1>8, <1>10
  <2>2. at' \in [Threads -> ThreadStates] /\ Moves(t, Idle)
    BY <1>1, <1>10, NoReceiptType, Moved DEF Finish
  <2>3. TypeOK'
    BY <1>1, <1>4, <1>6, <1>10, <2>1, <2>2 DEF TypeOK
  <2>4. tasks[r] \in {NoTask, tasks'[r]} /\ lock' = NoOne
    BY <1>10, <2>1
  <2>5. Queues(t, r)
    BY <1>1, <1>4, <2>1, <2>2, <2>4 DEF Queues, task
  <2> QED
    BY <1>1, <2>3, <2>5
<1>11. CASE Finish(t) /\ lock' = NoOne /\ UNCHANGED tasks
  <2>1. next' \in next..MaxGen /\ at[t].pc # "idle"
    BY <1>1, <1>4, <1>6, <1>7
  <2>2. lock' = IF lock = t THEN NoOne ELSE lock
    BY <1>2, <1>11
  <2> QED
    BY <1>4, <1>6, <1>11, <2>1, <2>2, EndsStep
<1> QED
  BY <1>5, <1>9, <1>10, <1>11

\* Writing the token is a step of its kind, or ends the thread.
LEMMA CommitStep ==
  ASSUME Basics, NEW t \in Threads, Commit(t)
  PROVE  TypeOK' /\ (Ends(t) \/ \E r \in Requests : Commits(t, r))
<1> DEFINE r == at[t].req
<1>1. at[t].pc = "commit" /\ CanCommit(t) /\ TypeOK /\ r \in Requests /\ lock' = NoOne
  BY ReqOf DEF Commit, Basics
<1>2. lock = t
  BY <1>1, LockHeld DEF Held
<1>3. at[t].new \in 1..MaxGen
  <2>1. at[t].new \in Gens /\ at[t].new > posted[r] /\ posted[r] \in Gens
    BY <1>1, ReqOf, ThreadTypes DEF AtWork, Held, Past, TypeOK
  <2> QED
    BY <2>1, ReceiptAssumption DEF Gens
<1>4. UNCHANGED <<receipts, durReceipts, tasks, doomed, sessions, cookie, posted, next, told,
                 expired, revoked, bound, crossed>>
  BY DEF Commit, queue, browser
<1>5. late' = IF gen' # gen /\ r \in expired THEN late \cup {r} ELSE late
  BY DEF Commit
<1>6. \/ /\ gen' = at[t].new /\ durGen' \in {durGen, at[t].new} /\ (Fault \/ NoFault)
         /\ issued' = Committed(t) /\ Goto(t, "mint")
      \/ Fault /\ Finish(t) /\ UNCHANGED <<gen, durGen, issued>>
  BY DEF Commit
<1>7. faults' \in 0..MaxFaults /\ next \in 1..MaxGen /\ MaxGen \in Nat
  BY <1>1, <1>6, FaultType, ReceiptAssumption DEF TypeOK
<1>8. CASE /\ gen' = at[t].new /\ durGen' \in {durGen, at[t].new}
           /\ issued' = Committed(t) /\ Goto(t, "mint")
  <2>1. at' \in [Threads -> ThreadStates] /\ Moves(t, [at[t] EXCEPT !.pc = "mint"])
    BY <1>1, <1>8, MovedTo DEF Goto
  <2>2. /\ issued' \in [Requests -> Gens] /\ issued'[r] = at[t].new
        /\ \A q \in Requests : q # r => issued'[q] = issued[q]
    BY <1>1, <1>3, <1>8, ThreadTypes DEF Committed, TypeOK
  <2>3. gen' \in 1..MaxGen /\ durGen' \in 1..MaxGen /\ late' \subseteq Requests
    BY <1>1, <1>3, <1>5, <1>8 DEF TypeOK
  <2>4. TypeOK'
    BY <1>1, <1>4, <1>7, <2>1, <2>2, <2>3 DEF TypeOK
  <2>5. Commits(t, r)
    BY <1>1, <1>4, <1>5, <1>8, <2>1, <2>2 DEF Commits
  <2> QED
    BY <1>1, <2>4, <2>5
<1>9. CASE Fault /\ Finish(t) /\ UNCHANGED <<gen, durGen, issued>>
  <2>1. next' \in next..MaxGen /\ at[t].pc # "idle" /\ late' = late
    BY <1>1, <1>4, <1>5, <1>7, <1>9
  <2>2. lock' = IF lock = t THEN NoOne ELSE lock
    BY <1>1, <1>2
  <2> QED
    BY <1>4, <1>7, <1>9, <2>1, <2>2, EndsStep
<1> QED
  BY <1>6, <1>8, <1>9

\* Giving up is a step of its kind, or ends the thread.
LEMMA ConflictStep ==
  ASSUME Basics, NEW t \in Threads, Conflict(t)
  PROVE  TypeOK' /\ (Ends(t) \/ \E r \in Requests : Yields(t, r))
<1> DEFINE r == at[t].req
<1>1. /\ at[t].pc = "commit" /\ ~CanCommit(t) /\ TypeOK /\ r \in Requests /\ lock' = NoOne
      /\ Finish(t)
  BY ReqOf DEF Conflict, Basics
<1>2. lock = t
  BY <1>1, LockHeld DEF Held
<1>4. UNCHANGED <<gen, durGen, doomed, sessions, cookie, posted, next, told, expired, revoked,
                  bound, crossed, late>>
  BY DEF Conflict, browser
<1>6. \/ /\ receipts' = [receipts EXCEPT ![r] = NoReceipt] /\ durReceipts' = receipts' /\ NoFault
         /\ tasks' = [tasks EXCEPT ![r] = NoTask]
         /\ issued' = [issued EXCEPT ![r] = IF gen < posted[r] THEN 0 ELSE @]
      \/ Fault /\ UNCHANGED <<receipts, durReceipts, tasks, issued>>
  BY DEF Conflict, SaveReceipt
<1>7. faults' \in 0..MaxFaults /\ next \in 1..MaxGen /\ MaxGen \in Nat
  BY <1>1, <1>6, FaultType, ReceiptAssumption DEF TypeOK
<1>8. CASE /\ receipts' = [receipts EXCEPT ![r] = NoReceipt] /\ durReceipts' = receipts'
           /\ tasks' = [tasks EXCEPT ![r] = NoTask]
           /\ issued' = [issued EXCEPT ![r] = IF gen < posted[r] THEN 0 ELSE @]
  <2>1. at' \in [Threads -> ThreadStates] /\ Moves(t, Idle)
    BY <1>1, NoReceiptType, Moved DEF Finish
  <2>2. /\ issued' \in [Requests -> Gens] /\ issued'[r] = (IF gen < posted[r] THEN 0 ELSE issued[r])
        /\ \A q \in Requests : q # r => issued'[q] = issued[q]
    <3>1. 0 \in Gens
      BY ReceiptAssumption DEF Gens
    <3> QED
      BY <1>1, <1>8, <3>1 DEF TypeOK
  <2>3. /\ tasks' \in [Requests -> [prev : Gens, target : Gens]] /\ tasks'[r] = NoTask
        /\ \A q \in Requests : q # r => tasks'[q] = tasks[q]
    BY <1>1, <1>8, NoReceiptType DEF TypeOK
  <2>4. /\ receipts' \in [Requests -> Receipts] /\ Stores(r, NoReceipt)
        /\ \A q \in Requests : Len(receipts'[q].sessions) <= KeepSessions
    <3>1. Len(NoReceipt.sessions) <= KeepSessions /\ NoReceipt \in Receipts
      BY NoReceiptType, ReceiptAssumption
    <3> QED
      BY <1>1, <1>8, <3>1, Stored DEF TypeOK, Stores
  <2>5. durReceipts' = receipts'
    BY <1>8
  <2>6. TypeOK'
    BY <1>1, <1>4, <1>7, <2>1, <2>2, <2>3, <2>4, <2>5 DEF TypeOK
  <2>7. Yields(t, r)
    BY <1>1, <1>4, <2>1, <2>2, <2>3, <2>4, <2>5 DEF Yields
  <2> QED
    BY <1>1, <2>6, <2>7
<1>9. CASE Fault /\ UNCHANGED <<receipts, durReceipts, tasks, issued>>
  <2>1. next' \in next..MaxGen /\ at[t].pc # "idle"
    BY <1>1, <1>4, <1>7
  <2>2. lock' = IF lock = t THEN NoOne ELSE lock
    BY <1>1, <1>2
  <2> QED
    BY <1>1, <1>4, <1>7, <1>9, <2>1, <2>2, EndsStep
<1> QED
  BY <1>6, <1>8, <1>9

\* The arrival of an answer is a step of its kind.
LEMMA ArriveStep ==
  ASSUME Basics, NEW t \in Threads, Arrive(t)
  PROVE  TypeOK' /\ \E r \in Requests : Arrives(t, r)
<1> DEFINE r == at[t].req
<1>1. at[t].pc = "answer" /\ TypeOK /\ r \in Requests /\ Finish(t)
  BY ReqOf DEF Arrive, Basics
<1>2. at' \in [Threads -> ThreadStates] /\ Moves(t, Idle)
  BY <1>1, NoReceiptType, Moved DEF Finish
<1>3. UNCHANGED <<gen, durGen, receipts, durReceipts, tasks, doomed, sessions, lock, posted,
                 next, faults, issued, expired, revoked, bound, crossed, late>>
  BY DEF Arrive, files, queue
<1>4. /\ told' = told \cup {<<r, at[t].new>>}
      /\ cookie' = (IF at[t].minted # 0 THEN at[t].minted ELSE cookie)
  BY DEF Arrive
<1>5. at[t].new \in Gens /\ at[t].minted \in Sids
  BY <1>1, ThreadTypes
<1>6. told' \subseteq Requests \X Gens /\ cookie' \in 1..MaxSession
  <2>1. told \subseteq Requests \X Gens /\ cookie \in 1..MaxSession
    BY <1>1 DEF TypeOK
  <2>2. <<r, at[t].new>> \in Requests \X Gens
    BY <1>1, <1>5
  <2> QED
    BY <1>4, <1>5, <2>1, <2>2, ReceiptAssumption DEF Sids
<1>7. TypeOK'
  BY <1>1, <1>2, <1>3, <1>6 DEF TypeOK
<1>8. Arrives(t, r)
  BY <1>1, <1>2, <1>3, <1>4 DEF Arrives
<1> QED
  BY <1>1, <1>7, <1>8

\* Minting gives a session, or the thread ends or answers without one.
LEMMA MintStep ==
  ASSUME Basics, NEW t \in Threads, Mint(t)
  PROVE  TypeOK' /\ (Mints(t) \/ Ends(t) \/ Skips(t))
<1>1. at[t].pc = "mint" /\ TypeOK /\ lock = NoOne
  BY DEF Mint, Basics
<1>2. UNCHANGED <<gen, durGen, receipts, durReceipts, tasks, doomed, lock, cookie, posted, next,
                 issued, told, expired, revoked, bound, crossed, late>>
  BY DEF Mint, queue, browser, history
<1>3. \/ /\ gen = at[t].new /\ Len(sessions) < MaxSession /\ sessions' = Append(sessions, gen)
         /\ at' = [at EXCEPT ![t].seen = NoReceipt, ![t].minted = Len(sessions) + 1,
                             ![t].pc = "bind"]
         /\ NoFault
      \/ Finish(t) /\ NoFault /\ UNCHANGED sessions
      \/ Fault /\ Goto(t, "answer") /\ UNCHANGED sessions
  BY DEF Mint
<1>4. faults' \in 0..MaxFaults /\ next \in 1..MaxGen /\ MaxGen \in Nat /\ MaxSession \in Nat
  BY <1>1, <1>3, FaultType, ReceiptAssumption DEF TypeOK
<1>5. CASE /\ gen = at[t].new /\ Len(sessions) < MaxSession /\ sessions' = Append(sessions, gen)
           /\ at' = [at EXCEPT ![t].seen = NoReceipt, ![t].minted = Len(sessions) + 1,
                               ![t].pc = "bind"]
  <2>1. sessions \in Seq(Gens) /\ gen \in Gens /\ Len(sessions) \in Nat
    BY <1>1 DEF TypeOK, Gens
  <2>2. /\ sessions' \in Seq(Gens) /\ Len(sessions') = Len(sessions) + 1
        /\ sessions'[Len(sessions) + 1] = gen
        /\ \A i \in 1..Len(sessions) : sessions'[i] = sessions[i]
    BY <1>5, <2>1
  <2> DEFINE m == Len(sessions) + 1
  <2>3. m \in Sids /\ Len(sessions') <= MaxSession
    BY <1>4, <1>5, <2>1, <2>2 DEF Sids
  <2>4. at' = [at EXCEPT ![t].seen = NoReceipt, ![t].minted = m, ![t].pc = "bind"]
    BY <1>5
  <2> HIDE DEF m
  <2>5. /\ at' \in [Threads -> ThreadStates]
        /\ Moves(t, [at[t] EXCEPT !.seen = NoReceipt, !.minted = m, !.pc = "bind"])
    BY <1>1, <2>3, <2>4, MovedMinted
  <2>6. TypeOK'
    BY <1>1, <1>2, <1>4, <2>2, <2>3, <2>5 DEF TypeOK
  <2>7. Mints(t)
    BY <1>1, <1>2, <1>5, <2>2, <2>5 DEF Mints, m
  <2> QED
    BY <2>6, <2>7
<1>6. CASE Finish(t) /\ UNCHANGED sessions
  <2>1. next' \in next..MaxGen /\ at[t].pc # "idle"
    BY <1>1, <1>2, <1>4
  <2>2. lock' = IF lock = t THEN NoOne ELSE lock
    BY <1>1, <1>2
  <2> QED
    BY <1>2, <1>4, <1>6, <2>1, <2>2, EndsStep
<1>7. CASE Goto(t, "answer") /\ UNCHANGED sessions
  <2>1. at' \in [Threads -> ThreadStates] /\ Moves(t, [at[t] EXCEPT !.pc = "answer"])
    BY <1>1, <1>7, MovedTo DEF Goto
  <2>2. TypeOK'
    BY <1>1, <1>2, <1>4, <1>7, <2>1 DEF TypeOK
  <2>3. Skips(t)
    BY <1>1, <1>2, <1>7, <2>1 DEF Skips
  <2> QED
    BY <2>2, <2>3
<1> QED
  BY <1>3, <1>5, <1>6, <1>7

\* Binding is a step of its kind, with the receipt saved, visible or untouched.
LEMMA BindStep ==
  ASSUME Basics, NEW t \in Threads, Bind(t)
  PROVE  TypeOK' /\ (BindsNothing(t) \/ \E r \in Requests, w \in Receipts : Binds(t, r, w))
<1> DEFINE r == at[t].req
           w == WithSession(receipts[r], at[t].minted)
<1>1. at[t].pc = "bind" /\ TypeOK /\ r \in Requests /\ at[t].minted \in Sids
  BY ReqOf, ThreadTypes DEF Bind, Basics
<1>2. UNCHANGED <<gen, durGen, tasks, doomed, sessions, lock, cookie, posted, next,
                 issued, told, expired, revoked, crossed, late>>
  BY DEF Bind, queue, browser
<1>3. \/ /\ Bound(receipts[r], at[t].sid)
         /\ receipts' = [receipts EXCEPT ![r] = w] /\ durReceipts' = receipts' /\ NoFault
         /\ bound' = [bound EXCEPT ![r] = @ + 1]
         /\ at' = [at EXCEPT ![t].pc = "answer"]
      \/ /\ Bound(receipts[r], at[t].sid)
         /\ receipts' = [receipts EXCEPT ![r] = w] /\ UNCHANGED durReceipts /\ Fault
         /\ bound' = [bound EXCEPT ![r] = @ + 1]
         /\ at' = [at EXCEPT ![t].minted = 0, ![t].pc = "answer"]
      \/ /\ UNCHANGED <<receipts, durReceipts, bound>> /\ (Fault \/ NoFault)
         /\ at' = [at EXCEPT ![t].minted = 0, ![t].pc = "answer"]
  BY DEF Bind, SaveReceipt, Goto
<1>4. faults' \in 0..MaxFaults
  BY <1>3, FaultType
<1>5. /\ receipts[r] \in Receipts /\ w \in Receipts /\ Len(w.sessions) <= KeepSessions
      /\ w = WithSession(receipts[r], at[t].minted)
  <2>1. receipts[r] \in Receipts /\ Len(receipts[r].sessions) <= KeepSessions
    BY <1>1 DEF TypeOK
  <2> QED
    BY <1>1, <2>1, WithSessionFacts
<1> HIDE DEF w
<1>6. ASSUME receipts' = [receipts EXCEPT ![r] = w]
      PROVE  /\ receipts' \in [Requests -> Receipts] /\ Stores(r, w)
             /\ \A q \in Requests : Len(receipts'[q].sessions) <= KeepSessions
  BY <1>1, <1>5, <1>6, Stored DEF TypeOK, Stores
<1>7. ASSUME bound' = [bound EXCEPT ![r] = @ + 1]
      PROVE  /\ bound' \in [Requests -> Nat] /\ bound'[r] = bound[r] + 1
             /\ \A q \in Requests : q # r => bound'[q] = bound[q]
  BY <1>1, <1>7 DEF TypeOK
<1>8. Bound(receipts[r], at[t].sid) => receipts[r] # NoReceipt
  BY NoReceiptType
<1>9. CASE /\ Bound(receipts[r], at[t].sid)
           /\ receipts' = [receipts EXCEPT ![r] = w] /\ durReceipts' = receipts'
           /\ bound' = [bound EXCEPT ![r] = @ + 1]
           /\ at' = [at EXCEPT ![t].pc = "answer"]
  <2>1. at' \in [Threads -> ThreadStates] /\ Moves(t, [at[t] EXCEPT !.pc = "answer"])
    BY <1>1, <1>9, MovedTo
  <2>2. /\ receipts' \in [Requests -> Receipts] /\ Stores(r, w)
        /\ \A q \in Requests : Len(receipts'[q].sessions) <= KeepSessions
    BY <1>6, <1>9
  <2>3. /\ bound' \in [Requests -> Nat] /\ bound'[r] = bound[r] + 1
        /\ \A q \in Requests : q # r => bound'[q] = bound[q]
    BY <1>7, <1>9
  <2>4. durReceipts' = receipts' /\ receipts[r] # NoReceipt
    BY <1>8, <1>9
  <2>5. TypeOK'
    BY <1>1, <1>2, <1>4, <2>1, <2>2, <2>3, <2>4 DEF TypeOK
  <2>6. Binds(t, r, w)
    BY <1>1, <1>2, <1>5, <2>1, <2>2, <2>3, <2>4 DEF Binds
  <2> QED
    BY <1>1, <1>5, <2>5, <2>6
<1>10. CASE /\ Bound(receipts[r], at[t].sid)
            /\ receipts' = [receipts EXCEPT ![r] = w] /\ UNCHANGED durReceipts
            /\ bound' = [bound EXCEPT ![r] = @ + 1]
            /\ at' = [at EXCEPT ![t].minted = 0, ![t].pc = "answer"]
  <2>1. /\ at' \in [Threads -> ThreadStates]
        /\ Moves(t, [at[t] EXCEPT !.minted = 0, !.pc = "answer"])
    BY <1>1, <1>10, MovedUnbound
  <2>2. /\ receipts' \in [Requests -> Receipts] /\ Stores(r, w)
        /\ \A q \in Requests : Len(receipts'[q].sessions) <= KeepSessions
    BY <1>6, <1>10
  <2>3. /\ bound' \in [Requests -> Nat] /\ bound'[r] = bound[r] + 1
        /\ \A q \in Requests : q # r => bound'[q] = bound[q]
    BY <1>7, <1>10
  <2>4. UNCHANGED durReceipts /\ receipts[r] # NoReceipt
    BY <1>8, <1>10
  <2>5. TypeOK'
    BY <1>1, <1>2, <1>4, <2>1, <2>2, <2>3, <2>4 DEF TypeOK
  <2>6. Binds(t, r, w)
    BY <1>1, <1>2, <1>5, <2>1, <2>2, <2>3, <2>4 DEF Binds
  <2> QED
    BY <1>1, <1>5, <2>5, <2>6
<1>11. CASE /\ UNCHANGED <<receipts, durReceipts, bound>>
            /\ at' = [at EXCEPT ![t].minted = 0, ![t].pc = "answer"]
  <2>1. /\ at' \in [Threads -> ThreadStates]
        /\ Moves(t, [at[t] EXCEPT !.minted = 0, !.pc = "answer"])
    BY <1>1, <1>11, MovedUnbound
  <2>2. TypeOK'
    BY <1>1, <1>2, <1>4, <1>11, <2>1 DEF TypeOK
  <2>3. BindsNothing(t)
    BY <1>1, <1>2, <1>11, <2>1 DEF BindsNothing
  <2> QED
    BY <2>2, <2>3
<1> QED
  BY <1>3, <1>9, <1>10, <1>11

\* The end of a receipt's time is a step of its kind.
LEMMA ExpireStep ==
  ASSUME Basics, NEW r \in Requests, Expire(r)
  PROVE  TypeOK' /\ Expired(r)
<1>1. TypeOK
  BY DEF Basics
<1>2. UNCHANGED <<gen, durGen, tasks, doomed, sessions, lock, at, cookie, posted, next, faults,
                 told, revoked, bound, crossed, late>>
  BY DEF Expire, queue, browser
<1>3. /\ r \notin expired /\ expired' = expired \cup {r} /\ expired' \subseteq Requests
  BY <1>1 DEF Expire, TypeOK
<1>4. /\ receipts' \in [Requests -> Receipts] /\ Stores(r, NoReceipt)
      /\ \A q \in Requests : Len(receipts'[q].sessions) <= KeepSessions
  <2>1. Len(NoReceipt.sessions) <= KeepSessions /\ NoReceipt \in Receipts
    BY NoReceiptType, ReceiptAssumption
  <2>2. receipts' = [receipts EXCEPT ![r] = NoReceipt]
    BY DEF Expire, SaveReceipt
  <2> QED
    BY <1>1, <2>1, <2>2, Stored DEF TypeOK, Stores
<1>5. durReceipts' = receipts'
  BY DEF Expire, SaveReceipt
<1>6. /\ issued' \in [Requests -> Gens]
      /\ issued'[r] = (IF gen <= posted[r] THEN 0 ELSE issued[r])
      /\ \A q \in Requests : q # r => issued'[q] = issued[q]
  <2>1. 0 \in Gens
    BY ReceiptAssumption DEF Gens
  <2> QED
    BY <1>1, <2>1 DEF TypeOK, Expire
<1>7. TypeOK'
  BY <1>1, <1>2, <1>3, <1>4, <1>5, <1>6 DEF TypeOK
<1>8. Expired(r)
  BY <1>2, <1>3, <1>4, <1>5, <1>6 DEF Expired
<1> QED
  BY <1>7, <1>8

\* A finished intent leaves the queue.
LEMMA TaskDoneStep ==
  ASSUME Basics, NEW r \in Requests, TaskDone(r)
  PROVE  TypeOK' /\ Removed(r)
<1>1. TypeOK
  BY DEF Basics
<1>2. UNCHANGED <<gen, durGen, receipts, durReceipts, doomed, sessions, lock, at, cookie, posted,
                  next, faults, issued, told, expired, bound, crossed, late>>
  BY DEF TaskDone, browser
<1>3. /\ tasks' \in [Requests -> [prev : Gens, target : Gens]] /\ tasks'[r] = NoTask
      /\ \A q \in Requests : q # r => tasks'[q] = tasks[q]
  BY <1>1, NoReceiptType DEF TypeOK, TaskDone
<1>4. /\ tasks[r].target = gen /\ lock = NoOne /\ revoked' = revoked \cup {gen}
      /\ revoked' \subseteq Gens
  BY <1>1 DEF TaskDone, TypeOK, Gens
<1>5. TypeOK'
  BY <1>1, <1>2, <1>3, <1>4 DEF TypeOK
<1>6. Removed(r)
  BY <1>2, <1>3, <1>4 DEF Removed
<1> QED
  BY <1>5, <1>6

\* A discarded intent leaves the queue.
LEMMA TaskDroppedStep ==
  ASSUME Basics, TaskDropped
  PROVE  TypeOK' /\ \E r \in Requests : Removed(r)
<1> DEFINE r == doomed
<1>1. TypeOK /\ r \in Requests
  BY DEF Basics, TaskDropped, TypeOK
<1>2. UNCHANGED <<gen, durGen, receipts, durReceipts, sessions, lock, at, cookie, posted,
                  next, faults, issued, told, expired, revoked, bound, crossed, late>>
  BY DEF TaskDropped, browser, history
<1>3. /\ tasks' \in [Requests -> [prev : Gens, target : Gens]] /\ tasks'[r] = NoTask
      /\ \A q \in Requests : q # r => tasks'[q] = tasks[q]
  BY <1>1, NoReceiptType DEF TypeOK, TaskDropped
<1>4. doomed' = NoOne
  BY DEF TaskDropped
<1>5. TypeOK'
  BY <1>1, <1>2, <1>3, <1>4 DEF TypeOK
<1>6. Removed(r)
  BY <1>2, <1>3, <1>4 DEF Removed
<1> QED
  BY <1>1, <1>5, <1>6

\* The worker's verdict is a step of its kind.
LEMMA TaskJudgedStep ==
  ASSUME Basics, NEW r \in Requests, TaskJudged(r)
  PROVE  TypeOK' /\ Judged(r)
<1>1. TypeOK
  BY DEF Basics
<1>2. UNCHANGED <<gen, durGen, receipts, durReceipts, tasks, sessions, lock, at, cookie, posted,
                  next, faults, issued, told, expired, revoked, bound, crossed>>
  BY DEF TaskJudged, browser
<1>3. /\ doomed' = r /\ tasks[r] # NoTask /\ gen # tasks[r].target
      /\ gen = tasks[r].prev => r \in expired
      /\ late' = IF gen < tasks[r].prev THEN late \cup {r} ELSE late
  BY DEF TaskJudged
<1>4. late' \subseteq Requests
  BY <1>1, <1>3 DEF TypeOK
<1>5. TypeOK'
  BY <1>1, <1>2, <1>3, <1>4 DEF TypeOK
<1>6. Judged(r)
  BY <1>2, <1>3 DEF Judged
<1> QED
  BY <1>5, <1>6

\* An administrator's rotation is a step of its kind.
LEMMA AdminRotatesStep ==
  ASSUME Basics, AdminRotates
  PROVE  TypeOK' /\ Overruled
<1>1. TypeOK
  BY DEF Basics
<1>2. UNCHANGED <<receipts, durReceipts, tasks, doomed, sessions, lock, at, cookie, posted,
                  faults, issued, told, expired, revoked, bound, crossed, late>>
  BY DEF AdminRotates, queue, browser, history
<1>3. /\ lock = NoOne /\ next < MaxGen /\ next' = next + 1 /\ gen' = next + 1
      /\ durGen' = next + 1
  BY DEF AdminRotates
<1>4. next' \in 1..MaxGen /\ gen' \in 1..MaxGen /\ durGen' \in 1..MaxGen
  BY <1>1, <1>3, ReceiptAssumption DEF TypeOK
<1>5. TypeOK'
  BY <1>1, <1>2, <1>4 DEF TypeOK
<1>6. Overruled
  BY <1>2, <1>3 DEF Overruled
<1> QED
  BY <1>5, <1>6

\* The function of idle threads has its type.
LEMMA AllIdle ==
  ASSUME at' = [t \in Threads |-> Idle]
  PROVE  at' \in [Threads -> ThreadStates] /\ \A t \in Threads : at'[t] = Idle
BY NoReceiptType

\* A crash of the panel is a step of its kind.
LEMMA PanelCrashStep ==
  ASSUME Basics, PanelCrash
  PROVE  TypeOK' /\ Restarts
<1>1. TypeOK /\ faults' \in 0..MaxFaults
  BY FaultType DEF Basics, PanelCrash
<1>2. UNCHANGED <<gen, durGen, receipts, durReceipts, tasks, sessions, cookie, posted, next,
                 issued, told, expired, revoked, bound, crossed, late>>
  BY DEF PanelCrash, browser, history
<1>3. at' \in [Threads -> ThreadStates] /\ \A t \in Threads : at'[t] = Idle
  BY AllIdle DEF PanelCrash
<1>4. lock' = NoOne /\ doomed' = NoOne
  BY DEF PanelCrash
<1>5. TypeOK'
  BY <1>1, <1>2, <1>3, <1>4 DEF TypeOK
<1>6. Restarts
  BY <1>2, <1>3, <1>4 DEF Restarts, Dies
<1> QED
  BY <1>5, <1>6

\* A crash of the host is a step of its kind.
LEMMA HostCrashStep ==
  ASSUME Basics, HostCrash
  PROVE  TypeOK' /\ Reboots
<1>1. TypeOK /\ faults' \in 0..MaxFaults
  BY FaultType DEF Basics, HostCrash
<1>2. UNCHANGED <<durGen, durReceipts, tasks, sessions, cookie, posted, next, told, expired,
                  bound, crossed, late>>
  BY DEF HostCrash, browser
<1>3. at' \in [Threads -> ThreadStates] /\ \A t \in Threads : at'[t] = Idle
  BY AllIdle DEF HostCrash
<1>4. /\ lock' = NoOne /\ doomed' = NoOne /\ gen' = durGen /\ receipts' = durReceipts
      /\ revoked' = revoked \cup {durGen}
  BY DEF HostCrash
<1>5. issued' = [r \in Requests |-> IF posted[r] >= durGen /\ durReceipts[r].new # issued[r]
                                      THEN 0 ELSE issued[r]]
  BY DEF HostCrash
<1>6. /\ \A r \in Requests : issued'[r] = IF posted[r] >= durGen /\ durReceipts[r].new # issued[r]
                                            THEN 0 ELSE issued[r]
      /\ issued' \in [Requests -> Gens]
  <2>1. issued \in [Requests -> Gens] /\ 0 \in Gens
    BY <1>1, ReceiptAssumption DEF TypeOK, Gens
  <2> QED
    BY <1>5, <2>1
<1>7. revoked' \subseteq Gens
  BY <1>1, <1>4 DEF TypeOK, Gens
<1>8. TypeOK'
  BY <1>1, <1>2, <1>3, <1>4, <1>6, <1>7 DEF TypeOK
<1>9. Reboots
  BY <1>2, <1>3, <1>4, <1>6 DEF Reboots, Dies
<1> QED
  BY <1>8, <1>9

\* Every step of the system is one of these.
LEMMA Steps ==
  ASSUME Basics, [Next]_vars
  PROVE  TypeOK' /\ Step
<1>1. ASSUME NEW t \in Threads, Handler(t) PROVE TypeOK' /\ ThreadStep(t)
  <2>1. CASE FirstLookup(t)
    BY <2>1, FirstLookupStep DEF ThreadStep
  <2>2. CASE PrepareReceipt(t)
    BY <2>2, PrepareReceiptStep DEF ThreadStep
  <2>3. CASE Refuse(t)
    BY <2>3, RefuseStep DEF ThreadStep
  <2>4. CASE QueueTask(t)
    BY <2>4, QueueTaskStep DEF ThreadStep
  <2>5. CASE Commit(t)
    BY <2>5, CommitStep DEF ThreadStep
  <2>6. CASE Conflict(t)
    BY <2>6, ConflictStep DEF ThreadStep
  <2>7. CASE Mint(t)
    BY <2>7, MintStep DEF ThreadStep
  <2>8. CASE Bind(t)
    BY <2>8, BindStep DEF ThreadStep
  <2>9. CASE Arrive(t)
    BY <2>9, ArriveStep DEF ThreadStep
  <2>10. CASE Lost(t)
    BY <2>10, LostStep DEF ThreadStep
  <2> QED
    BY <1>1, <2>1, <2>2, <2>3, <2>4, <2>5, <2>6, <2>7, <2>8, <2>9, <2>10 DEF Handler
<1>2. ASSUME NEW t \in Threads, NEW r \in Requests, Send(t, r) PROVE TypeOK' /\ ThreadStep(t)
  BY <1>2, SendStep DEF ThreadStep
<1>3. ASSUME NEW r \in Requests, OpenPage(r) \/ Expire(r) \/ TaskDone(r) \/ TaskJudged(r)
      PROVE  TypeOK' /\ OtherStep
  <2>1. TypeOK' /\ (Rendered(r) \/ Expired(r) \/ Removed(r) \/ Judged(r))
    BY <1>3, OpenPageStep, ExpireStep, TaskDoneStep, TaskJudgedStep
  <2> QED
    BY <2>1 DEF OtherStep
<1>4. ASSUME SignIn \/ TaskDropped \/ AdminRotates \/ PanelCrash \/ HostCrash
      PROVE  TypeOK' /\ OtherStep
  <2>1. CASE TaskDropped
    BY <2>1, TaskDroppedStep DEF OtherStep
  <2>2. CASE AdminRotates
    BY <2>2, AdminRotatesStep DEF OtherStep
  <2>3. CASE PanelCrash
    BY <2>3, PanelCrashStep DEF OtherStep
  <2>4. CASE HostCrash
    BY <2>4, HostCrashStep DEF OtherStep
  <2>5. CASE SignIn
    BY <2>5, SignInStep DEF OtherStep
  <2> QED
    BY <1>4, <2>1, <2>2, <2>3, <2>4, <2>5
<1>5. CASE UNCHANGED vars
  <2>1. TypeOK' /\ Rests
    BY <1>5 DEF Basics, TypeOK, Rests, vars, files, queue, browser, history
  <2> QED
    BY <2>1 DEF OtherStep, Step
<1> QED
  BY <1>1, <1>2, <1>3, <1>4, <1>5 DEF Next, Step

-----------------------------------------------------------------------------
(* The shape of the state is kept                                          *)

\* What only grows.
LEMMA Grows ==
  ASSUME Basics, TypeOK', Step
  PROVE  /\ next <= next' /\ Len(sessions) <= Len(sessions')
         /\ told \subseteq told' /\ expired \subseteq expired' /\ late \subseteq late'
         /\ crossed \subseteq crossed' /\ revoked \subseteq revoked'
         /\ \A r \in Requests : posted[r] # 0 => posted'[r] = posted[r]
         /\ \A r \in Requests : bound[r] <= bound'[r]
         /\ \A i \in 1..Len(sessions) : sessions'[i] = sessions[i]
<1>0. TypeOK /\ next \in Nat /\ Len(sessions) \in Nat /\ \A r \in Requests : bound[r] \in Nat
  <2>1. TypeOK
    BY DEF Basics
  <2>2. next \in Nat /\ sessions \in Seq(Gens) /\ bound \in [Requests -> Nat]
    BY <2>1, ReceiptAssumption DEF TypeOK
  <2> QED
    BY <2>1, <2>2
<1> DEFINE Goal == /\ next <= next' /\ Len(sessions) <= Len(sessions')
                   /\ told \subseteq told' /\ expired \subseteq expired' /\ late \subseteq late'
                   /\ crossed \subseteq crossed' /\ revoked \subseteq revoked'
                   /\ \A r \in Requests : posted[r] # 0 => posted'[r] = posted[r]
                   /\ \A r \in Requests : bound[r] <= bound'[r]
                   /\ \A i \in 1..Len(sessions) : sessions'[i] = sessions[i]
<1>2. ASSUME NEW r \in Requests, Rendered(r) \/ Expired(r) \/ Removed(r) \/ Judged(r)
      PROVE  Goal
  BY <1>0, <1>2 DEF Rendered, Expired, Removed, Judged
<1>3. ASSUME Overruled \/ Restarts \/ Reboots \/ SignsIn \/ Rests
      PROVE  Goal
  BY <1>0, <1>3 DEF Overruled, Restarts, Reboots, Dies, SignsIn, Rests
<1>4. ASSUME NEW t \in Threads, NEW r \in Requests,
             Begins(t, r) \/ Queues(t, r) \/ Commits(t, r) \/ Yields(t, r) \/ Arrives(t, r)
      PROVE  Goal
  BY <1>0, <1>4 DEF Begins, Queues, Commits, Yields, Arrives
<1>5. ASSUME NEW t \in Threads, NEW r \in Requests, NEW p \in Receipts,
             Prepares(t, r, p) \/ PreparesInVain(t, r, p)
      PROVE  Goal
  BY <1>0, <1>5 DEF Prepares, PreparesInVain, Preparing
<1>6. ASSUME NEW t \in Threads, NEW r \in Requests, NEW p \in Receipts, Binds(t, r, p)
      PROVE  Goal
  <2>1. \A q \in Requests : bound[q] <= bound'[q]
    BY <1>0, <1>6 DEF Binds
  <2> QED
    BY <1>0, <1>6, <2>1 DEF Binds
<1>7. ASSUME NEW t \in Threads, Mints(t)
      PROVE  Goal
  BY <1>0, <1>7 DEF Mints
<1>8. ASSUME NEW t \in Threads, NEW rec \in Receipts,
             Looks(t, rec) \/ Skips(t) \/ BindsNothing(t) \/ Ends(t)
      PROVE  Goal
  BY <1>0, <1>8 DEF Looks, Skips, BindsNothing, Ends
<1> HIDE DEF Goal
<1>9. NoReceipt \in Receipts
  BY NoReceiptType
<1>10. Goal
  BY <1>2, <1>3, <1>4, <1>5, <1>6, <1>7, <1>8, <1>9 DEF Step, OtherStep, ThreadStep
<1> QED
  BY <1>10 DEF Goal

\* Every step keeps tokens and sessions numbered as they are made.
LEMMA OrderedStep ==
  ASSUME Basics, TypeOK', Step
  PROVE  Ordered'
<1>0. /\ TypeOK /\ Ordered /\ next \in Nat /\ gen \in Nat /\ durGen \in Nat /\ cookie \in Nat
      /\ Len(sessions) \in Nat /\ next' \in Nat /\ \A i \in 1..Len(sessions) : sessions[i] \in Nat
  <2>1. TypeOK /\ Ordered /\ MaxGen \in Nat /\ MaxSession \in Nat
    BY ReceiptAssumption DEF Basics
  <2>2. sessions \in Seq(Gens) /\ next \in 1..MaxGen /\ gen \in 1..MaxGen
    BY <2>1 DEF TypeOK
  <2>3. durGen \in 1..MaxGen /\ cookie \in 1..MaxSession /\ next' \in 1..MaxGen
    BY <2>1 DEF TypeOK
  <2>4. \A i \in 1..Len(sessions) : sessions[i] \in Nat
    BY <2>1, <2>2 DEF Gens
  <2> QED
    BY <2>1, <2>2, <2>3, <2>4
<1>1. ASSUME NEW r \in Requests, Rendered(r) \/ Expired(r) \/ Removed(r) \/ Judged(r)
      PROVE  Ordered'
  BY <1>0, <1>1 DEF Rendered, Expired, Removed, Judged, Ordered
<1>2. ASSUME Restarts \/ Rests
      PROVE  Ordered'
  BY <1>0, <1>2 DEF Restarts, Dies, Rests, Ordered
<1>3. ASSUME Overruled \/ Reboots
      PROVE  Ordered'
  BY <1>0, <1>3 DEF Overruled, Reboots, Dies, Ordered
<1>4. ASSUME NEW t \in Threads, NEW r \in Requests, Begins(t, r) \/ Queues(t, r) \/ Yields(t, r)
      PROVE  Ordered'
  BY <1>0, <1>4 DEF Begins, Queues, Yields, Ordered
<1>5. ASSUME NEW t \in Threads, NEW r \in Requests, NEW p \in Receipts,
             Prepares(t, r, p) \/ PreparesInVain(t, r, p) \/ Binds(t, r, p)
      PROVE  Ordered'
  BY <1>0, <1>5 DEF Prepares, PreparesInVain, Preparing, Binds, Ordered
<1>6. ASSUME NEW t \in Threads, NEW rec \in Receipts,
             Looks(t, rec) \/ Skips(t) \/ BindsNothing(t) \/ Ends(t)
      PROVE  Ordered'
  BY <1>0, <1>6 DEF Looks, Skips, BindsNothing, Ends, Ordered
<1>7. ASSUME NEW t \in Threads, Mints(t)
      PROVE  Ordered'
  <2>1. \A i \in 1..Len(sessions') : sessions'[i] <= next'
    BY <1>0, <1>7 DEF Mints, Ordered
  <2> QED
    BY <1>0, <1>7, <2>1 DEF Mints, Ordered
<1>8. ASSUME NEW t \in Threads, NEW r \in Requests, Arrives(t, r)
      PROVE  Ordered'
  <2>1. at[t].minted # 0 => at[t].minted \in 1..Len(sessions)
    BY <1>8, ReqOf DEF Arrives, AtWork
  <2> QED
    BY <1>0, <1>8, <2>1 DEF Arrives, Ordered
<1>9. ASSUME NEW t \in Threads, NEW r \in Requests, Commits(t, r)
      PROVE  Ordered'
  <2>1. at[t].new <= next /\ at[t].new \in Nat /\ durGen <= at[t].new
    <3>1. /\ at[t].new <= next /\ at[t].new > posted[r] /\ at[t].new \in Nat
          /\ OfPage(at[t].seen, posted[r], next) /\ at[t].seen # NoReceipt
      BY <1>0, <1>9, ReqOf, ThreadTypes, ReceiptAssumption DEF Commits, AtWork, Held, Past, Gens
    <3>2. gen = at[t].new \/ gen = posted[r]
      BY <1>9 DEF Commits, CanCommit
    <3> QED
      BY <1>0, <3>1, <3>2 DEF Ordered
  <2> QED
    BY <1>0, <1>9, <2>1 DEF Commits, Ordered
<1>10. NoReceipt \in Receipts
  BY NoReceiptType
<1>11. ASSUME SignsIn
       PROVE  Ordered'
  <2>1. \A i \in 1..Len(sessions') : sessions'[i] <= next'
    <3>1. sessions'[Len(sessions) + 1] <= next' /\ UNCHANGED next
      BY <1>0, <1>11 DEF SignsIn, Password, Ordered
    <3> QED
      BY <1>0, <1>11, <3>1 DEF SignsIn, Ordered
  <2> QED
    BY <1>0, <1>11, <2>1 DEF SignsIn, Ordered
<1> QED
  BY <1>1, <1>2, <1>3, <1>4, <1>5, <1>6, <1>7, <1>8, <1>9, <1>10, <1>11
     DEF Step, OtherStep, ThreadStep

\* Every step keeps the lock with the thread that is under it.
LEMMA LockStep ==
  ASSUME Basics, TypeOK', Step
  PROVE  LockOK'
<1>0. /\ TypeOK /\ LockOK /\ NoOne \notin Threads
      /\ \A t \in Threads : at[t] \in ThreadStates /\ at'[t] \in ThreadStates
  BY ReceiptAssumption DEF Basics, TypeOK
<1>1. ASSUME NEW r \in Requests, Rendered(r) \/ Expired(r) \/ Removed(r) \/ Judged(r)
      PROVE  LockOK'
  BY <1>0, <1>1 DEF Rendered, Expired, Removed, Judged, LockOK
<1>2. ASSUME Restarts \/ Reboots
      PROVE  LockOK'
  <2>1. Idle.pc = "idle"
    BY DEF Idle
  <2> QED
    BY <1>0, <1>2, <2>1 DEF Restarts, Reboots, Dies, LockOK, Held
<1>3. ASSUME Overruled \/ SignsIn \/ Rests
      PROVE  LockOK'
  BY <1>0, <1>3 DEF Overruled, SignsIn, Rests, LockOK
<1>4. ASSUME NEW t \in Threads, NEW a, Moves(t, a), lock' = lock,
             at[t].pc \notin Held, a.pc \notin Held
      PROVE  LockOK'
  BY <1>0, <1>4 DEF Moves, LockOK
<1>5. ASSUME NEW t \in Threads, NEW a, Moves(t, a), lock = t, lock' = NoOne, a.pc \notin Held
      PROVE  LockOK'
  BY <1>0, <1>5 DEF Moves, LockOK
<1>6. ASSUME NEW t \in Threads, NEW a, Moves(t, a), lock \in {NoOne, t}, lock' = t, a.pc \in Held
      PROVE  LockOK'
  BY <1>0, <1>6 DEF Moves, LockOK
<1>7. Idle.pc = "idle" /\ NoReceipt \in Receipts
  BY NoReceiptType DEF Idle
<1>8. ASSUME NEW t \in Threads, NEW r \in Requests, Begins(t, r)
      PROVE  LockOK'
  BY <1>4, <1>7, <1>8 DEF Begins, Held
<1>9. ASSUME NEW t \in Threads, NEW rec \in Receipts, Looks(t, rec)
      PROVE  LockOK'
  <2> DEFINE a == [at[t] EXCEPT !.seen = rec, !.pc = "lock"]
  <2>1. a.pc = "lock"
    BY <1>0 DEF ThreadStates
  <2> HIDE DEF a
  <2>2. Moves(t, a) /\ lock' = lock /\ at[t].pc = "lookup"
    BY <1>9 DEF Looks, a
  <2> QED
    BY <1>4, <2>1, <2>2 DEF Held
<1>10. ASSUME NEW t \in Threads, Skips(t)
      PROVE  LockOK'
  <2> DEFINE a == [at[t] EXCEPT !.pc = "answer"]
  <2>1. a.pc = "answer"
    BY <1>0 DEF ThreadStates
  <2> HIDE DEF a
  <2>2. Moves(t, a) /\ lock' = lock /\ at[t].pc = "mint"
    BY <1>10 DEF Skips, a
  <2> QED
    BY <1>4, <2>1, <2>2 DEF Held
<1>11. ASSUME NEW t \in Threads, Mints(t)
      PROVE  LockOK'
  <2> DEFINE a == [at[t] EXCEPT !.seen = NoReceipt, !.minted = Len(sessions) + 1, !.pc = "bind"]
  <2>1. a.pc = "bind"
    BY <1>0 DEF ThreadStates
  <2> HIDE DEF a
  <2>2. Moves(t, a) /\ lock' = lock /\ at[t].pc = "mint"
    BY <1>11 DEF Mints, a
  <2> QED
    BY <1>4, <2>1, <2>2 DEF Held
<1>12. ASSUME NEW t \in Threads, at[t].pc = "bind", lock' = lock,
              \/ Moves(t, [at[t] EXCEPT !.pc = "answer"])
              \/ Moves(t, [at[t] EXCEPT !.minted = 0, !.pc = "answer"])
      PROVE  LockOK'
  <2> DEFINE a == [at[t] EXCEPT !.pc = "answer"]
             b == [at[t] EXCEPT !.minted = 0, !.pc = "answer"]
  <2>1. a.pc = "answer" /\ b.pc = "answer"
    BY <1>0 DEF ThreadStates
  <2>2. Moves(t, a) \/ Moves(t, b)
    BY <1>12
  <2> HIDE DEF a, b
  <2> QED
    BY <1>4, <1>12, <2>1, <2>2 DEF Held
<1>13. ASSUME NEW t \in Threads, NEW r \in Requests, NEW p \in Receipts, Binds(t, r, p)
      PROVE  LockOK'
  BY <1>12, <1>13 DEF Binds
<1>19. ASSUME NEW t \in Threads, BindsNothing(t)
      PROVE  LockOK'
  BY <1>12, <1>19 DEF BindsNothing
<1>14. ASSUME NEW t \in Threads, Ends(t)
      PROVE  LockOK'
  <2>1. CASE lock = t
    BY <1>5, <1>7, <1>14, <2>1 DEF Ends, Held
  <2>2. CASE lock # t
    <3>1. at[t].pc \notin Held
      BY <1>0, <2>2 DEF LockOK
    <3> QED
      BY <1>4, <1>7, <1>14, <2>2, <3>1 DEF Ends, Held
  <2> QED
    BY <2>1, <2>2
<1>15. ASSUME NEW t \in Threads, NEW r \in Requests, Arrives(t, r)
      PROVE  LockOK'
  BY <1>4, <1>7, <1>15 DEF Arrives, Held
<1>16. ASSUME NEW t \in Threads, NEW r \in Requests, NEW p \in Receipts,
              Prepares(t, r, p) \/ PreparesInVain(t, r, p)
      PROVE  LockOK'
  <2> DEFINE a == [at[t] EXCEPT !.seen = p, !.new = p.new, !.pc = "queue"]
  <2>1. a.pc = "queue"
    BY <1>0 DEF ThreadStates
  <2> HIDE DEF a
  <2>2. CASE Prepares(t, r, p)
    <3>1. Moves(t, a) /\ lock = NoOne /\ lock' = t
      BY <2>2 DEF Prepares, Preparing, a
    <3> QED
      BY <1>6, <2>1, <3>1 DEF Held
  <2>3. CASE PreparesInVain(t, r, p)
    BY <1>4, <1>7, <2>3 DEF PreparesInVain, Preparing, Held
  <2> QED
    BY <1>16, <2>2, <2>3
<1>17. ASSUME NEW t \in Threads, NEW r \in Requests, Queues(t, r)
      PROVE  LockOK'
  <2> DEFINE a == [at[t] EXCEPT !.pc = "commit"]
  <2>1. a.pc = "commit"
    BY <1>0 DEF ThreadStates
  <2> HIDE DEF a
  <2>2. lock = t
    BY <1>0, <1>17 DEF Queues, LockOK, Held
  <2>3. (Moves(t, a) /\ lock' = lock) \/ (Moves(t, Idle) /\ lock' = NoOne)
    BY <1>17 DEF Queues, a
  <2> QED
    BY <1>5, <1>6, <1>7, <2>1, <2>2, <2>3 DEF Held
<1>18. ASSUME NEW t \in Threads, NEW r \in Requests, Commits(t, r) \/ Yields(t, r)
      PROVE  LockOK'
  <2> DEFINE a == [at[t] EXCEPT !.pc = "mint"]
  <2>1. a.pc = "mint"
    BY <1>0 DEF ThreadStates
  <2> HIDE DEF a
  <2>2. lock = t /\ lock' = NoOne
    BY <1>0, <1>18 DEF Commits, Yields, LockOK, Held
  <2>3. Moves(t, a) \/ Moves(t, Idle)
    BY <1>18 DEF Commits, Yields, a
  <2> QED
    BY <1>5, <1>7, <2>1, <2>2, <2>3 DEF Held
<1> QED
  BY <1>1, <1>2, <1>3, <1>7, <1>8, <1>9, <1>10, <1>11, <1>13, <1>14, <1>15, <1>16, <1>17, <1>18,
     <1>19 DEF Step, OtherStep, ThreadStep

\* The fields of a thread after the first lookup.
LEMMA LooksThread ==
  ASSUME Basics, NEW t \in Threads, NEW rec \in Receipts, Looks(t, rec)
  PROVE  /\ at'[t].pc = "lock" /\ at'[t].req = at[t].req /\ at'[t].sid = at[t].sid
         /\ at'[t].seen = rec /\ at'[t].new = at[t].new /\ at'[t].minted = at[t].minted
         /\ \A u \in Threads : u # t => at'[u] = at[u]
<1>1. at[t] \in ThreadStates
  BY DEF Basics, TypeOK
<1>2. /\ at'[t] = [at[t] EXCEPT !.seen = rec, !.pc = "lock"]
      /\ \A u \in Threads : u # t => at'[u] = at[u]
  BY DEF Looks, Moves
<1> QED
  BY <1>1, <1>2 DEF ThreadStates

\* The fields of a thread whose mint failed.
LEMMA SkipsThread ==
  ASSUME Basics, NEW t \in Threads, Skips(t)
  PROVE  /\ at'[t].pc = "answer" /\ at'[t].req = at[t].req /\ at'[t].sid = at[t].sid
         /\ at'[t].seen = at[t].seen /\ at'[t].new = at[t].new /\ at'[t].minted = at[t].minted
         /\ \A u \in Threads : u # t => at'[u] = at[u]
<1>1. at[t] \in ThreadStates
  BY DEF Basics, TypeOK
<1>2. /\ at'[t] = [at[t] EXCEPT !.pc = "answer"]
      /\ \A u \in Threads : u # t => at'[u] = at[u]
  BY DEF Skips, Moves
<1> QED
  BY <1>1, <1>2 DEF ThreadStates

\* The fields of a thread that has prepared its receipt.
LEMMA PreparesThread ==
  ASSUME Basics, NEW t \in Threads, NEW r \in Requests, NEW p \in Receipts, Prepares(t, r, p)
  PROVE  /\ at'[t].pc = "queue" /\ at'[t].req = at[t].req /\ at'[t].sid = at[t].sid
         /\ at'[t].seen = p /\ at'[t].new = p.new /\ at'[t].minted = at[t].minted
         /\ \A u \in Threads : u # t => at'[u] = at[u]
<1>1. at[t] \in ThreadStates
  BY DEF Basics, TypeOK
<1>2. /\ at'[t] = [at[t] EXCEPT !.seen = p, !.new = p.new, !.pc = "queue"]
      /\ \A u \in Threads : u # t => at'[u] = at[u]
  BY DEF Prepares, Preparing, Moves
<1> QED
  BY <1>1, <1>2 DEF ThreadStates

\* The fields of a thread that has committed.
LEMMA CommitsThread ==
  ASSUME Basics, NEW t \in Threads, NEW r \in Requests, Commits(t, r)
  PROVE  /\ at'[t].pc = "mint" /\ at'[t].req = at[t].req /\ at'[t].sid = at[t].sid
         /\ at'[t].seen = at[t].seen /\ at'[t].new = at[t].new /\ at'[t].minted = at[t].minted
         /\ \A u \in Threads : u # t => at'[u] = at[u]
<1>1. at[t] \in ThreadStates
  BY DEF Basics, TypeOK
<1>2. /\ at'[t] = [at[t] EXCEPT !.pc = "mint"]
      /\ \A u \in Threads : u # t => at'[u] = at[u]
  BY DEF Commits, Moves
<1> QED
  BY <1>1, <1>2 DEF ThreadStates

\* The fields of a thread that has minted a session.
LEMMA MintsThread ==
  ASSUME Basics, NEW t \in Threads, Mints(t)
  PROVE  /\ at'[t].pc = "bind" /\ at'[t].req = at[t].req /\ at'[t].sid = at[t].sid
         /\ at'[t].seen = NoReceipt /\ at'[t].new = at[t].new /\ at'[t].minted = Len(sessions) + 1
         /\ \A u \in Threads : u # t => at'[u] = at[u]
<1>1. at[t] \in ThreadStates
  BY DEF Basics, TypeOK
<1>2. /\ at'[t] = [at[t] EXCEPT !.seen = NoReceipt, !.minted = Len(sessions) + 1, !.pc = "bind"]
      /\ \A u \in Threads : u # t => at'[u] = at[u]
  BY DEF Mints, Moves
<1> QED
  BY <1>1, <1>2 DEF ThreadStates

\* The fields of a thread whose session was not bound.
LEMMA BindsNothingThread ==
  ASSUME Basics, NEW t \in Threads, BindsNothing(t)
  PROVE  /\ at'[t].pc = "answer" /\ at'[t].req = at[t].req /\ at'[t].sid = at[t].sid
         /\ at'[t].seen = at[t].seen /\ at'[t].new = at[t].new /\ at'[t].minted = 0
         /\ \A u \in Threads : u # t => at'[u] = at[u]
<1>1. at[t] \in ThreadStates
  BY DEF Basics, TypeOK
<1>2. /\ at'[t] = [at[t] EXCEPT !.minted = 0, !.pc = "answer"]
      /\ \A u \in Threads : u # t => at'[u] = at[u]
  BY DEF BindsNothing, Moves
<1> QED
  BY <1>1, <1>2 DEF ThreadStates

\* The fields of a thread that has written its intent.
LEMMA QueuesThread ==
  ASSUME Basics, NEW t \in Threads, NEW r \in Requests, Queues(t, r)
  PROVE  /\ \/ at'[t] = Idle /\ lock' = NoOne
            \/ /\ at'[t].pc = "commit" /\ at'[t].req = at[t].req /\ at'[t].sid = at[t].sid
               /\ at'[t].seen = at[t].seen /\ at'[t].new = at[t].new
               /\ at'[t].minted = at[t].minted /\ lock' = lock
         /\ \A u \in Threads : u # t => at'[u] = at[u]
<1>1. at[t] \in ThreadStates
  BY DEF Basics, TypeOK
<1>2. /\ \/ at'[t] = Idle /\ lock' = NoOne
         \/ at'[t] = [at[t] EXCEPT !.pc = "commit"] /\ lock' = lock
      /\ \A u \in Threads : u # t => at'[u] = at[u]
  BY DEF Queues, Moves
<1> QED
  BY <1>1, <1>2 DEF ThreadStates

\* The fields of a thread that has bound its session.
LEMMA BindsThread ==
  ASSUME Basics, NEW t \in Threads, NEW r \in Requests, NEW w \in Receipts, Binds(t, r, w)
  PROVE  /\ at'[t].pc = "answer" /\ at'[t].req = at[t].req /\ at'[t].sid = at[t].sid
         /\ at'[t].seen = at[t].seen /\ at'[t].new = at[t].new
         /\ at'[t].minted \in {0, at[t].minted}
         /\ \A u \in Threads : u # t => at'[u] = at[u]
<1>1. at[t] \in ThreadStates
  BY DEF Basics, TypeOK
<1>2. /\ \/ at'[t] = [at[t] EXCEPT !.pc = "answer"]
         \/ at'[t] = [at[t] EXCEPT !.minted = 0, !.pc = "answer"]
      /\ \A u \in Threads : u # t => at'[u] = at[u]
  BY DEF Binds, Moves
<1> QED
  BY <1>1, <1>2 DEF ThreadStates

\* The threads that end or crash.
LEMMA EndsThread ==
  ASSUME NEW t \in Threads, NEW r, NEW p,
         Ends(t) \/ Yields(t, r) \/ Arrives(t, r) \/ PreparesInVain(t, r, p)
  PROVE  at'[t] = Idle /\ \A u \in Threads : u # t => at'[u] = at[u]
BY DEF Ends, Yields, Arrives, PreparesInVain, Moves

\* The fields of a thread that begins.
LEMMA BeginsThread ==
  ASSUME NEW t \in Threads, NEW r \in Requests, Begins(t, r)
  PROVE  /\ at'[t].pc = "lookup" /\ at'[t].req = r /\ at'[t].sid = cookie
         /\ at'[t].seen = NoReceipt /\ at'[t].new = 0 /\ at'[t].minted = 0
         /\ \A u \in Threads : u # t => at'[u] = at[u]
BY DEF Begins, Moves

\* The fields of an idle thread, and NoOne is nobody.
LEMMA IdleFields ==
  /\ Idle.pc = "idle" /\ Idle.req = NoOne /\ Idle.sid = 0 /\ Idle.seen = NoReceipt
  /\ Idle.new = 0 /\ Idle.minted = 0 /\ NoOne \notin Requests /\ NoOne \notin Threads
BY ReceiptAssumption DEF Idle

\* A thread that did not move stays as it was.
LEMMA StillOK ==
  ASSUME Basics, TypeOK', Step, NEW u \in Threads, at'[u] = at[u]
  PROVE  ThreadOK(at'[u], posted', next', Len(sessions'))
<1>1. /\ next <= next' /\ Len(sessions) <= Len(sessions')
      /\ \A r \in Requests : posted[r] # 0 => posted'[r] = posted[r]
  BY Grows
<1>2. /\ next \in Nat /\ next' \in Nat /\ Len(sessions) \in Nat /\ Len(sessions') \in Nat
      /\ at[u] \in ThreadStates /\ \A r \in Requests : posted[r] \in Nat
  <2>1. TypeOK /\ MaxGen \in Nat
    BY ReceiptAssumption DEF Basics
  <2>2. next \in Nat /\ next' \in Nat /\ \A r \in Requests : posted[r] \in Nat
    BY <2>1 DEF TypeOK, Gens
  <2>3. Len(sessions) \in Nat /\ Len(sessions') \in Nat /\ at[u] \in ThreadStates
    BY <2>1 DEF TypeOK
  <2> QED
    BY <2>2, <2>3
<1>3. CASE at[u].pc = "idle"
  BY <1>3 DEF Basics, ThreadsOK, ThreadOK
<1>4. CASE at[u].pc # "idle"
  <2> DEFINE r == at[u].req
  <2>1. r \in Requests /\ posted[r] # 0 /\ AtWork(at[u], posted[r], next, Len(sessions))
    BY <1>4, ReqOf
  <2>2. posted'[r] = posted[r]
    BY <1>1, <2>1
  <2>3. at[u].seen \in Receipts /\ at[u].new \in Nat /\ at[u].sid \in Nat /\ at[u].minted \in Nat
    BY <1>2, ReceiptAssumption DEF ThreadStates, Gens, Sids
  <2>4. at[u].seen.new \in Nat
    BY <2>3, ReceiptAssumption DEF Receipts, Gens
  <2>5. OfPage(at[u].seen, posted[r], next')
    BY <1>1, <1>2, <2>1, <2>4 DEF AtWork, OfPage
  <2>6. AtWork(at[u], posted[r], next', Len(sessions'))
    BY <1>1, <1>2, <2>1, <2>3, <2>5 DEF AtWork
  <2> QED
    BY <1>4, <2>2, <2>6 DEF ThreadOK
<1> QED
  BY <1>3, <1>4

\* The pages and counters a thread at work depends on.
LEMMA WorkTypes ==
  ASSUME Basics, TypeOK', NEW t \in Threads, at[t].pc # "idle", NEW r, r = at[t].req
  PROVE  /\ r \in Requests /\ posted[r] \in Nat /\ posted[r] # 0 /\ next \in Nat /\ next' \in Nat
         /\ at[t].new \in Nat /\ at[t].sid \in Nat /\ at[t].minted \in Nat
         /\ at[t].seen \in Receipts /\ at[t].seen.new \in Nat /\ at[t].seen.old \in Nat
         /\ Len(sessions) \in Nat /\ Len(sessions') \in Nat
         /\ AtWork(at[t], posted[r], next, Len(sessions))
<1>1. TypeOK /\ MaxGen \in Nat /\ MaxSession \in Nat
  BY ReceiptAssumption DEF Basics
<1>2. r \in Requests /\ posted[r] # 0 /\ AtWork(at[t], posted[r], next, Len(sessions))
  BY ReqOf
<1>3. at[t].new \in Nat /\ at[t].sid \in Nat /\ at[t].minted \in Nat /\ at[t].seen \in Receipts
  BY <1>1, ThreadTypes DEF Gens, Sids
<1>4. at[t].seen.new \in Nat /\ at[t].seen.old \in Nat
  BY <1>1, <1>3 DEF Receipts, Gens
<1>5. posted[r] \in Nat /\ next \in Nat /\ next' \in Nat
  BY <1>1, <1>2 DEF TypeOK, Gens
<1>6. Len(sessions) \in Nat /\ Len(sessions') \in Nat
  BY <1>1 DEF TypeOK
<1> QED
  BY <1>2, <1>3, <1>4, <1>5, <1>6

\* Every step keeps every thread idle or at work on a rendered page.
LEMMA ThreadsStep ==
  ASSUME Basics, TypeOK', Step
  PROVE  ThreadsOK'
<1>0. /\ next <= next' /\ Len(sessions) <= Len(sessions')
      /\ \A r \in Requests : posted[r] # 0 => posted'[r] = posted[r]
  BY Grows
<1>1. ASSUME UNCHANGED at
      PROVE  ThreadsOK'
  <2>1. \A u \in Threads : ThreadOK(at'[u], posted', next', Len(sessions'))
    BY <1>1, StillOK
  <2> QED
    BY <2>1 DEF ThreadsOK
<1>2. ASSUME NEW t \in Threads, \A u \in Threads : u # t => at'[u] = at[u],
             ThreadOK(at'[t], posted', next', Len(sessions'))
      PROVE  ThreadsOK'
  <2>1. \A u \in Threads : ThreadOK(at'[u], posted', next', Len(sessions'))
    BY <1>2, StillOK
  <2> QED
    BY <2>1 DEF ThreadsOK
<1>3. ASSUME NEW t \in Threads, at'[t] = Idle
      PROVE  ThreadOK(at'[t], posted', next', Len(sessions'))
  BY <1>3, IdleFields DEF ThreadOK
<1>4. ASSUME NEW t \in Threads, at'[t].pc # "idle",
             AtWork(at'[t], posted'[at'[t].req], next', Len(sessions'))
      PROVE  ThreadOK(at'[t], posted', next', Len(sessions'))
  BY <1>4 DEF ThreadOK
<1>5. ASSUME NEW r \in Requests, Rendered(r) \/ Expired(r) \/ Removed(r) \/ Judged(r)
      PROVE  ThreadsOK'
  BY <1>1, <1>5 DEF Rendered, Expired, Removed, Judged
<1>6. ASSUME Overruled \/ SignsIn \/ Rests
      PROVE  ThreadsOK'
  BY <1>1, <1>6 DEF Overruled, SignsIn, Rests
<1>7. ASSUME Restarts \/ Reboots
      PROVE  ThreadsOK'
  <2>1. \A u \in Threads : at'[u] = Idle
    BY <1>7 DEF Restarts, Reboots, Dies
  <2>2. \A u \in Threads : ThreadOK(at'[u], posted', next', Len(sessions'))
    BY <1>3, <2>1
  <2> QED
    BY <2>2 DEF ThreadsOK
<1>8. ASSUME NEW t \in Threads, NEW r, NEW p,
             Ends(t) \/ Yields(t, r) \/ Arrives(t, r) \/ PreparesInVain(t, r, p)
      PROVE  ThreadsOK'
  BY <1>2, <1>3, <1>8, EndsThread
<1>9. ASSUME NEW t \in Threads, NEW r \in Requests, Begins(t, r)
      PROVE  ThreadsOK'
  <2>1. /\ at'[t].pc = "lookup" /\ at'[t].req = r /\ at'[t].sid = cookie
        /\ at'[t].seen = NoReceipt /\ at'[t].new = 0 /\ at'[t].minted = 0
        /\ \A u \in Threads : u # t => at'[u] = at[u]
    BY <1>9, BeginsThread
  <2>2. cookie \in 1..Len(sessions') /\ posted'[r] # 0
    <3>1. cookie \in 1..MaxSession /\ Len(sessions) \in Nat /\ cookie <= Len(sessions)
      BY DEF Basics, TypeOK, Ordered
    <3> QED
      BY <1>9, <3>1, ReceiptAssumption DEF Begins
  <2>3. AtWork(at'[t], posted'[at'[t].req], next', Len(sessions'))
    BY <2>1, <2>2 DEF AtWork, OfPage, Held, Past
  <2> QED
    BY <1>2, <1>4, <2>1, <2>3
<1>10. ASSUME NEW t \in Threads, NEW rec \in Receipts, Looks(t, rec)
      PROVE  ThreadsOK'
  <2> DEFINE r == at[t].req
  <2>1. /\ at'[t].pc = "lock" /\ at'[t].req = at[t].req /\ at'[t].sid = at[t].sid
        /\ at'[t].seen = rec /\ at'[t].new = at[t].new /\ at'[t].minted = at[t].minted
        /\ \A u \in Threads : u # t => at'[u] = at[u]
    BY <1>10, LooksThread
  <2>2. /\ r \in Requests /\ AtWork(at[t], posted[r], next, Len(sessions))
        /\ at[t].pc = "lookup" /\ rec \in {NoReceipt, receipts[r]}
        /\ UNCHANGED <<posted, next, sessions>>
    BY <1>10, ReqOf DEF Looks
  <2>3. OfPage(rec, posted[r], next)
    BY <2>2 DEF Basics, RequestsOK, OfPage
  <2>4. AtWork(at'[t], posted[r], next, Len(sessions))
    BY <2>1, <2>2, <2>3 DEF AtWork, Held, Past
  <2>5. AtWork(at'[t], posted'[at'[t].req], next', Len(sessions'))
    BY <2>1, <2>2, <2>4
  <2> QED
    BY <1>2, <1>4, <2>1, <2>5
<1>11. ASSUME NEW t \in Threads, Skips(t)
      PROVE  ThreadsOK'
  <2> DEFINE r == at[t].req
  <2>1. /\ at'[t].pc = "answer" /\ at'[t].req = at[t].req /\ at'[t].sid = at[t].sid
        /\ at'[t].seen = at[t].seen /\ at'[t].new = at[t].new /\ at'[t].minted = at[t].minted
        /\ \A u \in Threads : u # t => at'[u] = at[u]
    BY <1>11, SkipsThread
  <2>2. /\ r \in Requests /\ AtWork(at[t], posted[r], next, Len(sessions))
        /\ at[t].pc = "mint" /\ UNCHANGED <<posted, next, sessions>>
    BY <1>11, ReqOf DEF Skips
  <2>4. AtWork(at'[t], posted[r], next, Len(sessions))
    BY <2>1, <2>2 DEF AtWork, Held, Past
  <2>5. AtWork(at'[t], posted'[at'[t].req], next', Len(sessions'))
    BY <2>1, <2>2, <2>4
  <2> QED
    BY <1>2, <1>4, <2>1, <2>5
<1>12. ASSUME NEW t \in Threads, NEW r \in Requests, NEW p \in Receipts, Prepares(t, r, p)
      PROVE  ThreadsOK'
  <2>1. /\ at'[t].pc = "queue" /\ at'[t].req = at[t].req /\ at'[t].sid = at[t].sid
        /\ at'[t].seen = p /\ at'[t].new = p.new /\ at'[t].minted = at[t].minted
        /\ \A u \in Threads : u # t => at'[u] = at[u]
    BY <1>12, PreparesThread
  <2>2. /\ at[t].req = r /\ AtWork(at[t], posted[r], next, Len(sessions))
        /\ at[t].pc = "lock" /\ UNCHANGED <<posted, sessions>>
        /\ p # NoReceipt /\ OfPage(p, posted[r], next')
    BY <1>12, ReqOf DEF Prepares, Preparing
  <2>3. at[t].minted = 0
    BY <2>2 DEF AtWork
  <2>4. AtWork(at'[t], posted[r], next', Len(sessions))
    BY <2>1, <2>2, <2>3 DEF AtWork, OfPage, Held, Past
  <2>5. AtWork(at'[t], posted'[at'[t].req], next', Len(sessions'))
    BY <2>1, <2>2, <2>4
  <2> QED
    BY <1>2, <1>4, <2>1, <2>5
<1>13. ASSUME NEW t \in Threads, NEW r \in Requests, Queues(t, r)
      PROVE  ThreadsOK'
  <2>1. /\ \/ at'[t] = Idle
           \/ /\ at'[t].pc = "commit" /\ at'[t].req = at[t].req /\ at'[t].sid = at[t].sid
              /\ at'[t].seen = at[t].seen /\ at'[t].new = at[t].new
              /\ at'[t].minted = at[t].minted
        /\ \A u \in Threads : u # t => at'[u] = at[u]
    BY <1>13, QueuesThread
  <2>2. /\ at[t].req = r /\ AtWork(at[t], posted[r], next, Len(sessions))
        /\ at[t].pc = "queue" /\ UNCHANGED <<posted, next, sessions>>
    BY <1>13, ReqOf DEF Queues
  <2>3. CASE at'[t] = Idle
    BY <1>2, <1>3, <2>1, <2>3
  <2>4. CASE at'[t] # Idle
    <3>1. AtWork(at'[t], posted[r], next, Len(sessions))
      BY <2>1, <2>2, <2>4 DEF AtWork, Held, Past
    <3>2. AtWork(at'[t], posted'[at'[t].req], next', Len(sessions'))
      BY <2>1, <2>2, <2>4, <3>1
    <3> QED
      BY <1>2, <1>4, <2>1, <2>4, <3>2
  <2> QED
    BY <2>3, <2>4
<1>14. ASSUME NEW t \in Threads, NEW r \in Requests, Commits(t, r)
      PROVE  ThreadsOK'
  <2>1. /\ at'[t].pc = "mint" /\ at'[t].req = at[t].req /\ at'[t].sid = at[t].sid
        /\ at'[t].seen = at[t].seen /\ at'[t].new = at[t].new /\ at'[t].minted = at[t].minted
        /\ \A u \in Threads : u # t => at'[u] = at[u]
    BY <1>14, CommitsThread
  <2>2. /\ at[t].req = r /\ AtWork(at[t], posted[r], next, Len(sessions))
        /\ at[t].pc = "commit" /\ UNCHANGED <<posted, next, sessions>>
    BY <1>14, ReqOf DEF Commits
  <2>3. at[t].minted = 0
    BY <2>2 DEF AtWork
  <2>4. AtWork(at'[t], posted[r], next, Len(sessions))
    BY <2>1, <2>2, <2>3 DEF AtWork, Held, Past
  <2>5. AtWork(at'[t], posted'[at'[t].req], next', Len(sessions'))
    BY <2>1, <2>2, <2>4
  <2> QED
    BY <1>2, <1>4, <2>1, <2>5
<1>15. ASSUME NEW t \in Threads, Mints(t)
      PROVE  ThreadsOK'
  <2> DEFINE r == at[t].req
  <2>1. /\ at'[t].pc = "bind" /\ at'[t].req = at[t].req /\ at'[t].sid = at[t].sid
        /\ at'[t].seen = NoReceipt /\ at'[t].new = at[t].new
        /\ at'[t].minted = Len(sessions) + 1
        /\ \A u \in Threads : u # t => at'[u] = at[u]
    BY <1>15, MintsThread
  <2>2. /\ r \in Requests /\ AtWork(at[t], posted[r], next, Len(sessions))
        /\ at[t].pc = "mint" /\ UNCHANGED <<posted, next>> /\ Len(sessions) \in Nat
        /\ Len(sessions') = Len(sessions) + 1 /\ at[t].sid \in Nat
    BY <1>15, ReqOf, WorkTypes DEF Mints
  <2>4. AtWork(at'[t], posted[r], next, Len(sessions'))
    BY <2>1, <2>2 DEF AtWork, OfPage, Held, Past
  <2>5. AtWork(at'[t], posted'[at'[t].req], next', Len(sessions'))
    BY <2>1, <2>2, <2>4
  <2> QED
    BY <1>2, <1>4, <2>1, <2>5
<1>16. ASSUME NEW t \in Threads, at[t].pc = "bind",
              at'[t].pc = "answer", at'[t].req = at[t].req, at'[t].sid = at[t].sid,
              at'[t].seen = at[t].seen, at'[t].new = at[t].new,
              at'[t].minted \in {0, at[t].minted}, \A u \in Threads : u # t => at'[u] = at[u],
              UNCHANGED <<posted, next, sessions>>
      PROVE  ThreadsOK'
  <2> DEFINE r == at[t].req
  <2>2. r \in Requests /\ AtWork(at[t], posted[r], next, Len(sessions))
    BY <1>16, ReqOf
  <2>4. AtWork(at'[t], posted[r], next, Len(sessions))
    BY <1>16, <2>2 DEF AtWork, Held, Past
  <2>5. AtWork(at'[t], posted'[at'[t].req], next', Len(sessions'))
    BY <1>16, <2>4
  <2> QED
    BY <1>2, <1>4, <1>16, <2>5
<1>17. ASSUME NEW t \in Threads, NEW r \in Requests, NEW w \in Receipts, Binds(t, r, w)
      PROVE  ThreadsOK'
  <2>1. at[t].pc = "bind" /\ UNCHANGED <<posted, next, sessions>>
    BY <1>17 DEF Binds
  <2> QED
    BY <1>16, <1>17, <2>1, BindsThread
<1>18. ASSUME NEW t \in Threads, BindsNothing(t)
      PROVE  ThreadsOK'
  <2>1. at[t].pc = "bind" /\ UNCHANGED <<posted, next, sessions>>
    BY <1>18 DEF BindsNothing
  <2> QED
    BY <1>16, <1>18, <2>1, BindsNothingThread
<1> QED
  BY <1>5, <1>6, <1>7, <1>8, <1>9, <1>10, <1>11, <1>12, <1>13, <1>14, <1>15, <1>17, <1>18
     DEF Step, OtherStep, ThreadStep

\* The types of what is known of a request.
LEMMA RequestTypes ==
  ASSUME TypeOK, NEW r \in Requests
  PROVE  /\ posted[r] \in Nat /\ issued[r] \in Nat /\ bound[r] \in Nat
         /\ receipts[r] \in Receipts /\ durReceipts[r] \in Receipts
         /\ receipts[r].new \in Nat /\ durReceipts[r].new \in Nat
         /\ tasks[r].prev \in Nat /\ tasks[r].target \in Nat
<1>1. MaxGen \in Nat
  BY ReceiptAssumption
<1>2. posted[r] \in Gens /\ issued[r] \in Gens /\ bound[r] \in Nat
  BY DEF TypeOK
<1>3. receipts[r] \in Receipts /\ durReceipts[r] \in Receipts
  BY DEF TypeOK
<1>4. tasks[r] \in [prev : Gens, target : Gens]
  BY DEF TypeOK
<1>5. receipts[r].new \in Gens /\ durReceipts[r].new \in Gens
  BY <1>3 DEF Receipts
<1>6. tasks[r].prev \in Gens /\ tasks[r].target \in Gens
  BY <1>4
<1> QED
  BY <1>1, <1>2, <1>3, <1>5, <1>6 DEF Gens

\* The types of the tokens in force, the counter and the sessions.
LEMMA GenTypes ==
  ASSUME TypeOK
  PROVE  /\ gen \in Nat /\ gen >= 1 /\ durGen \in Nat /\ durGen >= 1 /\ next \in Nat
         /\ cookie \in Nat /\ cookie >= 1 /\ Len(sessions) \in Nat
         /\ \A i \in 1..Len(sessions) : sessions[i] \in Nat
<1>1. MaxGen \in Nat /\ MaxSession \in Nat
  BY ReceiptAssumption
<1>2. gen \in 1..MaxGen /\ durGen \in 1..MaxGen /\ next \in 1..MaxGen /\ cookie \in 1..MaxSession
  BY DEF TypeOK
<1>3. sessions \in Seq(Gens)
  BY DEF TypeOK
<1>4. \A i \in 1..Len(sessions) : sessions[i] \in Nat
  BY <1>1, <1>3 DEF Gens
<1> QED
  BY <1>1, <1>2, <1>3, <1>4

\* More tokens do no harm.
LEMMA Later ==
  ASSUME NEW p \in Nat, NEW n \in Nat, NEW m \in Nat, n <= m
  PROVE  /\ \A rec \in Receipts : OfPage(rec, p, n) => OfPage(rec, p, m)
         /\ \A i \in Nat : IssuedOK(i, p, n) => IssuedOK(i, p, m)
         /\ \A k \in [prev : Gens, target : Gens] : TaskOK(k, p, n) => TaskOK(k, p, m)
<1>1. ASSUME NEW rec \in Receipts, OfPage(rec, p, n) PROVE OfPage(rec, p, m)
  <2>1. rec.new \in Gens
    BY DEF Receipts
  <2> QED
    BY <1>1, <2>1, ReceiptAssumption DEF OfPage, Gens
<1>2. ASSUME NEW k \in [prev : Gens, target : Gens], TaskOK(k, p, n) PROVE TaskOK(k, p, m)
  <2>1. k.target \in Gens
    OBVIOUS
  <2> QED
    BY <1>2, <2>1, ReceiptAssumption DEF TaskOK, Gens
<1>3. ASSUME NEW i \in Nat, IssuedOK(i, p, n) PROVE IssuedOK(i, p, m)
  BY <1>3 DEF IssuedOK
<1> QED
  BY <1>1, <1>2, <1>3

\* Every step keeps what the files hold of a request its own.
LEMMA RequestsStep ==
  ASSUME Basics, TypeOK', Step
  PROVE  RequestsOK'
<1>0. /\ TypeOK /\ RequestsOK /\ Ordered /\ next \in Nat /\ next' \in Nat /\ next <= next'
      /\ gen \in Nat /\ gen >= 1
      /\ \A r \in Requests : posted[r] # 0 => posted'[r] = posted[r]
  <2>1. TypeOK /\ RequestsOK /\ Ordered
    BY DEF Basics
  <2>2. next' \in Nat
    BY ReceiptAssumption DEF TypeOK
  <2> QED
    BY <2>1, <2>2, Grows, GenTypes
<1>1. ASSUME NEW r \in Requests
      PROVE  /\ posted[r] <= next' /\ IssuedOK(issued[r], posted[r], next')
             /\ IssuedOK(0, posted[r], next')
             /\ OfPage(receipts[r], posted[r], next') /\ OfPage(durReceipts[r], posted[r], next')
             /\ OfPage(NoReceipt, posted[r], next')
             /\ TaskOK(tasks[r], posted[r], next') /\ TaskOK(NoTask, posted[r], next')
  <2>1. posted[r] <= next /\ posted[r] \in Nat /\ issued[r] \in Nat
    BY <1>0, RequestTypes DEF RequestsOK
  <2>2. /\ receipts[r] \in Receipts /\ durReceipts[r] \in Receipts
        /\ tasks[r] \in [prev : Gens, target : Gens]
    BY <1>0 DEF TypeOK
  <2>3. /\ IssuedOK(issued[r], posted[r], next) /\ TaskOK(tasks[r], posted[r], next)
        /\ OfPage(receipts[r], posted[r], next) /\ OfPage(durReceipts[r], posted[r], next)
    BY <1>0 DEF RequestsOK
  <2>4. IssuedOK(issued[r], posted[r], next')
    BY <1>0, <2>1, <2>2, <2>3, Later
  <2>5. OfPage(receipts[r], posted[r], next') /\ OfPage(durReceipts[r], posted[r], next')
    BY <1>0, <2>1, <2>2, <2>3, Later
  <2>6. TaskOK(tasks[r], posted[r], next')
    BY <1>0, <2>1, <2>2, <2>3, Later
  <2>7. IssuedOK(0, posted[r], next') /\ posted[r] <= next'
    BY <1>0, <2>1 DEF IssuedOK
  <2> QED
    BY <2>4, <2>5, <2>6, <2>7 DEF OfPage, TaskOK
<1>2. ASSUME UNCHANGED posted,
             \A r \in Requests :
                /\ IssuedOK(issued'[r], posted[r], next')
                /\ OfPage(receipts'[r], posted[r], next') /\ OfPage(durReceipts'[r], posted[r], next')
                /\ TaskOK(tasks'[r], posted[r], next')
      PROVE  RequestsOK'
  BY <1>1, <1>2 DEF RequestsOK
<1>3. ASSUME UNCHANGED <<posted, issued, receipts, durReceipts, tasks>>
      PROVE  RequestsOK'
  BY <1>1, <1>2, <1>3
<1>4. ASSUME NEW r \in Requests, Rendered(r)
      PROVE  RequestsOK'
  <2>1. /\ UNCHANGED <<issued, receipts, durReceipts, tasks, next>> /\ posted[r] = 0
        /\ posted'[r] = gen /\ \A q \in Requests : q # r => posted'[q] = posted[q]
    BY <1>4 DEF Rendered
  <2>2. /\ issued[r] = 0 /\ receipts[r] = NoReceipt /\ durReceipts[r] = NoReceipt
        /\ tasks[r] = NoTask
    <3>1. /\ IssuedOK(issued[r], 0, next) /\ TaskOK(tasks[r], 0, next)
          /\ OfPage(receipts[r], 0, next) /\ OfPage(durReceipts[r], 0, next)
      BY <1>0, <2>1 DEF RequestsOK
    <3> QED
      BY <3>1 DEF IssuedOK, TaskOK, OfPage
  <2>3. /\ posted'[r] <= next' /\ IssuedOK(issued'[r], posted'[r], next')
        /\ OfPage(receipts'[r], posted'[r], next') /\ OfPage(durReceipts'[r], posted'[r], next')
        /\ TaskOK(tasks'[r], posted'[r], next')
    BY <1>0, <2>1, <2>2 DEF IssuedOK, TaskOK, OfPage, Ordered
  <2>4. ASSUME NEW q \in Requests, q # r
        PROVE  /\ posted'[q] <= next' /\ IssuedOK(issued'[q], posted'[q], next')
               /\ OfPage(receipts'[q], posted'[q], next')
               /\ OfPage(durReceipts'[q], posted'[q], next')
               /\ TaskOK(tasks'[q], posted'[q], next')
    BY <1>1, <2>1, <2>4
  <2> QED
    BY <2>3, <2>4 DEF RequestsOK
<1>5. ASSUME NEW r \in Requests, Judged(r)
      PROVE  RequestsOK'
  BY <1>3, <1>5 DEF Judged
<1>6. ASSUME NEW r \in Requests, Removed(r)
      PROVE  RequestsOK'
  BY <1>1, <1>2, <1>6 DEF Removed
<1>7. ASSUME NEW r \in Requests, Expired(r)
      PROVE  RequestsOK'
  BY <1>1, <1>2, <1>7 DEF Expired, Stores
<1>8. ASSUME Overruled \/ Restarts \/ SignsIn \/ Rests
      PROVE  RequestsOK'
  BY <1>3, <1>8 DEF Overruled, Restarts, Dies, SignsIn, Rests
<1>9. ASSUME Reboots
      PROVE  RequestsOK'
  BY <1>1, <1>2, <1>9 DEF Reboots, Dies
<1>10. ASSUME NEW t \in Threads, NEW r \in Requests, Begins(t, r) \/ Arrives(t, r)
      PROVE  RequestsOK'
  BY <1>3, <1>10 DEF Begins, Arrives
<1>11. ASSUME NEW t \in Threads, NEW rec \in Receipts,
              Looks(t, rec) \/ Skips(t) \/ BindsNothing(t) \/ Ends(t) \/ Mints(t)
      PROVE  RequestsOK'
  BY <1>3, <1>11 DEF Looks, Skips, BindsNothing, Ends, Mints
<1>12. ASSUME NEW t \in Threads, NEW r \in Requests, NEW p \in Receipts,
              Prepares(t, r, p) \/ PreparesInVain(t, r, p)
      PROVE  RequestsOK'
  <2>1. /\ OfPage(p, posted[r], next') /\ receipts'[r] = p
        /\ \A q \in Requests : q # r => receipts'[q] = receipts[q]
        /\ UNCHANGED <<posted, issued, tasks>>
        /\ durReceipts' \in {receipts', durReceipts}
    BY <1>12 DEF Prepares, PreparesInVain, Preparing, Stores
  <2> QED
    BY <1>1, <1>2, <2>1
<1>13. ASSUME NEW t \in Threads, NEW r \in Requests, NEW w \in Receipts, Binds(t, r, w)
      PROVE  RequestsOK'
  <2>1. /\ receipts'[r] = w /\ \A q \in Requests : q # r => receipts'[q] = receipts[q]
        /\ UNCHANGED <<posted, issued, tasks>> /\ durReceipts' \in {receipts', durReceipts}
        /\ receipts[r] # NoReceipt /\ w = WithSession(receipts[r], at[t].minted)
    BY <1>13 DEF Binds, Stores
  <2>2. w.old = receipts[r].old /\ w.new = receipts[r].new
    <3>1. /\ receipts[r] \in Receipts /\ Len(receipts[r].sessions) <= KeepSessions
          /\ at[t].minted \in Sids
      BY <1>0, ThreadTypes DEF TypeOK
    <3> QED
      BY <2>1, <3>1, WithSessionFacts
  <2>3. OfPage(w, posted[r], next')
    <3>1. OfPage(receipts[r], posted[r], next')
      BY <1>1
    <3> QED
      BY <2>1, <2>2, <3>1 DEF OfPage
  <2> QED
    BY <1>1, <1>2, <2>1, <2>3
<1>14. ASSUME NEW t \in Threads, NEW r \in Requests, Queues(t, r)
      PROVE  RequestsOK'
  <2>1. /\ tasks'[r] = [prev |-> at[t].seen.old, target |-> at[t].new]
        /\ \A q \in Requests : q # r => tasks'[q] = tasks[q]
        /\ UNCHANGED <<posted, issued, receipts, durReceipts, next>> /\ at[t].req = r
        /\ at[t].pc = "queue"
    BY <1>14 DEF Queues
  <2>2. /\ at[t].seen.old = posted[r] /\ posted[r] >= 1 /\ at[t].new > posted[r]
        /\ at[t].new <= next
    BY <2>1, ReqOf DEF AtWork, OfPage, Held, Past
  <2>3. TaskOK(tasks'[r], posted[r], next')
    <3>1. tasks'[r].prev = at[t].seen.old /\ tasks'[r].target = at[t].new
      BY <2>1
    <3> QED
      BY <2>1, <2>2, <3>1 DEF TaskOK
  <2> QED
    BY <1>1, <1>2, <2>1, <2>3
<1>15. ASSUME NEW t \in Threads, NEW r \in Requests, Commits(t, r)
      PROVE  RequestsOK'
  <2>1. /\ issued'[r] = at[t].new /\ \A q \in Requests : q # r => issued'[q] = issued[q]
        /\ UNCHANGED <<posted, tasks, receipts, durReceipts, next>> /\ at[t].req = r
        /\ at[t].pc = "commit"
    BY <1>15 DEF Commits
  <2>2. posted[r] # 0 /\ at[t].new > posted[r] /\ at[t].new <= next
    BY <2>1, ReqOf DEF AtWork, Held, Past
  <2>3. IssuedOK(issued'[r], posted[r], next')
    BY <2>1, <2>2 DEF IssuedOK
  <2> QED
    BY <1>1, <1>2, <2>1, <2>3
<1>16. ASSUME NEW t \in Threads, NEW r \in Requests, Yields(t, r)
      PROVE  RequestsOK'
  BY <1>1, <1>2, <1>16 DEF Yields, Stores
<1>17. NoReceipt \in Receipts
  BY NoReceiptType
<1> QED
  BY <1>4, <1>5, <1>6, <1>7, <1>8, <1>9, <1>10, <1>11, <1>12, <1>13, <1>14, <1>15, <1>16, <1>17
     DEF Step, OtherStep, ThreadStep

\* Every action keeps the shape of the state and is a step of a kind.
LEMMA BasicsStep ==
  ASSUME Basics, [Next]_vars
  PROVE  Basics' /\ Step
<1>1. TypeOK' /\ Step
  BY Steps
<1> QED
  BY <1>1, OrderedStep, LockStep, ThreadsStep, RequestsStep DEF Basics

-----------------------------------------------------------------------------
(* Tokens and their requests                                               *)

\* The tokens of a request: in its receipts, issued by it, in its intent, and in the
\* threads that work on it.
Tok(R, D, I, K, A, r, x) ==
  /\ x # 0
  /\ \/ x \in {R[r].new, D[r].new, I[r], K[r].target}
     \/ \E t \in Threads : A[t].req = r /\ x \in {A[t].seen.new, A[t].new}

\* x is a token of request r.
Token(r, x) == Tok(receipts, durReceipts, issued, tasks, at, r, x)

\* A value that is no token, an old one of r, or the one the step has made for f.
Known(f, r, x) == x = 0 \/ Token(r, x) \/ (r = f /\ x = next + 1 /\ next' = next + 1)

\* What a request holds before a step is known.
LEMMA KnownNow ==
  ASSUME NEW f, NEW r \in Requests
  PROVE  /\ Known(f, r, receipts[r].new) /\ Known(f, r, durReceipts[r].new)
         /\ Known(f, r, issued[r]) /\ Known(f, r, tasks[r].target) /\ Known(f, r, 0)
         /\ \A t \in Threads : at[t].req = r => /\ Known(f, r, at[t].seen.new)
                                                /\ Known(f, r, at[t].new)
BY DEF Known, Token, Tok

\* If all a request holds after a step is known, so are its tokens.
LEMMA TokensKnown ==
  ASSUME NEW f,
         \A q \in Requests :
            /\ Known(f, q, receipts'[q].new) /\ Known(f, q, durReceipts'[q].new)
            /\ Known(f, q, issued'[q]) /\ Known(f, q, tasks'[q].target)
            /\ \A t \in Threads : at'[t].req = q => /\ Known(f, q, at'[t].seen.new)
                                                    /\ Known(f, q, at'[t].new)
  PROVE  \A q \in Requests : \A x :
            Tok(receipts', durReceipts', issued', tasks', at', q, x) => Known(f, q, x)
BY DEF Tok

\* A token of a request was made, and after the token in its page.
LEMMA TokenBound ==
  ASSUME Basics, NEW r \in Requests, NEW x, Token(r, x)
  PROVE  x \in Nat /\ x >= 1 /\ x <= next /\ x > posted[r]
<1>0. TypeOK /\ RequestsOK /\ next \in Nat
  BY GenTypes DEF Basics
<1>1. /\ posted[r] \in Nat /\ issued[r] \in Nat /\ receipts[r].new \in Nat
      /\ durReceipts[r].new \in Nat /\ tasks[r].target \in Nat
  BY <1>0, RequestTypes
<1>2. x # 0
  BY DEF Token, Tok
<1>3. CASE x \in {receipts[r].new, durReceipts[r].new, issued[r], tasks[r].target}
  <2>1. /\ IssuedOK(issued[r], posted[r], next) /\ TaskOK(tasks[r], posted[r], next)
        /\ OfPage(receipts[r], posted[r], next) /\ OfPage(durReceipts[r], posted[r], next)
    BY <1>0 DEF RequestsOK
  <2>2. NoReceipt.new = 0 /\ NoTask.target = 0
    BY NoReceiptType DEF NoTask
  <2> QED
    BY <1>1, <1>2, <1>3, <2>1, <2>2 DEF IssuedOK, TaskOK, OfPage
<1>4. ASSUME NEW t \in Threads, at[t].req = r, x \in {at[t].seen.new, at[t].new}
      PROVE  x \in Nat /\ x >= 1 /\ x <= next /\ x > posted[r]
  <2>1. at[t].pc # "idle"
    BY <1>4, IdleFields DEF Basics, ThreadsOK, ThreadOK
  <2>2. AtWork(at[t], posted[r], next, Len(sessions))
    BY <1>4, <2>1, ReqOf
  <2>3. at[t].new \in Nat /\ at[t].seen.new \in Nat
    <3>1. at[t].new \in Gens /\ at[t].seen \in Receipts
      BY <1>0, ThreadTypes
    <3> QED
      BY <3>1, ReceiptAssumption DEF Receipts, Gens
  <2>4. at[t].pc \in {"lookup", "lock"} \/ at[t].pc \in Held \cup Past
    BY <1>0, <2>1, ThreadTypes DEF Held, Past
  <2>5. NoReceipt.new = 0
    BY NoReceiptType
  <2> QED
    BY <1>0, <1>1, <1>2, <1>4, <2>2, <2>3, <2>4, <2>5 DEF AtWork, OfPage
<1> QED
  BY <1>3, <1>4 DEF Token, Tok

\* No step gives a request a token that it did not have, but for one new token.
LEMMA TokenStep ==
  ASSUME Basics, TypeOK', Step
  PROVE  \E f : \A q \in Requests : \A x :
            Tok(receipts', durReceipts', issued', tasks', at', q, x) => Known(f, q, x)
<1> DEFINE Goal == \E f : \A q \in Requests : \A x :
                      Tok(receipts', durReceipts', issued', tasks', at', q, x) => Known(f, q, x)
           Files(f) == \A q \in Requests :
                          /\ Known(f, q, receipts'[q].new) /\ Known(f, q, durReceipts'[q].new)
                          /\ Known(f, q, issued'[q]) /\ Known(f, q, tasks'[q].target)
           Thr(f, t) == at'[t].req \in Requests => /\ Known(f, at'[t].req, at'[t].seen.new)
                                                   /\ Known(f, at'[t].req, at'[t].new)
<1>1. ASSUME NEW f, Files(f), \A t \in Threads : Thr(f, t)
      PROVE  Goal
  <2>1. \A q \in Requests :
            /\ Known(f, q, receipts'[q].new) /\ Known(f, q, durReceipts'[q].new)
            /\ Known(f, q, issued'[q]) /\ Known(f, q, tasks'[q].target)
            /\ \A t \in Threads : at'[t].req = q => /\ Known(f, q, at'[t].seen.new)
                                                    /\ Known(f, q, at'[t].new)
    BY <1>1
  <2> QED
    BY <2>1, TokensKnown
<1>2. ASSUME UNCHANGED <<receipts, durReceipts, issued, tasks>>, NEW f PROVE Files(f)
  BY <1>2, KnownNow
<1>3. ASSUME NEW f, NEW t \in Threads, at'[t] = at[t] PROVE Thr(f, t)
  BY <1>3, KnownNow
<1>4. ASSUME NEW f, NEW t \in Threads, at'[t] = Idle PROVE Thr(f, t)
  BY <1>4, IdleFields
<1>5. NoReceipt.new = 0 /\ NoTask.target = 0 /\ NoReceipt \in Receipts
  BY NoReceiptType DEF NoTask
<1>6. ASSUME NEW f, NEW t \in Threads, at'[t].req = at[t].req,
             at'[t].seen.new \in {0, at[t].seen.new}, at'[t].new = at[t].new
      PROVE  Thr(f, t)
  BY <1>6, KnownNow
<1> HIDE DEF Goal
<1>10. ASSUME NEW r \in Requests, Rendered(r) \/ Judged(r)
       PROVE  Goal
  BY <1>1, <1>2, <1>3, <1>10 DEF Rendered, Judged
<1>11. ASSUME NEW r \in Requests, Removed(r)
       PROVE  Goal
  <2>1. Files(r)
    BY <1>5, <1>11, KnownNow DEF Removed
  <2>2. \A t \in Threads : Thr(r, t)
    BY <1>3, <1>11 DEF Removed
  <2> QED
    BY <1>1, <2>1, <2>2
<1>12. ASSUME NEW r \in Requests, Expired(r)
       PROVE  Goal
  <2>1. Files(r)
    BY <1>5, <1>12, KnownNow DEF Expired, Stores
  <2>2. \A t \in Threads : Thr(r, t)
    BY <1>3, <1>12 DEF Expired
  <2> QED
    BY <1>1, <2>1, <2>2
<1>13. ASSUME Overruled \/ SignsIn \/ Rests
       PROVE  Goal
  BY <1>1, <1>2, <1>3, <1>13 DEF Overruled, SignsIn, Rests
<1>14. ASSUME Restarts \/ Reboots
       PROVE  Goal
  <2>1. Files(NoOne)
    BY <1>14, KnownNow DEF Restarts, Reboots, Dies
  <2>2. \A t \in Threads : Thr(NoOne, t)
    BY <1>4, <1>14 DEF Restarts, Reboots, Dies
  <2> QED
    BY <1>1, <2>1, <2>2
<1>15. ASSUME NEW t \in Threads, NEW r \in Requests, Begins(t, r)
       PROVE  Goal
  <2>1. Files(NoOne)
    BY <1>2, <1>15 DEF Begins
  <2>2. Thr(NoOne, t)
    BY <1>5, <1>15, BeginsThread, KnownNow
  <2>3. \A u \in Threads : Thr(NoOne, u)
    BY <1>3, <1>15, <2>2, BeginsThread
  <2> QED
    BY <1>1, <2>1, <2>3
<1>16. ASSUME NEW t \in Threads, NEW rec \in Receipts, Looks(t, rec)
       PROVE  Goal
  <2>1. Files(NoOne) /\ rec \in {NoReceipt, receipts[at[t].req]} /\ at[t].pc = "lookup"
    BY <1>2, <1>16 DEF Looks
  <2>2. Thr(NoOne, t)
    <3>1. at'[t].req = at[t].req /\ at'[t].seen = rec /\ at'[t].new = at[t].new
      BY <1>16, LooksThread
    <3>2. at[t].req \in Requests
      BY <2>1, ReqOf
    <3> QED
      BY <1>5, <2>1, <3>1, <3>2, KnownNow
  <2>3. \A u \in Threads : Thr(NoOne, u)
    BY <1>3, <1>16, <2>2, LooksThread
  <2> QED
    BY <1>1, <2>1, <2>3
<1>17. ASSUME NEW t \in Threads, Skips(t)
       PROVE  Goal
  <2>1. Files(NoOne)
    BY <1>2, <1>17 DEF Skips
  <2>2. Thr(NoOne, t)
    BY <1>6, <1>17, SkipsThread
  <2>3. \A u \in Threads : Thr(NoOne, u)
    BY <1>3, <1>17, <2>2, SkipsThread
  <2> QED
    BY <1>1, <2>1, <2>3
<1>18. ASSUME NEW t \in Threads, BindsNothing(t)
       PROVE  Goal
  <2>1. Files(NoOne)
    BY <1>2, <1>18 DEF BindsNothing
  <2>2. Thr(NoOne, t)
    BY <1>6, <1>18, BindsNothingThread
  <2>3. \A u \in Threads : Thr(NoOne, u)
    BY <1>3, <1>18, <2>2, BindsNothingThread
  <2> QED
    BY <1>1, <2>1, <2>3
<1>19. ASSUME NEW t \in Threads, Mints(t)
       PROVE  Goal
  <2>1. Files(NoOne)
    BY <1>2, <1>19 DEF Mints
  <2>2. Thr(NoOne, t)
    <3>1. at'[t].req = at[t].req /\ at'[t].seen = NoReceipt /\ at'[t].new = at[t].new
      BY <1>19, MintsThread
    <3> QED
      BY <1>5, <1>6, <3>1
  <2>3. \A u \in Threads : Thr(NoOne, u)
    BY <1>3, <1>19, <2>2, MintsThread
  <2> QED
    BY <1>1, <2>1, <2>3
<1>20. ASSUME NEW t \in Threads, Ends(t)
       PROVE  Goal
  <2>1. Files(NoOne)
    BY <1>2, <1>20 DEF Ends
  <2>2. at'[t] = Idle /\ \A u \in Threads : u # t => at'[u] = at[u]
    BY <1>20, EndsThread
  <2>3. \A u \in Threads : Thr(NoOne, u)
    BY <1>3, <1>4, <2>2
  <2> QED
    BY <1>1, <2>1, <2>3
<1>21. ASSUME NEW t \in Threads, NEW r \in Requests, Arrives(t, r)
       PROVE  Goal
  <2>1. Files(NoOne)
    BY <1>2, <1>21 DEF Arrives
  <2>2. at'[t] = Idle /\ \A u \in Threads : u # t => at'[u] = at[u]
    BY <1>21, EndsThread
  <2>3. \A u \in Threads : Thr(NoOne, u)
    BY <1>3, <1>4, <2>2
  <2> QED
    BY <1>1, <2>1, <2>3
<1>22. ASSUME NEW t \in Threads, NEW r \in Requests, Yields(t, r)
       PROVE  Goal
  <2>1. Files(NoOne)
    BY <1>5, <1>22, KnownNow DEF Yields, Stores
  <2>2. at'[t] = Idle /\ \A u \in Threads : u # t => at'[u] = at[u]
    BY <1>22, EndsThread
  <2>3. \A u \in Threads : Thr(NoOne, u)
    BY <1>3, <1>4, <2>2
  <2> QED
    BY <1>1, <2>1, <2>3
<1>23. ASSUME NEW t \in Threads, NEW r \in Requests, NEW p \in Receipts, Preparing(t, r, p)
       PROVE  Known(r, r, p.new)
  <2>1. /\ at[t].req = r
        /\ p.new \in {at[t].seen.new, receipts[r].new} \/ (p.new = next + 1 /\ next' = next + 1)
    BY <1>23 DEF Preparing
  <2>2. CASE p.new \in {at[t].seen.new, receipts[r].new}
    BY <2>1, <2>2, KnownNow
  <2>3. CASE p.new = next + 1 /\ next' = next + 1
    BY <2>3 DEF Known
  <2> QED
    BY <2>1, <2>2, <2>3
<1>24. ASSUME NEW t \in Threads, NEW r \in Requests, NEW p \in Receipts,
              Prepares(t, r, p) \/ PreparesInVain(t, r, p)
       PROVE  Goal
  <2>0. Preparing(t, r, p) /\ at[t].req = r
    BY <1>24 DEF Prepares, PreparesInVain, Preparing
  <2>1. Files(r)
    <3>1. /\ receipts'[r] = p /\ \A q \in Requests : q # r => receipts'[q] = receipts[q]
          /\ UNCHANGED <<issued, tasks>> /\ durReceipts' \in {receipts', durReceipts}
      BY <1>24 DEF Prepares, PreparesInVain, Preparing, Stores
    <3> QED
      BY <1>23, <2>0, <3>1, KnownNow
  <2>2. Thr(r, t)
    <3>1. CASE Prepares(t, r, p)
      BY <1>23, <2>0, <3>1, PreparesThread
    <3>2. CASE PreparesInVain(t, r, p)
      BY <1>4, <3>2, EndsThread
    <3> QED
      BY <1>24, <3>1, <3>2
  <2>3. \A u \in Threads : u # t => at'[u] = at[u]
    BY <1>24, PreparesThread, EndsThread
  <2>4. \A u \in Threads : Thr(r, u)
    BY <1>3, <2>2, <2>3
  <2> QED
    BY <1>1, <2>1, <2>4
<1>25. ASSUME NEW t \in Threads, NEW r \in Requests, NEW w \in Receipts, Binds(t, r, w)
       PROVE  Goal
  <2>1. Files(NoOne)
    <3>1. /\ receipts'[r] = w /\ \A q \in Requests : q # r => receipts'[q] = receipts[q]
          /\ UNCHANGED <<issued, tasks>> /\ durReceipts' \in {receipts', durReceipts}
          /\ w = WithSession(receipts[r], at[t].minted)
      BY <1>25 DEF Binds, Stores
    <3>2. w.new = receipts[r].new
      <4>1. /\ receipts[r] \in Receipts /\ Len(receipts[r].sessions) <= KeepSessions
            /\ at[t].minted \in Sids
        BY ThreadTypes DEF Basics, TypeOK
      <4> QED
        BY <3>1, <4>1, WithSessionFacts
    <3> QED
      BY <3>1, <3>2, KnownNow
  <2>2. Thr(NoOne, t)
    BY <1>6, <1>25, BindsThread
  <2>3. \A u \in Threads : Thr(NoOne, u)
    BY <1>3, <1>25, <2>2, BindsThread
  <2> QED
    BY <1>1, <2>1, <2>3
<1>26. ASSUME NEW t \in Threads, NEW r \in Requests, Queues(t, r)
       PROVE  Goal
  <2>1. Files(NoOne)
    <3>1. /\ tasks'[r].target = at[t].new /\ at[t].req = r
          /\ \A q \in Requests : q # r => tasks'[q] = tasks[q]
          /\ UNCHANGED <<issued, receipts, durReceipts>>
      BY <1>26 DEF Queues
    <3> QED
      BY <3>1, KnownNow
  <2>2. Thr(NoOne, t)
    BY <1>4, <1>6, <1>26, QueuesThread
  <2>3. \A u \in Threads : Thr(NoOne, u)
    BY <1>3, <1>26, <2>2, QueuesThread
  <2> QED
    BY <1>1, <2>1, <2>3
<1>27. ASSUME NEW t \in Threads, NEW r \in Requests, Commits(t, r)
       PROVE  Goal
  <2>1. Files(NoOne)
    <3>1. /\ issued'[r] = at[t].new /\ at[t].req = r
          /\ \A q \in Requests : q # r => issued'[q] = issued[q]
          /\ UNCHANGED <<tasks, receipts, durReceipts>>
      BY <1>27 DEF Commits
    <3> QED
      BY <3>1, KnownNow
  <2>2. Thr(NoOne, t)
    BY <1>6, <1>27, CommitsThread
  <2>3. \A u \in Threads : Thr(NoOne, u)
    BY <1>3, <1>27, <2>2, CommitsThread
  <2> QED
    BY <1>1, <2>1, <2>3
<1>28. Goal
  BY <1>5, <1>10, <1>11, <1>12, <1>13, <1>14, <1>15, <1>16, <1>17, <1>18, <1>19, <1>20, <1>21,
     <1>22, <1>24, <1>25, <1>26, <1>27 DEF Step, OtherStep, ThreadStep
<1> QED
  BY <1>28 DEF Goal

\* No token belongs to two requests.
Disjoint == \A r, q \in Requests : r # q => \A x : ~(Token(r, x) /\ Token(q, x))

\* A token in force is the one its request has issued.
InForce == \A r \in Requests : \A x : Token(r, x) /\ x \in {gen, durGen} => issued[r] = x

\* As long as a rotation that a crash has undone can be repeated, everything that
\* is left of it names the token it had issued.
Agreed ==
  \A r \in Requests : gen <= posted[r] /\ issued[r] # 0 =>
     /\ receipts[r].new = issued[r] /\ durReceipts[r].new = issued[r]
     /\ \A t \in Threads : at[t].req = r => at[t].seen.new \in {0, issued[r]}

\* A thread that answers has its token committed, and it was not undone.
Answering ==
  \A t \in Threads : at[t].pc \in Past => issued[at[t].req] = at[t].new /\ gen >= at[t].new

\* A crash would put back the token of a page.
Undoable == gen > durGen => \E q \in Requests : posted[q] = durGen /\ issued[q] # 0

\* The invariant the refinement rests on.
Core == Basics /\ Disjoint /\ InForce /\ Agreed /\ Answering /\ Undoable

\* Who commits writes a token of its own request alone, the one it had issued if it had
\* issued any, over the token of its page or over itself.
LEMMA CommitFacts ==
  ASSUME Core, NEW t \in Threads, NEW r \in Requests, Commits(t, r), NEW n, n = at[t].new
  PROVE  /\ n \in Nat /\ n <= next /\ n > posted[r] /\ posted[r] \in Nat /\ posted[r] >= 1
         /\ Token(r, n) /\ issued[r] \in {0, n} /\ gen <= n /\ durGen <= n
         /\ (gen = n /\ issued[r] = n) \/ (gen = posted[r] /\ gen < n)
         /\ \A q \in Requests : q # r => ~Token(q, n)
<1>0. Basics /\ TypeOK /\ Ordered
  BY DEF Core, Basics
<1>1. at[t].pc = "commit" /\ at[t].req = r /\ CanCommit(t)
  BY DEF Commits
<1>2. /\ posted[r] \in Nat /\ posted[r] # 0 /\ n \in Nat /\ n > posted[r] /\ n <= next
      /\ at[t].seen # NoReceipt /\ at[t].seen.new = n /\ at[t].seen.old = posted[r]
  <2>1. AtWork(at[t], posted[r], next, Len(sessions)) /\ posted[r] # 0
    BY <1>0, <1>1, ReqOf
  <2>2. n \in Gens /\ posted[r] \in Nat
    BY <1>0, ThreadTypes, RequestTypes
  <2> QED
    BY <1>1, <2>1, <2>2, ReceiptAssumption DEF AtWork, OfPage, Held, Past, Gens
<1>3. Token(r, n)
  BY <1>1, <1>2 DEF Token, Tok
<1>4. gen = n \/ gen = posted[r]
  BY <1>1, <1>2 DEF CanCommit
<1>5. gen \in Nat /\ durGen \in Nat /\ durGen <= gen
  BY <1>0, GenTypes DEF Ordered
<1>6. ASSUME gen = n PROVE issued[r] = n
  BY <1>3, <1>6 DEF Core, InForce
<1>7. ASSUME gen = posted[r] PROVE issued[r] \in {0, n}
  <2>1. ASSUME issued[r] # 0 PROVE issued[r] = n
    <3>1. at[t].seen.new \in {0, issued[r]}
      BY <1>1, <1>2, <1>5, <1>7, <2>1 DEF Core, Agreed
    <3> QED
      BY <1>2, <3>1
  <2> QED
    BY <2>1
<1>8. \A q \in Requests : q # r => ~Token(q, n)
  BY <1>3 DEF Core, Disjoint
<1> QED
  BY <1>2, <1>3, <1>4, <1>5, <1>6, <1>7, <1>8

\* The tokens a request has after a step, in one form for every step.
LEMMA NextTokens ==
  ASSUME Basics, TypeOK', Step
  PROVE  \E f : \A q \in Requests : \A x : Token(q, x)' =>
            Token(q, x) \/ (q = f /\ x = next + 1 /\ next' = next + 1)
<1>1. PICK f : \A q \in Requests : \A x :
                  Tok(receipts', durReceipts', issued', tasks', at', q, x) => Known(f, q, x)
  BY TokenStep
<1>2. \A q \in Requests : \A x : Token(q, x)' =>
            Token(q, x) \/ (q = f /\ x = next + 1 /\ next' = next + 1)
  <2>1. ASSUME NEW q \in Requests, NEW x, Token(q, x)'
        PROVE  Token(q, x) \/ (q = f /\ x = next + 1 /\ next' = next + 1)
    <3>1. Tok(receipts', durReceipts', issued', tasks', at', q, x)
      BY <2>1 DEF Token
    <3>2. Known(f, q, x) /\ x # 0
      BY <1>1, <3>1 DEF Tok
    <3> QED
      BY <3>2 DEF Known
  <2> QED
    BY <2>1
<1> QED
  BY <1>2

\* No step gives two requests the same token.
LEMMA DisjointStep ==
  ASSUME Core, TypeOK', Step
  PROVE  Disjoint'
<1>1. Basics /\ next \in Nat
  BY GenTypes DEF Core, Basics
<1>2. PICK f : \A q \in Requests : \A x : Token(q, x)' =>
            Token(q, x) \/ (q = f /\ x = next + 1 /\ next' = next + 1)
  BY <1>1, NextTokens
<1>3. ASSUME NEW r \in Requests, NEW q \in Requests, r # q, NEW x, Token(r, x)', Token(q, x)'
      PROVE  FALSE
  <2>1. /\ Token(r, x) \/ (r = f /\ x = next + 1)
        /\ Token(q, x) \/ (q = f /\ x = next + 1)
    BY <1>2, <1>3
  <2>2. ~(Token(r, x) /\ Token(q, x))
    BY <1>3 DEF Core, Disjoint
  <2>3. Token(r, x) => x <= next /\ x \in Nat
    BY <1>1, TokenBound
  <2>4. Token(q, x) => x <= next /\ x \in Nat
    BY <1>1, TokenBound
  <2> QED
    BY <1>1, <1>3, <2>1, <2>2, <2>3, <2>4
<1> QED
  BY <1>3 DEF Disjoint

\* The steps that change what is in force or issued.
LEMMA Effects ==
  ASSUME Basics, TypeOK', Step
  PROVE  \/ \E t \in Threads, r \in Requests : Commits(t, r)
         \/ Reboots
         \/ Overruled
         \/ /\ UNCHANGED <<gen, durGen>>
            /\ \A r \in Requests : issued'[r] = issued[r] \/ (issued'[r] = 0 /\ gen <= posted[r])
<1> DEFINE Same == /\ UNCHANGED <<gen, durGen>>
                   /\ \A r \in Requests :
                         issued'[r] = issued[r] \/ (issued'[r] = 0 /\ gen <= posted[r])
<1>0. gen \in Nat /\ \A r \in Requests : posted[r] \in Nat
  BY GenTypes, RequestTypes DEF Basics
<1>1. ASSUME UNCHANGED <<gen, durGen, issued>>
      PROVE  Same
  BY <1>1
<1>2. ASSUME NEW r \in Requests, Rendered(r) \/ Removed(r) \/ Judged(r)
      PROVE  Same
  BY <1>1, <1>2 DEF Rendered, Removed, Judged
<1>3. ASSUME NEW r \in Requests, Expired(r)
      PROVE  Same
  BY <1>3 DEF Expired
<1>4. ASSUME Restarts \/ SignsIn \/ Rests
      PROVE  Same
  BY <1>1, <1>4 DEF Restarts, Dies, SignsIn, Rests
<1>5. ASSUME NEW t \in Threads, NEW r \in Requests, Begins(t, r) \/ Queues(t, r) \/ Arrives(t, r)
      PROVE  Same
  BY <1>1, <1>5 DEF Begins, Queues, Arrives
<1>6. ASSUME NEW t \in Threads, NEW r \in Requests, Yields(t, r)
      PROVE  Same
  BY <1>0, <1>6 DEF Yields
<1>7. ASSUME NEW t \in Threads, NEW r \in Requests, NEW p \in Receipts,
             Prepares(t, r, p) \/ PreparesInVain(t, r, p) \/ Binds(t, r, p)
      PROVE  Same
  BY <1>1, <1>7 DEF Prepares, PreparesInVain, Preparing, Binds
<1>8. ASSUME NEW t \in Threads, NEW rec \in Receipts,
             Looks(t, rec) \/ Skips(t) \/ BindsNothing(t) \/ Ends(t) \/ Mints(t)
      PROVE  Same
  BY <1>1, <1>8 DEF Looks, Skips, BindsNothing, Ends, Mints
<1>9. NoReceipt \in Receipts
  BY NoReceiptType
<1> HIDE DEF Same
<1>10. \/ \E t \in Threads, r \in Requests : Commits(t, r)
       \/ Reboots \/ Overruled \/ Same
  BY <1>2, <1>3, <1>4, <1>5, <1>6, <1>7, <1>8, <1>9 DEF Step, OtherStep, ThreadStep
<1> QED
  BY <1>10 DEF Same

\* Every step keeps the token in force that of the request that has issued it.
LEMMA InForceStep ==
  ASSUME Core, TypeOK', Step
  PROVE  InForce'
<1>0. /\ Basics /\ TypeOK /\ InForce /\ next \in Nat /\ gen \in Nat /\ durGen \in Nat
      /\ gen >= 1 /\ durGen >= 1 /\ durGen <= gen /\ gen <= next
  BY GenTypes DEF Core, Basics, Ordered
<1>1. PICK f : \A q \in Requests : \A x : Token(q, x)' =>
            Token(q, x) \/ (q = f /\ x = next + 1 /\ next' = next + 1)
  BY <1>0, NextTokens
<1> SUFFICES ASSUME NEW r \in Requests, NEW x, Token(r, x)', x \in {gen', durGen'}
             PROVE  issued'[r] = x
  BY DEF InForce
<1>2. ASSUME UNCHANGED <<gen, durGen>>,
             issued'[r] = issued[r] \/ (issued'[r] = 0 /\ gen <= posted[r])
      PROVE  issued'[r] = x
  <2>1. Token(r, x)
    BY <1>0, <1>1, <1>2
  <2>2. issued[r] = x
    BY <1>0, <1>2, <2>1 DEF InForce
  <2>3. x \in Nat /\ x > posted[r] /\ posted[r] \in Nat
    BY <1>0, <2>1, TokenBound, RequestTypes
  <2>4. ~(gen <= posted[r])
    BY <1>0, <1>2, <2>3
  <2> QED
    BY <1>2, <2>2, <2>4
<1>3. ASSUME NEW t \in Threads, NEW q \in Requests, Commits(t, q)
      PROVE  issued'[r] = x
  <2> DEFINE n == at[t].new
  <2>1. /\ n \in Nat /\ n <= next /\ issued[q] \in {0, n}
        /\ \A u \in Requests : u # q => ~Token(u, n)
    BY <1>3, CommitFacts
  <2>2. /\ gen' = n /\ durGen' \in {durGen, n} /\ issued'[q] = n /\ next' = next
        /\ \A u \in Requests : u # q => issued'[u] = issued[u]
    BY <1>3 DEF Commits
  <2>3. Token(r, x)
    BY <1>0, <1>1, <2>2
  <2>4. CASE x = n
    BY <2>1, <2>2, <2>3, <2>4
  <2>5. CASE x # n
    <3>1. x = durGen
      BY <2>2, <2>5
    <3>2. issued[r] = x
      BY <1>0, <2>3, <3>1 DEF InForce
    <3>3. r # q
      BY <1>0, <2>1, <2>5, <3>1, <3>2
    <3> QED
      BY <2>2, <3>2, <3>3
  <2> QED
    BY <2>4, <2>5
<1>4. ASSUME Overruled
      PROVE  issued'[r] = x
  <2>1. UNCHANGED <<receipts, durReceipts, issued, tasks, at>> /\ x = next + 1
    BY <1>4 DEF Overruled
  <2>2. Token(r, x)
    BY <2>1 DEF Token
  <2>3. x <= next
    BY <1>0, <2>2, TokenBound
  <2> QED
    BY <1>0, <2>1, <2>3
<1>5. ASSUME Reboots
      PROVE  issued'[r] = x
  <2>1. /\ x = durGen /\ next' = next
        /\ issued'[r] = IF posted[r] >= durGen /\ durReceipts[r].new # issued[r]
                          THEN 0 ELSE issued[r]
    BY <1>5 DEF Reboots, Dies
  <2>2. Token(r, x)
    BY <1>0, <1>1, <2>1
  <2>3. issued[r] = x /\ x \in Nat /\ posted[r] \in Nat /\ x > posted[r]
    BY <1>0, <2>1, <2>2, TokenBound, RequestTypes DEF InForce
  <2>4. ~(posted[r] >= durGen)
    BY <1>0, <2>1, <2>3
  <2> QED
    BY <2>1, <2>3, <2>4
<1> QED
  BY <1>0, <1>2, <1>3, <1>4, <1>5, Effects

\* Every step keeps a crash one that puts back the token of a page.
LEMMA UndoableStep ==
  ASSUME Core, TypeOK', Step
  PROVE  Undoable'
<1>0. /\ Basics /\ TypeOK /\ Undoable /\ next \in Nat /\ gen \in Nat /\ durGen \in Nat
      /\ gen >= 1 /\ durGen >= 1 /\ durGen <= gen /\ gen <= next
  BY GenTypes DEF Core, Basics, Ordered
<1> SUFFICES ASSUME gen' > durGen'
             PROVE  \E q \in Requests : posted'[q] = durGen' /\ issued'[q] # 0
  BY DEF Undoable
<1>1. \A r \in Requests : posted[r] # 0 => posted'[r] = posted[r]
  BY <1>0, Grows
<1>2. ASSUME UNCHANGED <<gen, durGen>>,
             \A r \in Requests : issued'[r] = issued[r] \/ (issued'[r] = 0 /\ gen <= posted[r])
      PROVE  \E q \in Requests : posted'[q] = durGen' /\ issued'[q] # 0
  <2>1. PICK q \in Requests : posted[q] = durGen /\ issued[q] # 0
    BY <1>0, <1>2 DEF Undoable
  <2>2. ~(gen <= posted[q])
    BY <1>0, <1>2, <2>1
  <2>3. posted'[q] = durGen' /\ issued'[q] # 0
    BY <1>0, <1>1, <1>2, <2>1, <2>2
  <2> QED
    BY <2>3
<1>3. ASSUME NEW t \in Threads, NEW r \in Requests, Commits(t, r)
      PROVE  \E q \in Requests : posted'[q] = durGen' /\ issued'[q] # 0
  <2> DEFINE n == at[t].new
  <2>1. /\ n \in Nat /\ n > posted[r] /\ posted[r] \in Nat /\ posted[r] >= 1
        /\ (gen = n /\ issued[r] = n) \/ (gen = posted[r] /\ gen < n)
    BY <1>3, CommitFacts
  <2>2. /\ gen' = n /\ durGen' \in {durGen, n} /\ issued'[r] = n /\ UNCHANGED posted
        /\ \A u \in Requests : u # r => issued'[u] = issued[u]
    BY <1>3 DEF Commits
  <2>3. durGen' = durGen /\ durGen < n
    BY <2>1, <2>2
  <2>4. CASE durGen = gen
    <3>1. gen = posted[r]
      BY <1>0, <2>1, <2>3, <2>4
    <3> QED
      BY <2>1, <2>2, <2>3, <2>4, <3>1
  <2>5. CASE durGen # gen
    <3>1. PICK q \in Requests : posted[q] = durGen /\ issued[q] # 0
      BY <1>0, <2>5 DEF Undoable
    <3>2. issued'[q] # 0
      BY <2>1, <2>2, <3>1
    <3> QED
      BY <2>2, <2>3, <3>1, <3>2
  <2> QED
    BY <2>4, <2>5
<1>4. ASSUME Overruled \/ Reboots
      PROVE  FALSE
  BY <1>0, <1>4 DEF Overruled, Reboots, Dies
<1> QED
  BY <1>0, <1>2, <1>3, <1>4, Effects

\* Every step keeps a thread that answers with the token its request has issued.
LEMMA AnsweringStep ==
  ASSUME Core, TypeOK', Step
  PROVE  Answering'
<1>0. /\ Basics /\ TypeOK /\ Answering /\ next \in Nat /\ gen \in Nat /\ gen <= next
      /\ NoOne \notin Requests
  BY GenTypes, ReceiptAssumption DEF Core, Basics, Ordered
<1>1. ASSUME NEW t \in Threads, at[t].pc \in Past
      PROVE  /\ at[t].req \in Requests /\ at[t].new \in Nat /\ posted[at[t].req] \in Nat
             /\ at[t].new > posted[at[t].req] /\ at[t].new # 0
             /\ issued[at[t].req] = at[t].new /\ gen >= at[t].new
  <2>1. at[t].pc # "idle"
    BY <1>1 DEF Past
  <2>2. at[t].req \in Requests /\ AtWork(at[t], posted[at[t].req], next, Len(sessions))
    BY <1>0, <2>1, ReqOf
  <2>3. at[t].new \in Nat /\ posted[at[t].req] \in Nat
    BY <1>0, <2>2, ThreadTypes, RequestTypes, ReceiptAssumption DEF Gens
  <2>4. issued[at[t].req] = at[t].new /\ gen >= at[t].new
    BY <1>0, <1>1 DEF Answering
  <2> QED
    BY <1>1, <2>2, <2>3, <2>4 DEF AtWork
\* The threads that were answering before.
<1>2. ASSUME NEW t \in Threads, at[t].pc \in Past, ~Reboots
      PROVE  issued'[at[t].req] = at[t].new /\ gen' >= at[t].new
  <2> DEFINE r == at[t].req
  <2>0. /\ r \in Requests /\ at[t].new \in Nat /\ posted[r] \in Nat /\ at[t].new > posted[r]
        /\ issued[r] = at[t].new /\ gen >= at[t].new /\ at[t].new # 0
    BY <1>1, <1>2
  <2>1. ASSUME UNCHANGED gen, issued'[r] = issued[r] \/ (issued'[r] = 0 /\ gen <= posted[r])
        PROVE  issued'[r] = at[t].new /\ gen' >= at[t].new
    BY <1>0, <2>0, <2>1
  <2>2. ASSUME Overruled
        PROVE  issued'[r] = at[t].new /\ gen' >= at[t].new
    BY <1>0, <2>0, <2>2 DEF Overruled
  <2>3. ASSUME NEW u \in Threads, NEW q \in Requests, Commits(u, q)
        PROVE  issued'[r] = at[t].new /\ gen' >= at[t].new
    <3>1. gen <= at[u].new /\ issued[q] \in {0, at[u].new} /\ at[u].new \in Nat
      BY <2>3, CommitFacts
    <3>2. /\ gen' = at[u].new /\ issued'[q] = at[u].new
          /\ \A v \in Requests : v # q => issued'[v] = issued[v]
      BY <2>3 DEF Commits
    <3>3. issued'[r] = at[t].new
      BY <2>0, <3>1, <3>2
    <3>4. gen' >= at[t].new
      BY <1>0, <2>0, <3>1, <3>2
    <3> QED
      BY <3>3, <3>4
  <2> QED
    BY <1>0, <1>2, <2>0, <2>1, <2>2, <2>3, Effects
<1>3. ASSUME NEW t \in Threads, at'[t].pc = "idle"
      PROVE  at'[t].pc \notin Past
  BY <1>3 DEF Past
\* Whoever answers after the step did so before, or has just committed.
<1>4. ASSUME NEW t \in Threads, at'[t].pc \in Past
      PROVE  /\ ~Reboots
             /\ \/ /\ at[t].pc \in Past /\ at'[t].req = at[t].req /\ at'[t].new = at[t].new
                \/ Commits(t, at'[t].req) /\ at'[t].new = at[t].new /\ at'[t].req \in Requests
  <2> DEFINE Before == at[t].pc \in Past /\ at'[t].req = at[t].req /\ at'[t].new = at[t].new
             Now == Commits(t, at'[t].req) /\ at'[t].new = at[t].new /\ at'[t].req \in Requests
  <2>0. at'[t] # Idle
    BY <1>4, IdleFields DEF Past
  <2>1. ~Reboots /\ ~Restarts
    BY <2>0 DEF Reboots, Restarts, Dies
  <2>2. ASSUME at'[t] = at[t] PROVE Before
    BY <1>4, <2>2
  <2>3. ASSUME NEW r \in Requests, Rendered(r) \/ Expired(r) \/ Removed(r) \/ Judged(r)
        PROVE  Before
    BY <2>2, <2>3 DEF Rendered, Expired, Removed, Judged
  <2>4. ASSUME Overruled \/ SignsIn \/ Rests PROVE Before
    BY <2>2, <2>4 DEF Overruled, SignsIn, Rests
  <2>5. ASSUME NEW u \in Threads, NEW r, NEW p,
               Ends(u) \/ Yields(u, r) \/ Arrives(u, r) \/ PreparesInVain(u, r, p)
        PROVE  Before
    BY <2>0, <2>2, <2>5, EndsThread
  <2>6. ASSUME NEW u \in Threads, NEW r \in Requests, Begins(u, r) PROVE Before
    BY <1>4, <2>2, <2>6, BeginsThread DEF Past
  <2>7. ASSUME NEW u \in Threads, NEW rec \in Receipts, Looks(u, rec) PROVE Before
    BY <1>0, <1>4, <2>2, <2>7, LooksThread DEF Past
  <2>8. ASSUME NEW u \in Threads, NEW r \in Requests, NEW p \in Receipts, Prepares(u, r, p)
        PROVE  Before
    BY <1>0, <1>4, <2>2, <2>8, PreparesThread DEF Past
  <2>9. ASSUME NEW u \in Threads, NEW r \in Requests, Queues(u, r)
        PROVE  Before
    BY <1>0, <1>4, <2>0, <2>2, <2>9, QueuesThread DEF Past
  <2>10. ASSUME NEW u \in Threads, Skips(u) PROVE Before
    <3>1. at[u].pc = "mint"
      BY <2>10 DEF Skips
    <3> QED
      BY <1>0, <1>4, <2>2, <2>10, <3>1, SkipsThread DEF Past
  <2>11. ASSUME NEW u \in Threads, Mints(u) PROVE Before
    <3>1. at[u].pc = "mint"
      BY <2>11 DEF Mints
    <3> QED
      BY <1>0, <1>4, <2>2, <2>11, <3>1, MintsThread DEF Past
  <2>12. ASSUME NEW u \in Threads, BindsNothing(u) PROVE Before
    <3>1. at[u].pc = "bind"
      BY <2>12 DEF BindsNothing
    <3> QED
      BY <1>0, <1>4, <2>2, <2>12, <3>1, BindsNothingThread DEF Past
  <2>13. ASSUME NEW u \in Threads, NEW r \in Requests, NEW w \in Receipts, Binds(u, r, w)
         PROVE  Before
    <3>1. at[u].pc = "bind"
      BY <2>13 DEF Binds
    <3> QED
      BY <1>0, <1>4, <2>2, <2>13, <3>1, BindsThread DEF Past
  <2>14. ASSUME NEW u \in Threads, NEW r \in Requests, Commits(u, r) PROVE Before \/ Now
    <3>1. CASE u = t
      <4>1. at'[t].req = at[t].req /\ at'[t].new = at[t].new /\ at[t].req = r
        BY <1>0, <2>14, <3>1, CommitsThread DEF Commits
      <4> QED
        BY <2>14, <3>1, <4>1
    <3>2. CASE u # t
      BY <1>0, <2>2, <2>14, <3>2, CommitsThread
    <3> QED
      BY <3>1, <3>2
  <2>15. NoReceipt \in Receipts
    BY NoReceiptType
  <2> HIDE DEF Before, Now
  <2>16. Before \/ Now
    BY <2>1, <2>3, <2>4, <2>5, <2>6, <2>7, <2>8, <2>9, <2>10, <2>11, <2>12, <2>13, <2>14, <2>15
       DEF Step, OtherStep, ThreadStep
  <2> QED
    BY <2>1, <2>16 DEF Before, Now
<1> SUFFICES ASSUME NEW t \in Threads, at'[t].pc \in Past
             PROVE  issued'[at'[t].req] = at'[t].new /\ gen' >= at'[t].new
  BY DEF Answering
<1>5. CASE at[t].pc \in Past /\ at'[t].req = at[t].req /\ at'[t].new = at[t].new /\ ~Reboots
  BY <1>2, <1>5
<1>6. CASE Commits(t, at'[t].req) /\ at'[t].new = at[t].new /\ at'[t].req \in Requests
  <2>1. at[t].new \in Nat
    BY <1>6, CommitFacts
  <2> QED
    BY <1>6, <2>1 DEF Commits
<1> QED
  BY <1>4, <1>5, <1>6

\* Every step keeps all that is left of an undone rotation in agreement.
LEMMA AgreedStep ==
  ASSUME Core, TypeOK', Step
  PROVE  Agreed'
<1>0. /\ Basics /\ TypeOK /\ Agreed /\ next \in Nat /\ gen \in Nat /\ durGen \in Nat
      /\ gen >= 1 /\ durGen <= gen /\ gen <= next
  BY GenTypes DEF Core, Basics, Ordered
<1> SUFFICES ASSUME NEW r \in Requests, gen' <= posted'[r], issued'[r] # 0
             PROVE  /\ receipts'[r].new = issued'[r] /\ durReceipts'[r].new = issued'[r]
                    /\ \A t \in Threads : at'[t].req = r => at'[t].seen.new \in {0, issued'[r]}
  BY DEF Agreed
<1> DEFINE Goal == /\ receipts'[r].new = issued'[r] /\ durReceipts'[r].new = issued'[r]
                   /\ \A t \in Threads : at'[t].req = r => at'[t].seen.new \in {0, issued'[r]}
           Premise == gen <= posted[r] /\ issued'[r] = issued[r]
           Kept == /\ receipts'[r].new = receipts[r].new
                   /\ durReceipts'[r].new \in {receipts[r].new, durReceipts[r].new}
           Thr(t) == at'[t].req = r => \/ at'[t].seen.new \in {0, receipts[r].new}
                                       \/ at[t].req = r /\ at'[t].seen.new = at[t].seen.new
<1>1. ASSUME Premise, Kept, \A t \in Threads : Thr(t)
      PROVE  Goal
  <2>1. /\ receipts[r].new = issued[r] /\ durReceipts[r].new = issued[r]
        /\ \A t \in Threads : at[t].req = r => at[t].seen.new \in {0, issued[r]}
    BY <1>0, <1>1 DEF Agreed
  <2> QED
    BY <1>1, <2>1
<1>2. ASSUME UNCHANGED <<gen, posted>>, issued'[r] = issued[r] PROVE Premise
  BY <1>2
<1>3. ASSUME receipts'[r] = receipts[r], durReceipts'[r] = durReceipts[r] PROVE Kept
  BY <1>3
<1>4. ASSUME NEW t \in Threads, at'[t] = at[t] PROVE Thr(t)
  BY <1>4
<1>5. ASSUME NEW t \in Threads, at'[t] = Idle PROVE Thr(t)
  BY <1>5, IdleFields
<1>6. ASSUME NEW t \in Threads, at'[t].req = at[t].req,
             at'[t].seen \in {NoReceipt, at[t].seen}
      PROVE  Thr(t)
  BY <1>6, NoReceiptType
<1>7. posted[r] \in Nat /\ issued[r] \in Nat /\ posted[r] <= next
      /\ IssuedOK(issued[r], posted[r], next)
  BY <1>0, RequestTypes DEF Basics, RequestsOK
<1> HIDE DEF Goal, Premise, Kept, Thr
<1>10. ASSUME NEW q \in Requests, Rendered(q)
       PROVE  Goal
  <2>1. q # r
    BY <1>0, <1>7, <1>10 DEF Rendered, IssuedOK
  <2>2. Premise
    BY <1>10, <2>1 DEF Rendered, Premise
  <2> QED
    BY <1>1, <1>3, <1>4, <1>10, <2>2 DEF Rendered
<1>11. ASSUME NEW q \in Requests, Removed(q) \/ Judged(q) \/ SignsIn \/ Rests
       PROVE  Goal
  <2>1. UNCHANGED <<gen, posted, issued, receipts, durReceipts, at>>
    BY <1>11 DEF Removed, Judged, SignsIn, Rests
  <2> QED
    BY <1>1, <1>2, <1>3, <1>4, <2>1
<1>12. ASSUME NEW q \in Requests, Expired(q)
       PROVE  Goal
  <2>1. q # r /\ UNCHANGED <<gen, posted, at>>
    BY <1>12 DEF Expired
  <2>2. receipts'[r] = receipts[r] /\ durReceipts' = receipts' /\ issued'[r] = issued[r]
    BY <1>12, <2>1 DEF Expired, Stores
  <2>3. Kept
    BY <2>2 DEF Kept
  <2> QED
    BY <1>1, <1>2, <1>4, <2>1, <2>2, <2>3
<1>13. ASSUME Overruled
       PROVE  Goal
  BY <1>0, <1>7, <1>13 DEF Overruled
<1>14. ASSUME Restarts
       PROVE  Goal
  <2>1. UNCHANGED <<gen, posted, issued, receipts, durReceipts>> /\ \A t \in Threads : at'[t] = Idle
    BY <1>14 DEF Restarts, Dies
  <2> QED
    BY <1>1, <1>2, <1>3, <1>5, <2>1
<1>15. ASSUME Reboots
       PROVE  Goal
  <2>1. /\ gen' = durGen /\ posted' = posted /\ receipts' = durReceipts /\ durReceipts' = durReceipts
        /\ issued'[r] = (IF posted[r] >= durGen /\ durReceipts[r].new # issued[r]
                           THEN 0 ELSE issued[r])
        /\ \A t \in Threads : at'[t] = Idle
    BY <1>15 DEF Reboots, Dies
  <2>2. issued'[r] = issued[r] /\ durReceipts[r].new = issued[r]
    BY <1>0, <1>7, <2>1
  <2> QED
    BY <2>1, <2>2, IdleFields, NoReceiptType DEF Goal
<1>16. ASSUME NEW t \in Threads, NEW q \in Requests, Begins(t, q)
       PROVE  Goal
  <2>1. UNCHANGED <<gen, posted, issued, receipts, durReceipts>>
    BY <1>16 DEF Begins
  <2>2. Thr(t)
    BY <1>16, BeginsThread, NoReceiptType DEF Thr
  <2>3. \A u \in Threads : Thr(u)
    BY <1>4, <1>16, <2>2, BeginsThread
  <2> QED
    BY <1>1, <1>2, <1>3, <2>1, <2>3
<1>17. ASSUME NEW t \in Threads, NEW rec \in Receipts, Looks(t, rec)
       PROVE  Goal
  <2>1. UNCHANGED <<gen, posted, issued, receipts, durReceipts>>
        /\ rec \in {NoReceipt, receipts[at[t].req]}
    BY <1>17 DEF Looks
  <2>2. Thr(t)
    <3>1. at'[t].req = at[t].req /\ at'[t].seen = rec
      BY <1>0, <1>17, LooksThread
    <3> QED
      BY <2>1, <3>1, NoReceiptType DEF Thr
  <2>3. \A u \in Threads : Thr(u)
    BY <1>0, <1>4, <1>17, <2>2, LooksThread
  <2> QED
    BY <1>1, <1>2, <1>3, <2>1, <2>3
<1>18. ASSUME NEW t \in Threads, Skips(t) \/ BindsNothing(t) \/ Mints(t)
       PROVE  Goal
  <2>1. UNCHANGED <<gen, posted, issued, receipts, durReceipts>>
    BY <1>18 DEF Skips, BindsNothing, Mints
  <2>2. /\ at'[t].req = at[t].req /\ at'[t].seen \in {NoReceipt, at[t].seen}
        /\ \A u \in Threads : u # t => at'[u] = at[u]
    BY <1>0, <1>18, SkipsThread, BindsNothingThread, MintsThread
  <2>3. \A u \in Threads : Thr(u)
    BY <1>4, <1>6, <2>2
  <2> QED
    BY <1>1, <1>2, <1>3, <2>1, <2>3
<1>19. ASSUME NEW t \in Threads, NEW q \in Requests, Ends(t) \/ Arrives(t, q)
       PROVE  Goal
  <2>1. UNCHANGED <<gen, posted, issued, receipts, durReceipts>>
    BY <1>19 DEF Ends, Arrives
  <2>2. at'[t] = Idle /\ \A u \in Threads : u # t => at'[u] = at[u]
    BY <1>19, EndsThread
  <2>3. \A u \in Threads : Thr(u)
    BY <1>4, <1>5, <2>2
  <2> QED
    BY <1>1, <1>2, <1>3, <2>1, <2>3
<1>20. ASSUME NEW t \in Threads, NEW q \in Requests, Queues(t, q)
       PROVE  Goal
  <2>1. UNCHANGED <<gen, posted, issued, receipts, durReceipts>>
    BY <1>20 DEF Queues
  <2>2. Thr(t)
    BY <1>0, <1>5, <1>6, <1>20, QueuesThread
  <2>3. \A u \in Threads : Thr(u)
    BY <1>0, <1>4, <1>20, <2>2, QueuesThread
  <2> QED
    BY <1>1, <1>2, <1>3, <2>1, <2>3
<1>21. ASSUME NEW t \in Threads, NEW q \in Requests, NEW p \in Receipts,
              Prepares(t, q, p) \/ PreparesInVain(t, q, p)
       PROVE  Goal
  <2>1. /\ UNCHANGED <<gen, posted, issued>> /\ Stores(q, p)
        /\ IF receipts[q] # NoReceipt THEN p = receipts[q] ELSE Len(p.sessions) <= 1
        /\ durReceipts' \in {durReceipts, receipts'} /\ at[t].req = q
    BY <1>21 DEF Prepares, PreparesInVain, Preparing
  <2>2. Premise
    BY <1>2, <2>1
  <2>3. receipts[r].new = issued[r]
    BY <1>0, <2>1 DEF Agreed
  <2>4. receipts'[r] = receipts[r]
    <3>1. CASE q = r
      <4>1. receipts[r] # NoReceipt
        BY <2>1, <2>3, NoReceiptType
      <4> QED
        BY <2>1, <3>1, <4>1 DEF Stores
    <3>2. CASE q # r
      BY <2>1, <3>2 DEF Stores
    <3> QED
      BY <3>1, <3>2
  <2>5. Kept
    BY <2>1, <2>4 DEF Kept
  <2>6. Thr(t)
    <3>1. CASE Prepares(t, q, p)
      <4>1. at'[t].req = q /\ at'[t].seen = p
        BY <1>0, <2>1, <3>1, PreparesThread
      <4>2. q = r => p = receipts[r]
        BY <2>1, <2>4 DEF Stores
      <4> QED
        BY <4>1, <4>2 DEF Thr
    <3>2. CASE PreparesInVain(t, q, p)
      BY <1>5, <3>2, EndsThread
    <3> QED
      BY <1>21, <3>1, <3>2
  <2>7. \A u \in Threads : u # t => at'[u] = at[u]
    BY <1>0, <1>21, PreparesThread, EndsThread
  <2>8. \A u \in Threads : Thr(u)
    BY <1>4, <2>6, <2>7
  <2> QED
    BY <1>1, <2>2, <2>5, <2>8
<1>22. ASSUME NEW t \in Threads, NEW q \in Requests, Commits(t, q)
       PROVE  Goal
  <2>1. at[t].new \in Nat /\ at[t].new > posted[q] /\ gen <= at[t].new
    BY <1>22, CommitFacts
  <2>2. gen' = at[t].new /\ UNCHANGED <<posted, receipts, durReceipts>>
    BY <1>22 DEF Commits
  <2>3. q # r
    BY <1>7, <2>1, <2>2
  <2>4. issued'[r] = issued[r]
    BY <1>22, <2>3 DEF Commits
  <2>5. Premise
    BY <1>0, <1>7, <2>1, <2>2, <2>4 DEF Premise
  <2>6. \A u \in Threads : Thr(u)
    BY <1>0, <1>4, <1>6, <1>22, CommitsThread
  <2> QED
    BY <1>1, <1>3, <2>2, <2>5, <2>6
<1>23. ASSUME NEW t \in Threads, NEW q \in Requests, Yields(t, q)
       PROVE  Goal
  <2>1. /\ at[t].pc = "commit" /\ at[t].req = q /\ ~CanCommit(t) /\ UNCHANGED <<gen, posted>>
        /\ issued'[q] = (IF gen < posted[q] THEN 0 ELSE issued[q])
        /\ \A u \in Requests : u # q => issued'[u] = issued[u]
        /\ Stores(q, NoReceipt) /\ durReceipts' = receipts'
    BY <1>23 DEF Yields
  <2>2. q # r
    <3>1. AtWork(at[t], posted[q], next, Len(sessions))
      BY <1>0, <2>1, ReqOf
    <3>2. at[t].seen.old = posted[q]
      BY <2>1, <3>1 DEF AtWork, OfPage, Held
    <3>3. gen # posted[q]
      BY <2>1, <3>2 DEF CanCommit
    <3> QED
      BY <1>0, <1>7, <2>1, <3>3
  <2>3. Premise
    BY <1>2, <2>1, <2>2
  <2>4. Kept
    BY <2>1, <2>2 DEF Kept, Stores
  <2>5. \A u \in Threads : Thr(u)
    BY <1>4, <1>5, <1>23, EndsThread
  <2> QED
    BY <1>1, <2>3, <2>4, <2>5
<1>24. ASSUME NEW t \in Threads, NEW q \in Requests, NEW w \in Receipts, Binds(t, q, w)
       PROVE  Goal
  <2>1. /\ UNCHANGED <<gen, posted, issued>> /\ Stores(q, w)
        /\ w = WithSession(receipts[q], at[t].minted) /\ durReceipts' \in {durReceipts, receipts'}
    BY <1>24 DEF Binds
  <2>2. w.new = receipts[q].new
    <3>1. /\ receipts[q] \in Receipts /\ Len(receipts[q].sessions) <= KeepSessions
          /\ at[t].minted \in Sids
      BY <1>0, ThreadTypes DEF TypeOK
    <3> QED
      BY <2>1, <3>1, WithSessionFacts
  <2>3. Kept
    BY <2>1, <2>2 DEF Kept, Stores
  <2>4. \A u \in Threads : Thr(u)
    BY <1>0, <1>4, <1>6, <1>24, BindsThread
  <2> QED
    BY <1>1, <1>2, <2>1, <2>3, <2>4
<1>25. NoReceipt \in Receipts
  BY NoReceiptType
<1>26. Goal
  <2>1. ASSUME OtherStep PROVE Goal
    BY <2>1, <1>10, <1>11, <1>12, <1>13, <1>14, <1>15 DEF OtherStep
  <2>2. ASSUME NEW t \in Threads, ThreadStep(t) PROVE Goal
    BY <2>2, <1>16, <1>17, <1>18, <1>19, <1>20, <1>21, <1>22, <1>23, <1>24 DEF ThreadStep
  <2> QED
    BY <2>1, <2>2 DEF Step
<1> QED
  BY <1>26 DEF Goal

\* Every action keeps Core.
LEMMA CoreStep ==
  ASSUME Core, [Next]_vars
  PROVE  Core' /\ Step
<1>1. Basics' /\ Step /\ TypeOK'
  BY BasicsStep DEF Core, Basics
<1> QED
  BY <1>1, DisjointStep, InForceStep, AgreedStep, AnsweringStep, UndoableStep DEF Core

-----------------------------------------------------------------------------
(* The refinement                                                          *)

\* Core holds at first.
LEMMA CoreInit == Init => Core
<1> SUFFICES ASSUME Init PROVE Core
  OBVIOUS
<1>1. /\ MaxGen \in Nat /\ MaxGen >= 1 /\ MaxSession \in Nat /\ MaxSession >= 1
      /\ MaxFaults \in Nat /\ KeepSessions \in Nat /\ NoOne \notin Requests \cup Threads
  BY ReceiptAssumption
<1>2. /\ \A r \in Requests : /\ receipts[r] = NoReceipt /\ durReceipts[r] = NoReceipt
                             /\ tasks[r] = NoTask /\ posted[r] = 0 /\ issued[r] = 0 /\ bound[r] = 0
      /\ \A t \in Threads : at[t] = Idle
      /\ gen = 1 /\ durGen = 1 /\ next = 1 /\ cookie = 1 /\ lock = NoOne
      /\ Len(sessions) = 1 /\ sessions[1] <= 1
  BY DEF Init, Password
<1>3. TypeOK
  <2>1. /\ receipts \in [Requests -> Receipts] /\ durReceipts \in [Requests -> Receipts]
        /\ tasks \in [Requests -> [prev : Gens, target : Gens]]
        /\ at \in [Threads -> ThreadStates]
    BY NoReceiptType DEF Init
  <2>2. \A r \in Requests : /\ Len(receipts[r].sessions) <= KeepSessions
                            /\ Len(durReceipts[r].sessions) <= KeepSessions
    BY <1>1, <1>2, NoReceiptType
  <2>3. sessions \in Seq(Gens) /\ Len(sessions) <= MaxSession
    <3>1. PICK s \in {1, Password} : sessions = <<s>>
      BY DEF Init
    <3>2. s \in Gens
      BY <1>1 DEF Gens, Password
    <3> QED
      BY <1>1, <1>2, <3>1, <3>2
  <2>4. /\ gen \in 1..MaxGen /\ durGen \in 1..MaxGen /\ next \in 1..MaxGen
        /\ cookie \in 1..MaxSession /\ faults \in 0..MaxFaults
    BY <1>1 DEF Init
  <2>5. /\ posted \in [Requests -> Gens] /\ issued \in [Requests -> Gens]
        /\ bound \in [Requests -> Nat]
    BY <1>1 DEF Init, Gens
  <2>6. /\ doomed \in Requests \cup {NoOne} /\ lock \in Threads \cup {NoOne}
        /\ told \subseteq Requests \X Gens /\ revoked \subseteq Gens
        /\ expired \cup crossed \cup late \subseteq Requests
    BY DEF Init
  <2> QED
    BY <2>1, <2>2, <2>3, <2>4, <2>5, <2>6 DEF TypeOK
<1>4. ThreadsOK
  BY <1>2, IdleFields DEF ThreadsOK, ThreadOK
<1>5. LockOK
  BY <1>1, <1>2, IdleFields DEF LockOK, Held
<1>6. Ordered
  BY <1>2 DEF Ordered
<1>7. RequestsOK
  BY <1>2 DEF RequestsOK, IssuedOK, OfPage, TaskOK
<1>8. \A r \in Requests : \A x : ~Token(r, x)
  <2>1. NoReceipt.new = 0 /\ NoTask.target = 0
    BY NoReceiptType DEF NoTask
  <2> QED
    BY <1>1, <1>2, <2>1, IdleFields DEF Token, Tok
<1>9. Disjoint /\ InForce
  BY <1>8 DEF Disjoint, InForce
<1>10. Agreed /\ Undoable
  BY <1>2 DEF Agreed, Undoable
<1>11. Answering
  BY <1>2, IdleFields DEF Answering, Past
<1> QED
  BY <1>3, <1>4, <1>5, <1>6, <1>7, <1>9, <1>10, <1>11 DEF Core, Basics

\* Nothing changes that the abstract specification speaks of.
Same == UNCHANGED <<gen, posted, issued, told>>

\* A step that changes what the abstract specification speaks of is one of its steps.
LEMMA AbstractStep ==
  ASSUME Core, TypeOK', Step, ~Same
  PROVE  Abstract!Next
<1>0. /\ Basics /\ TypeOK /\ Answering /\ Agreed /\ Undoable
      /\ next \in Nat /\ gen \in Nat /\ durGen \in Nat
      /\ gen >= 1 /\ durGen >= 1 /\ durGen <= gen /\ gen <= next
  BY GenTypes DEF Core, Basics, Ordered
<1>1. /\ posted \in [Requests -> Gens] /\ issued \in [Requests -> Gens]
      /\ posted' \in [Requests -> Gens] /\ issued' \in [Requests -> Gens]
      /\ gen' \in 1..MaxGen
  BY <1>0 DEF TypeOK
<1>2. ASSUME NEW r \in Requests, Rendered(r)
      PROVE  Abstract!Next
  <2>1. posted' = [posted EXCEPT ![r] = gen]
    BY <1>1, <1>2 DEF Rendered
  <2>2. Abstract!Render(r)
    BY <1>2, <2>1 DEF Rendered, Abstract!Render
  <2> QED
    BY <2>2 DEF Abstract!Next
<1>3. ASSUME NEW r \in Requests, UNCHANGED <<gen, posted, told>>, gen <= posted[r],
             issued'[r] \in {0, issued[r]}, \A q \in Requests : q # r => issued'[q] = issued[q]
      PROVE  Abstract!Next
  <2>1. issued'[r] = 0 /\ issued[r] # 0
    <3>1. ASSUME issued'[r] = issued[r] PROVE issued' = issued
      BY <1>1, <1>3, <3>1
    <3> QED
      BY <1>3, <3>1 DEF Same
  <2>2. issued' = [issued EXCEPT ![r] = 0]
    BY <1>1, <1>3, <2>1
  <2>3. gen # issued[r]
    <3>1. IssuedOK(issued[r], posted[r], next) /\ posted[r] \in Nat /\ issued[r] \in Nat
      BY <1>0, RequestTypes DEF Basics, RequestsOK
    <3> QED
      BY <1>0, <1>3, <2>1, <3>1 DEF IssuedOK
  <2>4. Abstract!Forget(r)
    BY <1>3, <2>1, <2>2, <2>3 DEF Abstract!Forget
  <2> QED
    BY <2>4 DEF Abstract!Next
<1>4. ASSUME NEW r \in Requests, Expired(r)
      PROVE  Abstract!Next
  <2>1. /\ UNCHANGED <<gen, posted, told>>
        /\ issued'[r] = (IF gen <= posted[r] THEN 0 ELSE issued[r])
        /\ \A q \in Requests : q # r => issued'[q] = issued[q]
    BY <1>4 DEF Expired
  <2>2. CASE gen <= posted[r]
    BY <1>3, <2>1, <2>2
  <2>3. CASE ~(gen <= posted[r])
    <3>1. issued' = issued
      BY <1>1, <2>1, <2>3
    <3> QED
      BY <2>1, <3>1 DEF Same
  <2> QED
    BY <2>2, <2>3
<1>5. ASSUME NEW t \in Threads, NEW r \in Requests, Yields(t, r)
      PROVE  Abstract!Next
  <2>1. /\ UNCHANGED <<gen, posted, told>>
        /\ issued'[r] = (IF gen < posted[r] THEN 0 ELSE issued[r])
        /\ \A q \in Requests : q # r => issued'[q] = issued[q]
    BY <1>5 DEF Yields
  <2>2. CASE gen < posted[r]
    <3>1. gen <= posted[r]
      BY <1>0, <2>2, RequestTypes
    <3> QED
      BY <1>3, <2>1, <3>1
  <2>3. CASE ~(gen < posted[r])
    <3>1. issued' = issued
      BY <1>1, <2>1, <2>3
    <3> QED
      BY <2>1, <3>1 DEF Same
  <2> QED
    BY <2>2, <2>3
<1>6. ASSUME NEW t \in Threads, NEW r \in Requests, Commits(t, r)
      PROVE  Abstract!Next
  <2> DEFINE n == at[t].new
  <2>1. /\ n \in Nat /\ n <= next /\ n > posted[r] /\ posted[r] \in Nat /\ posted[r] >= 1
        /\ issued[r] \in {0, n}
        /\ (gen = n /\ issued[r] = n) \/ (gen = posted[r] /\ gen < n)
    BY <1>6, CommitFacts
  <2>2. /\ gen' = n /\ issued'[r] = n /\ UNCHANGED <<posted, told>>
        /\ \A q \in Requests : q # r => issued'[q] = issued[q]
    BY <1>6 DEF Commits
  <2> HIDE DEF n
  <2>3. issued' = [issued EXCEPT ![r] = n]
    BY <1>1, <2>2
  <2>4. CASE gen = n /\ issued[r] = n
    <3>1. issued' = issued
      BY <1>1, <2>2, <2>4
    <3> QED
      BY <2>2, <2>4, <3>1 DEF Same
  <2>5. CASE gen = posted[r] /\ gen < n /\ issued[r] = 0
    <3>1. n \in 1..MaxGen /\ n # gen
      BY <1>0, <1>1, <2>1, <2>2, <2>5
    <3>2. Abstract!Rotate(r, n)
      BY <2>2, <2>3, <2>5, <3>1 DEF Abstract!Rotate
    <3> QED
      BY <3>1, <3>2 DEF Abstract!Next
  <2>6. CASE gen = posted[r] /\ gen < n /\ issued[r] = n
    <3>1. issued' = issued
      BY <1>1, <2>2, <2>6
    <3>2. Abstract!Redo(r)
      BY <2>1, <2>2, <2>6, <3>1 DEF Abstract!Redo
    <3> QED
      BY <3>2 DEF Abstract!Next
  <2> QED
    BY <2>1, <2>4, <2>5, <2>6
<1>7. ASSUME NEW t \in Threads, NEW r \in Requests, Arrives(t, r)
      PROVE  Abstract!Next
  <2>1. /\ at[t].pc = "answer" /\ at[t].req = r /\ told' = told \cup {<<r, at[t].new>>}
        /\ UNCHANGED <<gen, posted, issued>>
    BY <1>7 DEF Arrives
  <2>2. issued[r] = at[t].new
    BY <1>0, <2>1 DEF Answering, Past
  <2>3. at[t].new # 0
    <3>1. AtWork(at[t], posted[r], next, Len(sessions)) /\ posted[r] \in Nat /\ at[t].new \in Nat
      BY <1>0, <2>1, ReqOf, WorkTypes
    <3> QED
      BY <2>1, <3>1 DEF AtWork, Past
  <2>4. Abstract!Answer(r)
    BY <2>1, <2>2, <2>3 DEF Abstract!Answer
  <2> QED
    BY <2>4 DEF Abstract!Next
<1>8. ASSUME Overruled
      PROVE  Abstract!Next
  <2>1. gen' = next + 1 /\ UNCHANGED <<posted, issued, told>>
    BY <1>8 DEF Overruled
  <2>2. \A r \in Requests : gen' \notin {posted[r], issued[r]}
    <3>1. ASSUME NEW r \in Requests PROVE gen' \notin {posted[r], issued[r]}
      <4>1. posted[r] <= next /\ IssuedOK(issued[r], posted[r], next)
            /\ posted[r] \in Nat /\ issued[r] \in Nat
        BY <1>0, RequestTypes DEF Basics, RequestsOK
      <4> QED
        BY <1>0, <2>1, <4>1 DEF IssuedOK
    <3> QED
      BY <3>1
  <2>3. gen' # gen
    BY <1>0, <2>1
  <2>4. Abstract!Other
    BY <1>1, <2>1, <2>2, <2>3 DEF Abstract!Other
  <2> QED
    BY <2>4 DEF Abstract!Next
<1>9. ASSUME Reboots
      PROVE  Abstract!Next
  <2>1. /\ gen' = durGen /\ UNCHANGED <<posted, told>>
        /\ \A r \in Requests : issued'[r] = IF posted[r] >= durGen /\ durReceipts[r].new # issued[r]
                                              THEN 0 ELSE issued[r]
    BY <1>9 DEF Reboots, Dies
  <2>2. CASE gen = durGen
    <3>1. ASSUME NEW r \in Requests PROVE issued'[r] = issued[r]
      <4>1. CASE posted[r] >= durGen /\ durReceipts[r].new # issued[r]
        <5>1. gen <= posted[r]
          BY <1>0, <2>2, <4>1, RequestTypes
        <5>2. issued[r] = 0
          BY <1>0, <4>1, <5>1 DEF Agreed
        <5> QED
          BY <2>1, <4>1, <5>2
      <4> QED
        BY <2>1, <4>1
    <3>2. issued' = issued
      BY <1>1, <3>1
    <3> QED
      BY <2>1, <2>2, <3>2 DEF Same
  <2>3. CASE gen # durGen
    <3>1. PICK q \in Requests : posted[q] = durGen /\ issued[q] # 0
      BY <1>0, <2>3 DEF Undoable
    <3> DEFINE lost == {r \in Requests : posted[r] >= durGen /\ durReceipts[r].new # issued[r]}
    <3>2. issued' = [r \in Requests |-> IF r \in lost THEN 0 ELSE issued[r]]
      BY <1>1, <2>1
    <3>3. lost \in SUBSET Requests
      OBVIOUS
    <3> HIDE DEF lost
    <3>4. Abstract!Undo
      BY <2>1, <3>1, <3>2, <3>3 DEF Abstract!Undo
    <3> QED
      BY <3>4 DEF Abstract!Next
  <2> QED
    BY <2>2, <2>3
<1>10. ASSUME NEW r \in Requests, Removed(r) \/ Judged(r)
       PROVE  Same
  BY <1>10 DEF Removed, Judged, Same
<1>11. ASSUME Restarts \/ SignsIn \/ Rests
       PROVE  Same
  BY <1>11 DEF Restarts, Dies, SignsIn, Rests, Same
<1>12. ASSUME NEW t \in Threads, NEW r \in Requests, Begins(t, r) \/ Queues(t, r)
       PROVE  Same
  BY <1>12 DEF Begins, Queues, Same
<1>13. ASSUME NEW t \in Threads, NEW r \in Requests, NEW p \in Receipts,
              Prepares(t, r, p) \/ PreparesInVain(t, r, p) \/ Binds(t, r, p)
       PROVE  Same
  BY <1>13 DEF Prepares, PreparesInVain, Preparing, Binds, Same
<1>14. ASSUME NEW t \in Threads, NEW rec \in Receipts, Looks(t, rec)
       PROVE  Same
  BY <1>14 DEF Looks, Same
<1>15. ASSUME NEW t \in Threads, Skips(t) \/ BindsNothing(t) \/ Ends(t) \/ Mints(t)
       PROVE  Same
  BY <1>15 DEF Skips, BindsNothing, Ends, Mints, Same
<1> HIDE DEF Same
<1>16. ASSUME OtherStep PROVE Abstract!Next
  BY <1>2, <1>4, <1>8, <1>9, <1>10, <1>11, <1>16 DEF OtherStep
<1>17. ASSUME NEW t \in Threads, ThreadStep(t) PROVE Abstract!Next
  BY <1>5, <1>6, <1>7, <1>12, <1>13, <1>14, <1>15, <1>17 DEF ThreadStep
<1> QED
  BY <1>16, <1>17 DEF Step

\* Every behaviour of the rotation with its receipts is one of IdempotentRotation: nobody
\* is told a token its request has not committed, and retries of a request, also after a
\* host crash has undone it, commit and tell the same one (_recoverable_user_rotation).
THEOREM RotationImplements == Spec => ImplementsIdempotentRotation
<1>1. Init => Core
  BY CoreInit
<1>2. Core /\ [Next]_vars => Core'
  BY CoreStep
<1>3. Spec => []Core
  BY <1>1, <1>2, PTL DEF Spec
<1>4. Init => Abstract!Init
  <2>1. 1 \in 1..MaxGen
    BY ReceiptAssumption
  <2> QED
    BY <2>1 DEF Init, Abstract!Init
<1>5. Core /\ [Next]_vars => [Abstract!Next]_(Abstract!vars)
  <2> SUFFICES ASSUME Core, [Next]_vars PROVE [Abstract!Next]_(Abstract!vars)
    OBVIOUS
  <2>1. Step /\ TypeOK'
    BY CoreStep DEF Core, Basics
  <2>2. CASE Same
    BY <2>2 DEF Same, Abstract!vars
  <2>3. CASE ~Same
    BY <2>1, <2>3, AbstractStep
  <2> QED
    BY <2>2, <2>3
<1> QED
  BY <1>3, <1>4, <1>5, PTL DEF Spec, ImplementsIdempotentRotation, Abstract!Spec

-----------------------------------------------------------------------------
(* The intent of the token in force                                        *)

\* The intent of a request that is about to commit is its own.
SameIntent ==
  \A t \in Threads : at[t].pc = "commit" =>
     tasks[at[t].req] = NoTask \/ tasks[at[t].req].target = at[t].new

\* And it is in the queue, unless it may be late.
Queued ==
  \A t \in Threads :
     (at[t].pc = "commit" /\ gen = posted[at[t].req] /\ at[t].req \notin expired \cup late)
        => tasks[at[t].req].target = at[t].new

\* An intent is discarded only when nobody will need it.
Condemned ==
  doomed # NoOne =>
     /\ posted[doomed] # 0
     /\ gen > posted[doomed] \/ doomed \in expired \cup late
     /\ doomed \notin late /\ issued[doomed] = gen => gen \in revoked

\* The invariant RotationCovered rests on.
Cover == Core /\ SameIntent /\ Queued /\ Condemned /\ RotationCovered

\* Who touches the intent of request q.
LEMMA TaskEffects ==
  ASSUME Basics, TypeOK', Step, NEW q \in Requests
  PROVE  \/ tasks'[q] = tasks[q]
         \/ Removed(q)
         \/ \E t \in Threads : Yields(t, q) \/ Queues(t, q)
<1> DEFINE Goal == \/ tasks'[q] = tasks[q]
                   \/ Removed(q)
                   \/ \E t \in Threads : Yields(t, q) \/ Queues(t, q)
<1>1. ASSUME NEW r \in Requests, Rendered(r) \/ Expired(r) \/ Removed(r) \/ Judged(r)
      PROVE  Goal
  BY <1>1 DEF Rendered, Expired, Removed, Judged
<1>2. ASSUME Overruled \/ Restarts \/ Reboots \/ SignsIn \/ Rests
      PROVE  Goal
  BY <1>2 DEF Overruled, Restarts, Reboots, Dies, SignsIn, Rests
<1>3. ASSUME NEW t \in Threads, NEW r \in Requests,
             Begins(t, r) \/ Commits(t, r) \/ Arrives(t, r)
      PROVE  Goal
  BY <1>3 DEF Begins, Commits, Arrives
<1>4. ASSUME NEW t \in Threads, NEW r \in Requests, Queues(t, r) \/ Yields(t, r)
      PROVE  Goal
  <2>1. CASE r = q
    BY <1>4, <2>1
  <2>2. CASE r # q
    BY <1>4, <2>2 DEF Queues, Yields
  <2> QED
    BY <2>1, <2>2
<1>5. ASSUME NEW t \in Threads, NEW r \in Requests, NEW p \in Receipts,
             Prepares(t, r, p) \/ PreparesInVain(t, r, p) \/ Binds(t, r, p)
      PROVE  Goal
  BY <1>5 DEF Prepares, PreparesInVain, Preparing, Binds
<1>6. ASSUME NEW t \in Threads, NEW rec \in Receipts, Looks(t, rec)
      PROVE  Goal
  BY <1>6 DEF Looks
<1>7. ASSUME NEW t \in Threads, Skips(t) \/ BindsNothing(t) \/ Ends(t) \/ Mints(t)
      PROVE  Goal
  BY <1>7 DEF Skips, BindsNothing, Ends, Mints
<1> HIDE DEF Goal
<1>8. Goal
  BY <1>1, <1>2, <1>3, <1>4, <1>5, <1>6, <1>7 DEF Step, OtherStep, ThreadStep
<1> QED
  BY <1>8 DEF Goal

\* While a thread is between intent and commit nobody else rotates, and only the
\* worker may take its intent.
LEMMA WhileCommitting ==
  ASSUME Basics, TypeOK', Step, NEW t \in Threads, at[t].pc = "commit", at'[t] = at[t],
         NEW r, r = at[t].req
  PROVE  /\ gen' = gen
         /\ tasks'[r] = tasks[r] \/ (tasks'[r] = NoTask /\ doomed = r)
<1>0. /\ r \in Requests /\ lock = t /\ t # NoOne /\ at'[t] # Idle
      /\ \A u \in Threads : at[u].pc \in Held => u = t
  <2>1. r \in Requests /\ lock = t
    BY ReqOf, LockHeld DEF Held
  <2> QED
    BY <2>1, LockHeld, IdleFields, ReceiptAssumption
<1>1. gen' = gen
  <2>1. ~Overruled /\ ~Reboots
    BY <1>0 DEF Overruled, Reboots, Dies
  <2>2. ASSUME NEW u \in Threads, NEW q \in Requests, Commits(u, q) PROVE FALSE
    <3>1. u = t
      BY <1>0, <2>2 DEF Commits, Held
    <3>2. at'[t].pc = "mint"
      BY <2>2, <3>1, CommitsThread
    <3> QED
      BY <3>2
  <2> QED
    BY <2>1, <2>2, Effects
<1>2. ASSUME NEW u \in Threads, Queues(u, r) \/ Yields(u, r) PROVE FALSE
  <2>1. u = t
    BY <1>0, <1>2 DEF Queues, Yields, Held
  <2>2. ~Queues(t, r)
    BY DEF Queues
  <2>3. at'[t] = Idle
    BY <1>2, <2>1, <2>2, EndsThread
  <2> QED
    BY <1>0, <2>3
<1>3. ASSUME Removed(r) PROVE tasks'[r] = NoTask /\ doomed = r
  BY <1>0, <1>3 DEF Removed
<1> QED
  BY <1>0, <1>1, <1>2, <1>3, TaskEffects

\* Who is about to commit.
LEMMA NowCommitting ==
  ASSUME Basics, TypeOK', Step, NEW t \in Threads, at'[t].pc = "commit"
  PROVE  \/ at'[t] = at[t]
         \/ at'[t].req \in Requests /\ tasks'[at'[t].req].target = at'[t].new
<1> DEFINE Goal == \/ at'[t] = at[t]
                   \/ at'[t].req \in Requests /\ tasks'[at'[t].req].target = at'[t].new
<1>0. at'[t] # Idle
  BY IdleFields
<1>1. ASSUME NEW r \in Requests, Rendered(r) \/ Expired(r) \/ Removed(r) \/ Judged(r)
      PROVE  Goal
  BY <1>1 DEF Rendered, Expired, Removed, Judged
<1>2. ASSUME Overruled \/ Restarts \/ Reboots \/ SignsIn \/ Rests
      PROVE  Goal
  BY <1>0, <1>2 DEF Overruled, Restarts, Reboots, Dies, SignsIn, Rests
<1>3. ASSUME NEW u \in Threads, NEW r, NEW p,
             Ends(u) \/ Yields(u, r) \/ Arrives(u, r) \/ PreparesInVain(u, r, p)
      PROVE  Goal
  BY <1>0, <1>3, EndsThread
<1>4. ASSUME NEW u \in Threads, NEW r \in Requests, Begins(u, r) PROVE Goal
  BY <1>4, BeginsThread
<1>5. ASSUME NEW u \in Threads, NEW rec \in Receipts, Looks(u, rec) PROVE Goal
  BY <1>5, LooksThread
<1>6. ASSUME NEW u \in Threads, NEW r \in Requests, NEW p \in Receipts, Prepares(u, r, p)
      PROVE  Goal
  BY <1>6, PreparesThread
<1>7. ASSUME NEW u \in Threads, NEW r \in Requests, Queues(u, r)
      PROVE  Goal
  <2>1. CASE u = t
    <3>1. at'[t].req = r /\ at'[t].new = at[t].new /\ tasks'[r].target = at[t].new
      BY <1>0, <1>7, <2>1, QueuesThread DEF Queues
    <3> QED
      BY <3>1
  <2>2. CASE u # t
    BY <1>7, <2>2, QueuesThread
  <2> QED
    BY <2>1, <2>2
<1>8. ASSUME NEW u \in Threads, NEW r \in Requests, Commits(u, r)
      PROVE  Goal
  BY <1>8, CommitsThread
<1>9. ASSUME NEW u \in Threads, Skips(u) PROVE Goal
  BY <1>9, SkipsThread
<1>10. ASSUME NEW u \in Threads, BindsNothing(u) PROVE Goal
  BY <1>10, BindsNothingThread
<1>11. ASSUME NEW u \in Threads, Mints(u) PROVE Goal
  BY <1>11, MintsThread
<1>12. ASSUME NEW u \in Threads, NEW r \in Requests, NEW w \in Receipts, Binds(u, r, w)
       PROVE  Goal
  BY <1>12, BindsThread
<1> HIDE DEF Goal
<1>13. Goal
  <2>1. ASSUME OtherStep PROVE Goal
    BY <2>1, <1>1, <1>2 DEF OtherStep
  <2>2. ASSUME NEW u \in Threads, ThreadStep(u) PROVE Goal
    BY <2>2, <1>3, <1>4, <1>5, <1>6, <1>7, <1>8, <1>9, <1>10, <1>11, <1>12 DEF ThreadStep
  <2> QED
    BY <2>1, <2>2 DEF Step
<1> QED
  BY <1>13 DEF Goal

\* Every step keeps the intent of a request that is about to commit its own, and queued.
LEMMA IntentStep ==
  ASSUME Cover, TypeOK', Step
  PROVE  SameIntent' /\ Queued'
<1>0. Basics /\ SameIntent /\ Queued /\ Condemned
  BY DEF Cover, Core
<1>1. ASSUME NEW t \in Threads, at'[t].pc = "commit", NEW r, r = at'[t].req
      PROVE  /\ tasks'[r] = NoTask \/ tasks'[r].target = at'[t].new
             /\ (gen' = posted'[r] /\ r \notin expired' \cup late')
                  => tasks'[r].target = at'[t].new
  <2>1. CASE tasks'[r].target = at'[t].new
    BY <2>1
  <2>2. CASE tasks'[r].target # at'[t].new
    <3>1. at'[t] = at[t]
      BY <1>0, <1>1, <2>2, NowCommitting
    <3>2. tasks'[r] = tasks[r] \/ (tasks'[r] = NoTask /\ doomed = r)
      BY <1>0, <1>1, <3>1, WhileCommitting
    <3>3. r \in Requests /\ posted[r] # 0
      BY <1>0, <1>1, <3>1, ReqOf
    <3>4. tasks'[r] = NoTask \/ tasks'[r].target = at'[t].new
      BY <1>0, <1>1, <3>1, <3>2 DEF SameIntent
    <3>5. ASSUME gen' = posted'[r], r \notin expired' \cup late'
          PROVE  FALSE
      <4>1. posted'[r] = posted[r] /\ expired \subseteq expired' /\ late \subseteq late'
        BY <1>0, <3>3, Grows
      <4>2. gen' = gen
        BY <1>0, <1>1, <3>1, WhileCommitting
      <4>3. gen = posted[r] /\ r \notin expired \cup late
        BY <3>5, <4>1, <4>2
      <4>4. tasks[r].target = at[t].new
        BY <1>0, <1>1, <3>1, <4>3 DEF Queued
      <4>5. doomed = r /\ r # NoOne
        BY <2>2, <3>1, <3>2, <3>3, <4>2, <4>4, IdleFields
      <4> QED
        BY <1>0, <3>3, <4>3, <4>5, GenTypes, RequestTypes DEF Condemned, Basics
    <3> QED
      BY <3>4, <3>5
  <2> QED
    BY <2>1, <2>2
<1>2. SameIntent'
  BY <1>1 DEF SameIntent
<1>3. Queued'
  BY <1>1 DEF Queued
<1> QED
  BY <1>2, <1>3

\* The worker's verdicts.
LEMMA DoomedEffects ==
  ASSUME Basics, TypeOK', Step, doomed' # NoOne
  PROVE  (doomed' = doomed /\ ~Reboots) \/ \E r \in Requests : Judged(r)
<1> DEFINE Goal == (doomed' = doomed /\ ~Reboots) \/ \E r \in Requests : Judged(r)
<1>0. ~Reboots /\ ~Restarts
  BY DEF Reboots, Restarts, Dies
<1>1. ASSUME doomed' = doomed PROVE Goal
  BY <1>0, <1>1
<1>2. ASSUME NEW r \in Requests, Judged(r) PROVE Goal
  BY <1>2
<1> HIDE DEF Goal
<1>3. ASSUME NEW r \in Requests, Rendered(r) \/ Expired(r) \/ Removed(r)
      PROVE  Goal
  BY <1>1, <1>3 DEF Rendered, Expired, Removed
<1>4. ASSUME Overruled \/ SignsIn \/ Rests
      PROVE  Goal
  BY <1>1, <1>4 DEF Overruled, SignsIn, Rests
<1>5. ASSUME NEW t \in Threads, NEW r \in Requests,
             Begins(t, r) \/ Commits(t, r) \/ Arrives(t, r) \/ Queues(t, r) \/ Yields(t, r)
      PROVE  Goal
  BY <1>1, <1>5 DEF Begins, Commits, Arrives, Queues, Yields
<1>6. ASSUME NEW t \in Threads, NEW r \in Requests, NEW p \in Receipts,
             Prepares(t, r, p) \/ PreparesInVain(t, r, p) \/ Binds(t, r, p)
      PROVE  Goal
  BY <1>1, <1>6 DEF Prepares, PreparesInVain, Preparing, Binds
<1>7. ASSUME NEW t \in Threads, NEW rec \in Receipts, Looks(t, rec)
      PROVE  Goal
  BY <1>1, <1>7 DEF Looks
<1>8. ASSUME NEW t \in Threads, Skips(t) \/ BindsNothing(t) \/ Ends(t) \/ Mints(t)
      PROVE  Goal
  BY <1>1, <1>8 DEF Skips, BindsNothing, Ends, Mints
<1>9. Goal
  BY <1>0, <1>2, <1>3, <1>4, <1>5, <1>6, <1>7, <1>8 DEF Step, OtherStep, ThreadStep
<1> QED
  BY <1>9 DEF Goal

\* Every step keeps the intent the worker discards one that nobody needs.
LEMMA CondemnedStep ==
  ASSUME Cover, TypeOK', Step
  PROVE  Condemned'
<1>0. /\ Core /\ Basics /\ TypeOK /\ Condemned /\ RotationCovered /\ next \in Nat /\ gen \in Nat
      /\ gen >= 1 /\ gen <= next
  BY GenTypes DEF Cover, Core, Basics, Ordered
<1> SUFFICES ASSUME doomed' # NoOne
             PROVE  /\ posted'[doomed'] # 0
                    /\ gen' > posted'[doomed'] \/ doomed' \in expired' \cup late'
                    /\ doomed' \notin late' /\ issued'[doomed'] = gen' => gen' \in revoked'
  BY DEF Condemned
<1>1. ASSUME NEW r \in Requests, Judged(r)
      PROVE  /\ posted'[doomed'] # 0
             /\ gen' > posted'[doomed'] \/ doomed' \in expired' \cup late'
             /\ doomed' \notin late' /\ issued'[doomed'] = gen' => gen' \in revoked'
  <2>1. /\ doomed' = r /\ tasks[r] # NoTask /\ gen # tasks[r].target
        /\ gen = tasks[r].prev => r \in expired
        /\ late' = IF gen < tasks[r].prev THEN late \cup {r} ELSE late
        /\ UNCHANGED <<gen, posted, issued, expired, revoked>>
    BY <1>1 DEF Judged
  <2>2. tasks[r].prev = posted[r] /\ posted[r] >= 1 /\ posted[r] \in Nat
    BY <1>0, <2>1, RequestTypes DEF Basics, RequestsOK, TaskOK
  <2>3. gen > posted[r] \/ r \in expired \/ r \in late'
    BY <1>0, <2>1, <2>2
  <2>4. ASSUME r \notin late', issued[r] = gen PROVE gen \in revoked
    BY <1>0, <2>1, <2>4 DEF RotationCovered
  <2> QED
    BY <2>1, <2>2, <2>3, <2>4
<1>2. ASSUME doomed' = doomed, ~Reboots
      PROVE  /\ posted'[doomed'] # 0
             /\ gen' > posted'[doomed'] \/ doomed' \in expired' \cup late'
             /\ doomed' \notin late' /\ issued'[doomed'] = gen' => gen' \in revoked'
  <2> DEFINE d == doomed
  <2>2. /\ d \in Requests /\ d' = d /\ posted[d] # 0 /\ posted[d] \in Nat
        /\ d \notin late /\ issued[d] = gen => gen \in revoked
    BY <1>0, <1>2, RequestTypes DEF Condemned, TypeOK
  <2>3. /\ posted'[d] = posted[d] /\ expired \subseteq expired' /\ late \subseteq late'
        /\ revoked \subseteq revoked'
    BY <1>0, <2>2, Grows
  <2>4. gen > posted[d] \/ d \in expired \cup late
    BY <1>0, <1>2 DEF Condemned
  <2>5. issued[d] \in Nat /\ IssuedOK(issued[d], posted[d], next)
    BY <1>0, <2>2, RequestTypes DEF Basics, RequestsOK
  <2> HIDE DEF d
  <2>6. ASSUME UNCHANGED gen, issued'[d] = issued[d] \/ issued'[d] = 0
        PROVE  /\ gen' > posted'[d] \/ d \in expired' \cup late'
               /\ d \notin late' /\ issued'[d] = gen' => gen' \in revoked'
    <3>1. gen' > posted'[d] \/ d \in expired' \cup late'
      BY <2>3, <2>4, <2>6
    <3>2. ASSUME d \notin late', issued'[d] = gen' PROVE gen' \in revoked'
      <4>1. issued[d] = gen /\ d \notin late
        BY <1>0, <2>3, <2>6, <3>2
      <4> QED
        BY <2>2, <2>3, <2>6, <4>1
    <3> QED
      BY <3>1, <3>2
  <2>7. ASSUME Overruled
        PROVE  /\ gen' > posted'[d] \/ d \in expired' \cup late'
               /\ d \notin late' /\ issued'[d] = gen' => gen' \in revoked'
    <3>1. gen' = next + 1 /\ issued' = issued
      BY <2>7 DEF Overruled
    <3>2. issued'[d] # gen' /\ gen' > gen
      BY <1>0, <2>5, <3>1 DEF IssuedOK
    <3>3. gen' > posted'[d] \/ d \in expired' \cup late'
      BY <1>0, <2>2, <2>3, <2>4, <3>1, <3>2
    <3> QED
      BY <3>2, <3>3
  <2>8. ASSUME NEW t \in Threads, NEW q \in Requests, Commits(t, q)
        PROVE  /\ gen' > posted'[d] \/ d \in expired' \cup late'
               /\ d \notin late' /\ issued'[d] = gen' => gen' \in revoked'
    <3> DEFINE n == at[t].new
    <3>1. /\ n \in Nat /\ gen <= n /\ n # 0
          /\ (gen = n /\ issued[q] = n) \/ (gen = posted[q] /\ gen < n)
          /\ \A u \in Requests : u # q => ~Token(u, n)
      <4>1. n > posted[q] /\ posted[q] \in Nat
        BY <1>0, <2>8, CommitFacts
      <4> QED
        BY <1>0, <2>8, <4>1, CommitFacts
    <3>2. /\ gen' = n /\ issued'[q] = n /\ \A u \in Requests : u # q => issued'[u] = issued[u]
          /\ late' = IF gen' # gen /\ q \in expired THEN late \cup {q} ELSE late
      BY <2>8 DEF Commits
    <3> HIDE DEF n
    <3>3. gen' > posted'[d] \/ d \in expired' \cup late'
      BY <1>0, <2>2, <2>3, <2>4, <3>1, <3>2
    <3>4. ASSUME d \notin late', issued'[d] = gen' PROVE gen' \in revoked'
      <4>1. d = q
        <5>1. ASSUME d # q PROVE FALSE
          <6>1. issued[d] = n
            BY <2>2, <3>2, <3>4, <5>1
          <6>2. Token(d, n)
            BY <3>1, <6>1 DEF Token, Tok
          <6> QED
            BY <2>2, <3>1, <5>1, <6>2
        <5> QED
          BY <5>1
      <4>2. gen = n /\ issued[d] = n
        <5>1. ASSUME gen = posted[q], gen < n PROVE FALSE
          <6>1. gen' # gen /\ d \notin late /\ d \notin expired
            BY <1>0, <2>3, <3>1, <3>2, <3>4, <4>1, <5>1
          <6> QED
            BY <1>0, <2>2, <2>4, <4>1, <5>1, <6>1
        <5> QED
          BY <3>1, <4>1, <5>1
      <4> QED
        BY <2>2, <2>3, <3>2, <3>4, <4>2
    <3> QED
      BY <3>3, <3>4
  <2>9. /\ gen' > posted'[d] \/ d \in expired' \cup late'
        /\ d \notin late' /\ issued'[d] = gen' => gen' \in revoked'
    BY <1>0, <1>2, <2>2, <2>6, <2>7, <2>8, Effects
  <2>10. posted'[d] # 0
    BY <2>2, <2>3
  <2> QED
    BY <1>2, <2>9, <2>10 DEF d
<1> QED
  BY <1>0, <1>1, <1>2, DoomedEffects

\* Every step keeps the token in force covered by an intent.
LEMMA CoveredStep ==
  ASSUME Cover, TypeOK', Step
  PROVE  RotationCovered'
<1>0. /\ Core /\ Basics /\ TypeOK /\ Condemned /\ RotationCovered /\ SameIntent /\ Queued
      /\ next \in Nat /\ gen \in Nat /\ gen >= 1 /\ gen <= next
  BY GenTypes DEF Cover, Core, Basics, Ordered
<1> SUFFICES ASSUME NEW q \in Requests, q \notin late', issued'[q] = gen', gen' \notin revoked'
             PROVE  tasks'[q].target = gen'
  BY DEF RotationCovered
<1>1. late \subseteq late' /\ revoked \subseteq revoked'
  BY <1>0, Grows
<1>2. issued[q] \in Nat /\ IssuedOK(issued[q], posted[q], next)
  BY <1>0, RequestTypes DEF Basics, RequestsOK
<1>3. ASSUME UNCHANGED gen, issued'[q] = issued[q] \/ issued'[q] = 0
      PROVE  tasks'[q].target = gen'
  <2>1. tasks[q].target = gen /\ issued[q] = gen /\ q \notin late
    BY <1>0, <1>1, <1>3 DEF RotationCovered
  <2>2. tasks[q] # NoTask
    BY <1>0, <2>1 DEF NoTask
  <2>3. CASE Removed(q)
    <3>1. doomed = q \/ gen \in revoked'
      BY <2>3 DEF Removed
    <3>2. gen \in revoked'
      BY <1>0, <1>1, <2>1, <3>1, IdleFields DEF Condemned
    <3> QED
      BY <1>3, <3>2
  <2>4. ASSUME NEW t \in Threads, Yields(t, q)
        PROVE  FALSE
    <3>1. at[t].pc = "commit" /\ at[t].req = q /\ ~CanCommit(t)
      BY <2>4 DEF Yields
    <3>2. tasks[q].target = at[t].new
      BY <1>0, <2>2, <3>1 DEF SameIntent
    <3> QED
      BY <2>1, <3>1, <3>2 DEF CanCommit
  <2>5. ASSUME NEW t \in Threads, Queues(t, q)
        PROVE  tasks'[q] = tasks[q]
    BY <2>2, <2>5 DEF Queues
  <2> QED
    BY <1>0, <1>3, <2>1, <2>3, <2>4, <2>5, TaskEffects
<1>4. ASSUME NEW t \in Threads, NEW r \in Requests, Commits(t, r)
      PROVE  tasks'[q].target = gen'
  <2> DEFINE n == at[t].new
  <2>1. /\ n \in Nat /\ n # 0
        /\ (gen = n /\ issued[r] = n) \/ (gen = posted[r] /\ gen < n)
        /\ \A u \in Requests : u # r => ~Token(u, n)
    <3>1. n > posted[r] /\ posted[r] \in Nat
      BY <1>0, <1>4, CommitFacts
    <3> QED
      BY <1>0, <1>4, <3>1, CommitFacts
  <2>2. /\ gen' = n /\ issued'[r] = n /\ \A u \in Requests : u # r => issued'[u] = issued[u]
        /\ late' = (IF gen' # gen /\ r \in expired THEN late \cup {r} ELSE late)
        /\ UNCHANGED <<tasks, revoked>> /\ at[t].pc = "commit" /\ at[t].req = r
    BY <1>4 DEF Commits
  <2>3. ASSUME r # q PROVE FALSE
    <3>1. issued[q] = n
      BY <2>2, <2>3
    <3>2. Token(q, n)
      BY <2>1, <3>1 DEF Token, Tok
    <3> QED
      BY <2>1, <2>3, <3>2
  <2>4. CASE gen = n /\ issued[r] = n
    BY <1>0, <1>1, <2>2, <2>3, <2>4 DEF RotationCovered
  <2>5. CASE gen = posted[r] /\ gen < n
    <3>1. q \notin expired /\ q \notin late /\ r = q
      BY <1>0, <1>1, <2>1, <2>2, <2>3, <2>5
    <3>2. tasks[q].target = n
      BY <1>0, <2>2, <2>5, <3>1 DEF Queued
    <3> QED
      BY <2>2, <3>2
  <2> QED
    BY <2>1, <2>4, <2>5
<1>5. ASSUME Overruled
      PROVE  FALSE
  BY <1>0, <1>2, <1>5 DEF Overruled, IssuedOK
<1>6. ASSUME Reboots
      PROVE  FALSE
  BY <1>6 DEF Reboots
<1> QED
  BY <1>0, <1>3, <1>4, <1>5, <1>6, Effects

\* Every action keeps Cover.
LEMMA CoverStep ==
  ASSUME Cover, [Next]_vars
  PROVE  Cover' /\ Step
<1>1. Core' /\ Step /\ TypeOK'
  BY CoreStep DEF Cover, Core, Basics
<1> QED
  BY <1>1, IntentStep, CondemnedStep, CoveredStep DEF Cover

\* Cover holds at first.
LEMMA CoverInit == Init => Cover
<1> SUFFICES ASSUME Init PROVE Cover
  OBVIOUS
<1>1. Core /\ TypeOK
  BY CoreInit DEF Core, Basics
<1>2. SameIntent /\ Queued
  BY IdleFields DEF Init, SameIntent, Queued
<1>3. Condemned
  BY DEF Init, Condemned
<1>4. RotationCovered
  BY <1>1 DEF Init, RotationCovered
<1> QED
  BY <1>1, <1>2, <1>3, <1>4 DEF Cover

-----------------------------------------------------------------------------
(* The receipt of the token in force                                       *)

\* A request under the lock has its receipt in the file and on the disk, and it opens
\* for the session the request came with.
Secured ==
  \A t \in Threads : (at[t].pc \in Held /\ at[t].req \notin expired) =>
     \A rec \in {receipts[at[t].req], durReceipts[at[t].req]} :
        /\ rec.new = at[t].new
        /\ Bound(rec, at[t].sid) \/ bound[at[t].req] >= KeepSessions

\* A session that is on its way to the browser is for the token of its request.
MintedFor == \A t \in Threads : at[t].minted # 0 => sessions[at[t].minted] = at[t].new

\* Requests that are under way together are known to have been.
Crossing ==
  \A t, u \in Threads : (at[t].req # NoOne /\ at[u].req # NoOne /\ at[t].req # at[u].req)
     => at[t].req \in crossed

\* The cookie that another request is about to set locks nobody out.
Overtaking ==
  \A t \in Threads, r \in Requests :
     (at[t].minted # 0 /\ at[t].req # r /\ issued[r] = gen) => r \in crossed \/ <<r, gen>> \in told

\* Likewise a request that came with a cookie the browser has replaced by now.
Outdated ==
  \A t \in Threads : (at[t].pc # "idle" /\ at[t].sid # cookie) =>
     \/ at[t].req \in crossed
     \/ /\ issued[at[t].req] # 0 /\ <<at[t].req, issued[at[t].req]>> \in told
        /\ gen > posted[at[t].req]

\* A receipt remembers one session and those bound later.
Counted ==
  \A r \in Requests : /\ Len(receipts[r].sessions) <= 1 + bound[r]
                      /\ Len(durReceipts[r].sessions) <= 1 + bound[r]

\* The invariant TokenRecoverable rests on.
Recover ==
  /\ Core /\ Secured /\ MintedFor /\ Crossing /\ Overtaking /\ Outdated /\ Counted
  /\ TokenRecoverable

\* Who touches the receipt of request q.
Kept(q) == receipts'[q] = receipts[q] /\ durReceipts'[q] \in {durReceipts[q], receipts[q]}
           /\ bound'[q] = bound[q]

\* The steps that touch the receipt of request q, on the disk or not.
LEMMA ReceiptEffects ==
  ASSUME Basics, TypeOK', Step, NEW q \in Requests
  PROVE  \/ Kept(q) \/ Expired(q) \/ Reboots
         \/ \E t \in Threads : Yields(t, q)
         \/ \E t \in Threads, p \in Receipts :
               Prepares(t, q, p) \/ PreparesInVain(t, q, p) \/ Binds(t, q, p)
<1> DEFINE Goal == \/ Kept(q) \/ Expired(q) \/ Reboots
                   \/ \E t \in Threads : Yields(t, q)
                   \/ \E t \in Threads, p \in Receipts :
                         Prepares(t, q, p) \/ PreparesInVain(t, q, p) \/ Binds(t, q, p)
<1>1. ASSUME UNCHANGED <<receipts, durReceipts, bound>> PROVE Goal
  BY <1>1 DEF Kept
<1>2. ASSUME receipts'[q] = receipts[q], durReceipts' \in {durReceipts, receipts'},
             bound'[q] = bound[q]
      PROVE  Goal
  BY <1>2 DEF Kept
<1>3. ASSUME NEW r \in Requests, Expired(r) PROVE Goal
  <2>1. CASE r = q
    BY <1>3, <2>1
  <2>2. CASE r # q
    BY <1>2, <1>3, <2>2 DEF Expired, Stores
  <2> QED
    BY <2>1, <2>2
<1>4. ASSUME NEW t \in Threads, NEW r \in Requests, Yields(t, r) PROVE Goal
  <2>1. CASE r = q
    BY <1>4, <2>1
  <2>2. CASE r # q
    BY <1>2, <1>4, <2>2 DEF Yields, Stores
  <2> QED
    BY <2>1, <2>2
<1>5. ASSUME NEW t \in Threads, NEW r \in Requests, NEW p \in Receipts,
             Prepares(t, r, p) \/ PreparesInVain(t, r, p) \/ Binds(t, r, p)
      PROVE  Goal
  <2>1. CASE r = q
    BY <1>5, <2>1
  <2>2. CASE r # q
    <3>1. receipts'[q] = receipts[q] /\ durReceipts' \in {durReceipts, receipts'}
      BY <1>5, <2>2 DEF Prepares, PreparesInVain, Preparing, Binds, Stores
    <3>2. bound'[q] = bound[q]
      BY <1>5, <2>2 DEF Prepares, PreparesInVain, Preparing, Binds
    <3> QED
      BY <1>2, <3>1, <3>2
  <2> QED
    BY <2>1, <2>2
<1>6. ASSUME Reboots PROVE Goal
  BY <1>6
<1> HIDE DEF Goal
<1>7. ASSUME NEW r \in Requests, Rendered(r) \/ Removed(r) \/ Judged(r) PROVE Goal
  BY <1>1, <1>7 DEF Rendered, Removed, Judged
<1>8. ASSUME Overruled \/ Restarts \/ SignsIn \/ Rests PROVE Goal
  BY <1>1, <1>8 DEF Overruled, Restarts, Dies, SignsIn, Rests
<1>9. ASSUME NEW t \in Threads, NEW r \in Requests,
             Begins(t, r) \/ Queues(t, r) \/ Commits(t, r) \/ Arrives(t, r)
      PROVE  Goal
  BY <1>1, <1>9 DEF Begins, Queues, Commits, Arrives
<1>10. ASSUME NEW t \in Threads, NEW rec \in Receipts, Looks(t, rec) PROVE Goal
  BY <1>1, <1>10 DEF Looks
<1>11. ASSUME NEW t \in Threads, Skips(t) \/ BindsNothing(t) \/ Ends(t) \/ Mints(t) PROVE Goal
  BY <1>1, <1>11 DEF Skips, BindsNothing, Ends, Mints
<1>12. Goal
  <2>1. ASSUME OtherStep PROVE Goal
    BY <2>1, <1>3, <1>6, <1>7, <1>8 DEF OtherStep
  <2>2. ASSUME NEW t \in Threads, ThreadStep(t) PROVE Goal
    BY <2>2, <1>4, <1>5, <1>9, <1>10, <1>11 DEF ThreadStep
  <2> QED
    BY <2>1, <2>2 DEF Step
<1> QED
  BY <1>12 DEF Goal

\* What binding one more session does.
LEMMA BindsFacts ==
  ASSUME Basics, Counted, NEW t \in Threads, NEW r \in Requests, NEW w \in Receipts, Binds(t, r, w)
  PROVE  /\ w.new = receipts[r].new /\ receipts'[r] = w /\ durReceipts'[r] \in {durReceipts[r], w}
         /\ bound'[r] = bound[r] + 1 /\ bound[r] \in Nat
         /\ Len(w.sessions) \in Nat /\ Len(w.sessions) <= 1 + bound'[r]
         /\ \A s : Bound(receipts[r], s) => Bound(w, s) \/ bound'[r] >= KeepSessions
<1>1. /\ w = WithSession(receipts[r], at[t].minted) /\ receipts'[r] = w
      /\ bound'[r] = bound[r] + 1 /\ durReceipts'[r] \in {durReceipts[r], w}
  BY DEF Binds, Stores
<1>2. /\ receipts[r] \in Receipts /\ Len(receipts[r].sessions) <= KeepSessions
      /\ at[t].minted \in Sids /\ bound[r] \in Nat /\ Len(receipts[r].sessions) <= 1 + bound[r]
  BY ThreadTypes, RequestTypes DEF Basics, TypeOK, Counted
<1>3. /\ w.new = receipts[r].new /\ Len(w.sessions) <= Len(receipts[r].sessions) + 1
      /\ \A s : Bound(receipts[r], s) => Bound(w, s) \/ Len(receipts[r].sessions) >= KeepSessions
  BY <1>1, <1>2, WithSessionFacts
<1> DEFINE k == Len(receipts[r].sessions)
           l == Len(w.sessions)
<1>4. k \in Nat /\ l \in Nat /\ KeepSessions \in Nat
  BY <1>2, ReceiptAssumption DEF Receipts
<1>5. k <= 1 + bound[r] /\ l <= k + 1
  BY <1>2, <1>3
<1>6. \A s : Bound(receipts[r], s) => Bound(w, s) \/ k >= KeepSessions
  BY <1>3
<1> HIDE DEF k, l
<1>7. l <= 1 + bound'[r] /\ (k >= KeepSessions => bound'[r] >= KeepSessions)
  BY <1>1, <1>2, <1>4, <1>5
<1> QED
  BY <1>1, <1>2, <1>3, <1>4, <1>6, <1>7 DEF l

\* Every step keeps the number of sessions a receipt remembers within those bound to it.
LEMMA CountedStep ==
  ASSUME Basics, Counted, TypeOK', Step
  PROVE  Counted'
<1> SUFFICES ASSUME NEW r \in Requests
             PROVE  /\ Len(receipts'[r].sessions) <= 1 + bound'[r]
                    /\ Len(durReceipts'[r].sessions) <= 1 + bound'[r]
  BY DEF Counted
<1> DEFINE Fits(rec) == Len(rec.sessions) <= 1 + bound'[r]
<1>0. bound[r] \in Nat /\ bound'[r] \in Nat /\ bound[r] <= bound'[r]
  <2>1. bound[r] \in Nat /\ bound[r] <= bound'[r]
    BY Grows, RequestTypes DEF Basics
  <2>2. bound'[r] \in Nat
    BY DEF TypeOK
  <2> QED
    BY <2>1, <2>2
<1>1. ASSUME NEW rec \in Receipts, Len(rec.sessions) <= 1 + bound[r] PROVE Fits(rec)
  <2> DEFINE k == Len(rec.sessions)
  <2>1. k \in Nat /\ k <= 1 + bound[r]
    BY <1>1 DEF Receipts
  <2> HIDE DEF k
  <2>2. k <= 1 + bound'[r]
    BY <1>0, <2>1
  <2> QED
    BY <2>2 DEF k
<1>2. Fits(receipts[r]) /\ Fits(durReceipts[r])
  <2>1. receipts[r] \in Receipts /\ durReceipts[r] \in Receipts
    BY RequestTypes DEF Basics
  <2>2. Len(receipts[r].sessions) <= 1 + bound[r] /\ Len(durReceipts[r].sessions) <= 1 + bound[r]
    BY DEF Counted
  <2> HIDE DEF Fits
  <2> QED
    BY <1>1, <2>1, <2>2
<1>3. Fits(NoReceipt)
  BY <1>0, NoReceiptType
<1>4. ASSUME NEW p \in Receipts, Len(p.sessions) <= 1 PROVE Fits(p)
  <2> DEFINE k == Len(p.sessions)
  <2>1. k \in Nat /\ k <= 1
    BY <1>4 DEF Receipts
  <2> HIDE DEF k
  <2>2. k <= 1 + bound'[r]
    BY <1>0, <2>1
  <2> QED
    BY <2>2 DEF k
<1>5. ASSUME NEW t \in Threads, NEW w \in Receipts, Binds(t, r, w)
      PROVE  Fits(w) /\ receipts'[r] = w /\ durReceipts'[r] \in {durReceipts[r], w}
  BY <1>5, BindsFacts
<1> HIDE DEF Fits
<1>6. ASSUME Kept(r) \/ Reboots
      PROVE  Fits(receipts'[r]) /\ Fits(durReceipts'[r])
  <2>1. receipts'[r] \in {receipts[r], durReceipts[r]}
        /\ durReceipts'[r] \in {receipts[r], durReceipts[r]}
    BY <1>6 DEF Kept, Reboots, Dies
  <2> QED
    BY <1>2, <2>1
<1>7. ASSUME Expired(r) \/ \E t \in Threads : Yields(t, r)
      PROVE  Fits(receipts'[r]) /\ Fits(durReceipts'[r])
  <2>1. receipts'[r] = NoReceipt /\ durReceipts'[r] = NoReceipt
    BY <1>7 DEF Expired, Yields, Stores
  <2> QED
    BY <1>3, <2>1
<1>8. ASSUME NEW t \in Threads, NEW p \in Receipts, Prepares(t, r, p) \/ PreparesInVain(t, r, p)
      PROVE  Fits(receipts'[r]) /\ Fits(durReceipts'[r])
  <2>1. /\ receipts'[r] = p /\ durReceipts'[r] \in {durReceipts[r], p}
        /\ IF receipts[r] # NoReceipt THEN p = receipts[r] ELSE Len(p.sessions) <= 1
    BY <1>8 DEF Prepares, PreparesInVain, Preparing, Stores
  <2>2. Fits(p)
    BY <1>2, <1>4, <2>1
  <2> QED
    BY <1>2, <2>1, <2>2
<1>9. Fits(receipts'[r]) /\ Fits(durReceipts'[r])
  <2>1. ASSUME NEW t \in Threads, NEW p \in Receipts, Binds(t, r, p)
        PROVE  Fits(receipts'[r]) /\ Fits(durReceipts'[r])
    BY <1>2, <1>5, <2>1
  <2> QED
    BY <1>6, <1>7, <1>8, <2>1, ReceiptEffects
<1> QED
  BY <1>9 DEF Fits

\* A receipt that opens for a session goes on doing so until it expires, is given up
\* or has been bound too often.
LEMMA StillOpens ==
  ASSUME Basics, Counted, TypeOK', Step, NEW r \in Requests, NEW n, n # 0,
         receipts[r].new = n, durReceipts[r].new = n, r \notin expired',
         \A t \in Threads : ~Yields(t, r)
  PROVE  /\ receipts'[r].new = n /\ durReceipts'[r].new = n
         /\ \A s : (Bound(receipts[r], s) /\ Bound(durReceipts[r], s)) =>
                      \/ bound'[r] >= KeepSessions
                      \/ Bound(receipts'[r], s) /\ Bound(durReceipts'[r], s)
<1>1. CASE Kept(r)
  BY <1>1 DEF Kept
<1>2. CASE Reboots
  <2>1. receipts'[r] = durReceipts[r] /\ durReceipts'[r] = durReceipts[r]
    BY <1>2 DEF Reboots, Dies
  <2> QED
    BY <2>1
<1>3. ~Expired(r)
  BY DEF Expired
<1>4. ASSUME NEW t \in Threads, NEW p \in Receipts, Prepares(t, r, p) \/ PreparesInVain(t, r, p)
      PROVE  receipts'[r] = receipts[r] /\ durReceipts'[r] \in {durReceipts[r], receipts[r]}
  <2>1. /\ receipts'[r] = p /\ durReceipts'[r] \in {durReceipts[r], p}
        /\ IF receipts[r] # NoReceipt THEN p = receipts[r] ELSE Len(p.sessions) <= 1
    BY <1>4 DEF Prepares, PreparesInVain, Preparing, Stores
  <2>2. receipts[r] # NoReceipt
    BY NoReceiptType
  <2> QED
    BY <2>1, <2>2
<1>5. ASSUME NEW t \in Threads, NEW w \in Receipts, Binds(t, r, w)
      PROVE  /\ receipts'[r].new = n /\ durReceipts'[r].new = n
             /\ \A s : (Bound(receipts[r], s) /\ Bound(durReceipts[r], s)) =>
                          \/ bound'[r] >= KeepSessions
                          \/ Bound(receipts'[r], s) /\ Bound(durReceipts'[r], s)
  BY <1>5, BindsFacts
<1> QED
  BY <1>1, <1>2, <1>3, <1>4, <1>5, ReceiptEffects

\* A thread at work after a step has just begun, or went on: with the same request and
\* session, and with a minted session and the lock only as before or by the one step
\* that gives them.
Goes(t) ==
  /\ at[t].pc # "idle" /\ at'[t].req = at[t].req /\ at'[t].sid = at[t].sid
  /\ \/ Mints(t)
     \/ at'[t].minted = 0
     \/ at'[t].minted = at[t].minted /\ at'[t].new = at[t].new
  /\ at'[t].pc \in Held =>
        \/ \E p \in Receipts : Prepares(t, at[t].req, p)
        \/ at[t].pc \in Held /\ at'[t].new = at[t].new

\* Every thread that is at work after a step has begun or gone on.
LEMMA Working ==
  ASSUME Basics, TypeOK', Step, NEW t \in Threads, at'[t].pc # "idle"
  PROVE  Goes(t) \/ (at'[t].req \in Requests /\ Begins(t, at'[t].req))
<1> DEFINE Goal == Goes(t) \/ (at'[t].req \in Requests /\ Begins(t, at'[t].req))
<1>0. at'[t] # Idle
  BY IdleFields
<1>1. ASSUME at'[t] = at[t] PROVE Goal
  BY <1>1 DEF Goes
<1>3. ASSUME NEW r \in Requests, Rendered(r) \/ Expired(r) \/ Removed(r) \/ Judged(r)
      PROVE  Goal
  <2>1. at' = at
    BY <1>3 DEF Rendered, Expired, Removed, Judged
  <2> QED
    BY <1>1, <2>1
<1>4. ASSUME Overruled \/ Restarts \/ Reboots \/ SignsIn \/ Rests
      PROVE  Goal
  <2>1. at'[t] = at[t]
    BY <1>0, <1>4 DEF Overruled, Restarts, Reboots, Dies, SignsIn, Rests
  <2> QED
    BY <1>1, <2>1
<1>5. ASSUME NEW u \in Threads, NEW r, NEW p,
             Ends(u) \/ Yields(u, r) \/ Arrives(u, r) \/ PreparesInVain(u, r, p)
      PROVE  Goal
  <2>1. at'[t] = at[t]
    BY <1>0, <1>5, EndsThread
  <2> QED
    BY <1>1, <2>1
<1>6. ASSUME NEW u \in Threads, NEW r \in Requests, Begins(u, r) PROVE Goal
  <2>1. CASE u = t
    BY <1>6, <2>1, BeginsThread
  <2>2. CASE u # t
    <3>1. at'[t] = at[t]
      BY <1>6, <2>2, BeginsThread
    <3> QED
      BY <1>1, <3>1
  <2> QED
    BY <2>1, <2>2
<1>7. ASSUME NEW u \in Threads, NEW rec \in Receipts, Looks(u, rec) PROVE Goal
  <2>1. CASE u = t
    <3>1. at[t].pc = "lookup"
      BY <1>7, <2>1 DEF Looks
    <3>2. /\ at'[t].pc = "lock" /\ at'[t].req = at[t].req /\ at'[t].sid = at[t].sid
          /\ at'[t].new = at[t].new /\ at'[t].minted = at[t].minted
      BY <1>7, <2>1, LooksThread
    <3> QED
      BY <3>1, <3>2 DEF Goes, Held
  <2>2. CASE u # t
    <3>1. at'[t] = at[t]
      BY <1>7, <2>2, LooksThread
    <3> QED
      BY <1>1, <3>1
  <2> QED
    BY <2>1, <2>2
<1>8. ASSUME NEW u \in Threads, NEW r \in Requests, NEW p \in Receipts, Prepares(u, r, p)
      PROVE  Goal
  <2>1. CASE u = t
    <3>1. at[t].pc = "lock" /\ at[t].req = r
      BY <1>8, <2>1 DEF Prepares, Preparing
    <3>2. /\ at'[t].pc = "queue" /\ at'[t].req = at[t].req /\ at'[t].sid = at[t].sid
          /\ at'[t].minted = at[t].minted
      BY <1>8, <2>1, PreparesThread
    <3>3. at[t].minted = 0
      BY <3>1, ReqOf DEF AtWork
    <3> QED
      BY <1>8, <2>1, <3>1, <3>2, <3>3 DEF Goes
  <2>2. CASE u # t
    <3>1. at'[t] = at[t]
      BY <1>8, <2>2, PreparesThread
    <3> QED
      BY <1>1, <3>1
  <2> QED
    BY <2>1, <2>2
<1>9. ASSUME NEW u \in Threads, NEW r \in Requests, Queues(u, r) PROVE Goal
  <2>1. CASE u = t
    <3>1. at[t].pc = "queue"
      BY <1>9, <2>1 DEF Queues
    <3>2. /\ at'[t].req = at[t].req /\ at'[t].sid = at[t].sid
          /\ at'[t].new = at[t].new /\ at'[t].minted = at[t].minted
      BY <1>0, <1>9, <2>1, QueuesThread
    <3> QED
      BY <3>1, <3>2 DEF Goes, Held
  <2>2. CASE u # t
    <3>1. at'[t] = at[t]
      BY <1>9, <2>2, QueuesThread
    <3> QED
      BY <1>1, <3>1
  <2> QED
    BY <2>1, <2>2
<1>10. ASSUME NEW u \in Threads, NEW r \in Requests, Commits(u, r) PROVE Goal
  <2>1. CASE u = t
    <3>1. at[t].pc = "commit"
      BY <1>10, <2>1 DEF Commits
    <3>2. /\ at'[t].pc = "mint" /\ at'[t].req = at[t].req /\ at'[t].sid = at[t].sid
          /\ at'[t].new = at[t].new /\ at'[t].minted = at[t].minted
      BY <1>10, <2>1, CommitsThread
    <3> QED
      BY <3>1, <3>2 DEF Goes, Held
  <2>2. CASE u # t
    <3>1. at'[t] = at[t]
      BY <1>10, <2>2, CommitsThread
    <3> QED
      BY <1>1, <3>1
  <2> QED
    BY <2>1, <2>2
<1>11. ASSUME NEW u \in Threads, Skips(u) \/ BindsNothing(u) PROVE Goal
  <2>1. CASE u = t
    <3>1. at[t].pc \in {"mint", "bind"}
      BY <1>11, <2>1 DEF Skips, BindsNothing
    <3>2. /\ at'[t].pc = "answer" /\ at'[t].req = at[t].req /\ at'[t].sid = at[t].sid
          /\ at'[t].new = at[t].new /\ at'[t].minted \in {0, at[t].minted}
      BY <1>11, <2>1, SkipsThread, BindsNothingThread
    <3> QED
      BY <3>1, <3>2 DEF Goes, Held
  <2>2. CASE u # t
    <3>1. at'[t] = at[t]
      BY <1>11, <2>2, SkipsThread, BindsNothingThread
    <3> QED
      BY <1>1, <3>1
  <2> QED
    BY <2>1, <2>2
<1>12. ASSUME NEW u \in Threads, Mints(u) PROVE Goal
  <2>1. CASE u = t
    <3>1. at[t].pc = "mint"
      BY <1>12, <2>1 DEF Mints
    <3>2. at'[t].pc = "bind" /\ at'[t].req = at[t].req /\ at'[t].sid = at[t].sid
      BY <1>12, <2>1, MintsThread
    <3> QED
      BY <1>12, <2>1, <3>1, <3>2 DEF Goes, Held
  <2>2. CASE u # t
    <3>1. at'[t] = at[t]
      BY <1>12, <2>2, MintsThread
    <3> QED
      BY <1>1, <3>1
  <2> QED
    BY <2>1, <2>2
<1>13. ASSUME NEW u \in Threads, NEW r \in Requests, NEW w \in Receipts, Binds(u, r, w) PROVE Goal
  <2>1. CASE u = t
    <3>1. at[t].pc = "bind"
      BY <1>13, <2>1 DEF Binds
    <3>2. /\ at'[t].pc = "answer" /\ at'[t].req = at[t].req /\ at'[t].sid = at[t].sid
          /\ at'[t].new = at[t].new /\ at'[t].minted \in {0, at[t].minted}
      BY <1>13, <2>1, BindsThread
    <3> QED
      BY <3>1, <3>2 DEF Goes, Held
  <2>2. CASE u # t
    <3>1. at'[t] = at[t]
      BY <1>13, <2>2, BindsThread
    <3> QED
      BY <1>1, <3>1
  <2> QED
    BY <2>1, <2>2
<1> HIDE DEF Goal
<1>14. Goal
  <2>1. ASSUME OtherStep PROVE Goal
    BY <2>1, <1>3, <1>4 DEF OtherStep
  <2>2. ASSUME NEW u \in Threads, ThreadStep(u) PROVE Goal
    BY <2>2, <1>5, <1>6, <1>7, <1>8, <1>9, <1>10, <1>11, <1>12, <1>13 DEF ThreadStep
  <2> QED
    BY <2>1, <2>2 DEF Step
<1> QED
  BY <1>14 DEF Goal

\* What the browser has changes when a page is rendered and when an answer arrives.
LEMMA BrowserEffects ==
  ASSUME Basics, TypeOK', Step
  PROVE  /\ \A q \in Requests : posted'[q] = posted[q] \/ Rendered(q)
         /\ \/ cookie' = cookie \/ SignsIn
            \/ \E t \in Threads, q \in Requests :
                  Arrives(t, q) /\ at[t].minted # 0 /\ cookie' = at[t].minted
<1> DEFINE Goal == /\ \A q \in Requests : posted'[q] = posted[q] \/ Rendered(q)
                   /\ \/ cookie' = cookie \/ SignsIn
                      \/ \E t \in Threads, q \in Requests :
                            Arrives(t, q) /\ at[t].minted # 0 /\ cookie' = at[t].minted
<1>1. ASSUME UNCHANGED <<posted, cookie>> PROVE Goal
  BY <1>1
<1>2. ASSUME NEW r \in Requests, Rendered(r) PROVE Goal
  BY <1>2 DEF Rendered
<1>3. ASSUME NEW t \in Threads, NEW r \in Requests, Arrives(t, r) PROVE Goal
  <2>1. posted' = posted /\ cookie' = IF at[t].minted # 0 THEN at[t].minted ELSE cookie
    BY <1>3 DEF Arrives
  <2> QED
    BY <1>3, <2>1
<1>11. ASSUME SignsIn PROVE Goal
  BY <1>11 DEF SignsIn
<1> HIDE DEF Goal
<1>4. ASSUME NEW r \in Requests, Expired(r) \/ Removed(r) \/ Judged(r) PROVE Goal
  BY <1>1, <1>4 DEF Expired, Removed, Judged
<1>5. ASSUME Overruled \/ Restarts \/ Reboots \/ Rests PROVE Goal
  BY <1>1, <1>5 DEF Overruled, Restarts, Reboots, Dies, Rests
<1>6. ASSUME NEW t \in Threads, NEW r \in Requests,
             Begins(t, r) \/ Queues(t, r) \/ Commits(t, r) \/ Yields(t, r)
      PROVE  Goal
  BY <1>1, <1>6 DEF Begins, Queues, Commits, Yields
<1>7. ASSUME NEW t \in Threads, NEW r \in Requests, NEW p \in Receipts,
             Prepares(t, r, p) \/ PreparesInVain(t, r, p) \/ Binds(t, r, p)
      PROVE  Goal
  BY <1>1, <1>7 DEF Prepares, PreparesInVain, Preparing, Binds
<1>8. ASSUME NEW t \in Threads, NEW rec \in Receipts, Looks(t, rec) PROVE Goal
  BY <1>1, <1>8 DEF Looks
<1>9. ASSUME NEW t \in Threads, Skips(t) \/ BindsNothing(t) \/ Ends(t) \/ Mints(t) PROVE Goal
  BY <1>1, <1>9 DEF Skips, BindsNothing, Ends, Mints
<1>10. Goal
  <2>1. ASSUME OtherStep PROVE Goal
    BY <2>1, <1>2, <1>4, <1>5, <1>11 DEF OtherStep
  <2>2. ASSUME NEW t \in Threads, ThreadStep(t) PROVE Goal
    BY <2>2, <1>3, <1>6, <1>7, <1>8, <1>9 DEF ThreadStep
  <2> QED
    BY <2>1, <2>2 DEF Step
<1> QED
  BY <1>10 DEF Goal

\* Every step keeps the receipt of a request under the lock in place.
LEMMA SecuredStep ==
  ASSUME Recover, TypeOK', Step
  PROVE  Secured'
<1>0. Basics /\ TypeOK /\ Secured /\ Counted
  BY DEF Recover, Core, Basics
<1> SUFFICES ASSUME NEW t \in Threads, at'[t].pc \in Held, at'[t].req \notin expired'
             PROVE  \A rec \in {receipts'[at'[t].req], durReceipts'[at'[t].req]} :
                      /\ rec.new = at'[t].new
                      /\ Bound(rec, at'[t].sid) \/ bound'[at'[t].req] >= KeepSessions
  BY DEF Secured
<1>1. Goes(t)
  <2>1. at'[t].pc # "idle"
    BY DEF Held
  <2>2. ASSUME at'[t].req \in Requests, Begins(t, at'[t].req) PROVE FALSE
    BY <2>2, BeginsThread DEF Held
  <2> QED
    BY <1>0, <2>1, <2>2, Working
<1>2. /\ at[t].pc # "idle" /\ at'[t].req = at[t].req /\ at'[t].sid = at[t].sid
      /\ at[t].req \in Requests
  BY <1>0, <1>1, ReqOf DEF Goes
<1> DEFINE r == at[t].req
<1>3. ASSUME NEW p \in Receipts, Prepares(t, r, p)
      PROVE  \A rec \in {receipts'[r], durReceipts'[r]} :
                rec.new = at'[t].new /\ Bound(rec, at'[t].sid)
  <2>1. receipts'[r] = p /\ durReceipts'[r] = p /\ Bound(p, at[t].sid)
    BY <1>3 DEF Prepares, Preparing, Stores
  <2>2. at'[t].new = p.new
    BY <1>0, <1>2, <1>3, PreparesThread
  <2> QED
    BY <1>2, <2>1, <2>2
<1>4. ASSUME at[t].pc \in Held, at'[t].new = at[t].new
      PROVE  \A rec \in {receipts'[r], durReceipts'[r]} :
                /\ rec.new = at'[t].new
                /\ Bound(rec, at'[t].sid) \/ bound'[r] >= KeepSessions
  <2>1. r \notin expired /\ bound[r] <= bound'[r] /\ bound[r] \in Nat /\ bound'[r] \in Nat
    <3>1. r \notin expired /\ bound[r] <= bound'[r] /\ bound[r] \in Nat
      BY <1>0, <1>2, Grows, RequestTypes
    <3>2. bound'[r] \in Nat
      BY <1>2 DEF TypeOK
    <3> QED
      BY <3>1, <3>2
  <2>2. /\ receipts[r].new = at[t].new /\ durReceipts[r].new = at[t].new
        /\ Bound(receipts[r], at[t].sid) \/ bound[r] >= KeepSessions
        /\ Bound(durReceipts[r], at[t].sid) \/ bound[r] >= KeepSessions
    BY <1>0, <1>4, <2>1 DEF Secured
  <2>3. at[t].new # 0
    <3>1. AtWork(at[t], posted[r], next, Len(sessions)) /\ posted[r] \in Nat /\ at[t].new \in Nat
      BY <1>0, <1>2, WorkTypes
    <3> QED
      BY <1>4, <3>1 DEF AtWork, Held, Past
  <2>4. \A u \in Threads : ~Yields(u, r)
    <3>1. ASSUME NEW u \in Threads, Yields(u, r) PROVE FALSE
      <4>1. at[u].pc \in Held
        BY <3>1 DEF Yields, Held
      <4>2. u = t
        BY <1>0, <1>4, <4>1, LockHeld
      <4>3. at'[t] = Idle
        BY <3>1, <4>2, EndsThread
      <4> QED
        BY <4>3, IdleFields DEF Held
    <3> QED
      BY <3>1
  <2>5. /\ receipts'[r].new = at[t].new /\ durReceipts'[r].new = at[t].new
        /\ (Bound(receipts[r], at[t].sid) /\ Bound(durReceipts[r], at[t].sid)) =>
              \/ bound'[r] >= KeepSessions
              \/ Bound(receipts'[r], at[t].sid) /\ Bound(durReceipts'[r], at[t].sid)
    BY <1>0, <1>2, <2>2, <2>3, <2>4, StillOpens
  <2>6. bound[r] >= KeepSessions => bound'[r] >= KeepSessions
    BY <2>1, ReceiptAssumption
  <2> QED
    BY <1>2, <1>4, <2>2, <2>5, <2>6
<1> QED
  BY <1>1, <1>2, <1>3, <1>4 DEF Goes

\* Every step keeps a minted session one for the token of its request.
LEMMA MintedStep ==
  ASSUME Recover, TypeOK', Step
  PROVE  MintedFor'
<1>0. Basics /\ MintedFor
  BY DEF Recover, Core
<1> SUFFICES ASSUME NEW t \in Threads, at'[t].minted # 0
             PROVE  sessions'[at'[t].minted] = at'[t].new
  BY DEF MintedFor
<1>1. at'[t].pc # "idle"
  <2>1. ThreadsOK'
    BY <1>0, ThreadsStep
  <2>2. at'[t].pc = "idle" => at'[t] = Idle
    BY <2>1 DEF ThreadsOK, ThreadOK
  <2> QED
    BY <2>2, IdleFields
<1>2. Goes(t)
  <2>1. ASSUME at'[t].req \in Requests, Begins(t, at'[t].req) PROVE FALSE
    BY <2>1, BeginsThread
  <2> QED
    BY <1>0, <1>1, <2>1, Working
<1>3. CASE Mints(t)
  <2>1. at'[t].minted = Len(sessions) + 1 /\ at'[t].new = at[t].new
    BY <1>0, <1>3, MintsThread
  <2> QED
    BY <1>3, <2>1 DEF Mints
<1>4. CASE at'[t].minted = at[t].minted /\ at'[t].new = at[t].new
  <2>1. at[t].minted \in 1..Len(sessions)
    BY <1>0, <1>2, <1>4, ReqOf DEF AtWork, Goes
  <2>2. sessions'[at[t].minted] = sessions[at[t].minted]
    BY <1>0, <2>1, Grows
  <2> QED
    BY <1>0, <1>4, <2>2 DEF MintedFor
<1> QED
  BY <1>2, <1>3, <1>4 DEF Goes

\* Every step keeps track of the requests that are under way together.
LEMMA CrossingStep ==
  ASSUME Recover, TypeOK', Step
  PROVE  Crossing'
<1>0. Basics /\ Crossing /\ crossed \subseteq crossed'
  BY Grows DEF Recover, Core
<1> SUFFICES ASSUME NEW t \in Threads, NEW u \in Threads, at'[t].req # NoOne, at'[u].req # NoOne,
                    at'[t].req # at'[u].req
             PROVE  at'[t].req \in crossed'
  BY DEF Crossing
<1>1. ASSUME NEW v \in Threads, at'[v].req # NoOne PROVE at'[v].pc # "idle"
  <2>1. ThreadsOK'
    BY <1>0, ThreadsStep
  <2>2. at'[v].pc = "idle" => at'[v] = Idle
    BY <2>1 DEF ThreadsOK, ThreadOK
  <2> QED
    BY <1>1, <2>2, IdleFields
<1>2. /\ Goes(t) \/ (at'[t].req \in Requests /\ Begins(t, at'[t].req))
      /\ Goes(u) \/ (at'[u].req \in Requests /\ Begins(u, at'[u].req))
  BY <1>0, <1>1, Working
<1>3. CASE Goes(t) /\ Goes(u)
  BY <1>0, <1>3 DEF Goes, Crossing
<1>4. CASE at'[t].req \in Requests /\ Begins(t, at'[t].req)
  <2>1. at'[u] = at[u]
    BY <1>4, BeginsThread
  <2> QED
    BY <1>4, <2>1 DEF Begins
<1>5. CASE at'[u].req \in Requests /\ Begins(u, at'[u].req)
  <2>1. at'[t] = at[t]
    BY <1>5, BeginsThread
  <2> QED
    BY <1>5, <2>1 DEF Begins
<1> QED
  BY <1>2, <1>3, <1>4, <1>5

\* Only the request that commits a token has issued the token then in force.
LEMMA OnlyCommitter ==
  ASSUME Core, NEW t \in Threads, NEW q \in Requests, Commits(t, q),
         NEW r \in Requests, issued'[r] = gen'
  PROVE  q = r
<1> SUFFICES ASSUME q # r PROVE FALSE
  OBVIOUS
<1>1. at[t].new \in Nat /\ at[t].new > posted[q] /\ posted[q] \in Nat /\ ~Token(r, at[t].new)
  BY CommitFacts
<1>2. issued[r] = at[t].new
  BY DEF Commits
<1>3. Token(r, at[t].new)
  BY <1>1, <1>2 DEF Token, Tok
<1> QED
  BY <1>1, <1>3

\* An administrator's token is nobody's.
LEMMA NobodysToken ==
  ASSUME Basics, Overruled, NEW r \in Requests
  PROVE  issued'[r] # gen'
<1>1. issued[r] \in Nat /\ IssuedOK(issued[r], posted[r], next) /\ next \in Nat
  BY RequestTypes, GenTypes DEF Basics, RequestsOK
<1> QED
  BY <1>1 DEF Overruled, IssuedOK

\* Every step keeps the cookies on their way harmless.
LEMMA OvertakingStep ==
  ASSUME Recover, TypeOK', Step
  PROVE  Overtaking'
<1>0. /\ Core /\ Basics /\ TypeOK /\ Crossing /\ Overtaking /\ Disjoint /\ gen >= 1 /\ gen \in Nat
      /\ crossed \subseteq crossed' /\ told \subseteq told'
  BY Grows, GenTypes DEF Recover, Core, Basics
<1> SUFFICES ASSUME NEW t \in Threads, NEW r \in Requests, at'[t].minted # 0, at'[t].req # r,
                    issued'[r] = gen'
             PROVE  r \in crossed' \/ <<r, gen'>> \in told'
  BY DEF Overtaking
<1>1. at'[t].pc # "idle" /\ at'[t] # Idle
  <2>1. ThreadsOK'
    BY <1>0, ThreadsStep
  <2>2. at'[t].pc = "idle" => at'[t] = Idle
    BY <2>1 DEF ThreadsOK, ThreadOK
  <2> QED
    BY <2>2, IdleFields
<1>2. Goes(t)
  <2>1. ASSUME at'[t].req \in Requests, Begins(t, at'[t].req) PROVE FALSE
    BY <2>1, BeginsThread
  <2> QED
    BY <1>0, <1>1, <2>1, Working
<1>3. at[t].pc # "idle" /\ at'[t].req = at[t].req /\ at[t].req \in Requests
  BY <1>0, <1>2, ReqOf DEF Goes
<1>4. CASE Mints(t)
  <2>1. gen = at[t].new /\ UNCHANGED <<gen, issued>>
    BY <1>4 DEF Mints
  <2>2. Token(at[t].req, gen) /\ Token(r, gen)
    BY <1>0, <2>1 DEF Token, Tok
  <2> QED
    BY <1>0, <1>3, <2>2 DEF Disjoint
<1>5. CASE at'[t].minted = at[t].minted
  <2>1. ASSUME UNCHANGED gen, issued'[r] = issued[r] \/ issued'[r] = 0
        PROVE  r \in crossed' \/ <<r, gen'>> \in told'
    <3>1. issued[r] = gen
      BY <1>0, <2>1
    <3> QED
      BY <1>0, <1>3, <1>5, <2>1, <3>1 DEF Overtaking
  <2>2. ASSUME NEW u \in Threads, NEW q \in Requests, Commits(u, q)
        PROVE  r \in crossed'
    <3>1. q = r /\ at[u].req = q
      BY <1>0, <2>2, OnlyCommitter DEF Commits
    <3> QED
      BY <1>0, <1>3, <3>1, IdleFields DEF Crossing
  <2>3. ~Reboots
    BY <1>1 DEF Reboots, Dies
  <2>4. ~Overruled
    BY <1>0, NobodysToken
  <2> QED
    BY <1>0, <2>1, <2>2, <2>3, <2>4, Effects
<1> QED
  BY <1>2, <1>4, <1>5 DEF Goes

\* Every step keeps the requests with an old cookie harmless.
LEMMA OutdatedStep ==
  ASSUME Recover, TypeOK', Step
  PROVE  Outdated'
<1>0. /\ Core /\ Basics /\ TypeOK /\ Crossing /\ Outdated /\ Answering
      /\ crossed \subseteq crossed' /\ told \subseteq told' /\ gen \in Nat /\ next \in Nat
      /\ gen <= next
  BY Grows, GenTypes DEF Recover, Core, Basics, Ordered
<1> SUFFICES ASSUME NEW t \in Threads, at'[t].pc # "idle", at'[t].sid # cookie'
             PROVE  \/ at'[t].req \in crossed'
                    \/ /\ issued'[at'[t].req] # 0
                       /\ <<at'[t].req, issued'[at'[t].req]>> \in told'
                       /\ gen' > posted'[at'[t].req]
  BY DEF Outdated
<1>1. Goes(t)
  <2>1. ASSUME at'[t].req \in Requests, Begins(t, at'[t].req) PROVE FALSE
    BY <2>1, BeginsThread DEF Begins
  <2> QED
    BY <1>0, <2>1, Working
<1> DEFINE r == at[t].req
<1>2. /\ at[t].pc # "idle" /\ at'[t].req = r /\ at'[t].sid = at[t].sid /\ r \in Requests
      /\ posted[r] # 0
  BY <1>0, <1>1, ReqOf DEF Goes
<1>3. posted'[r] = posted[r] /\ posted[r] \in Nat /\ issued[r] \in Nat /\ posted[r] <= next
  BY <1>0, <1>2, Grows, RequestTypes DEF Basics, RequestsOK
<1>4. at'[t] # Idle
  BY IdleFields
<1> HIDE DEF r
<1>5. ASSUME issued[r] # 0, <<r, issued[r]>> \in told, gen > posted[r]
      PROVE  issued'[r] # 0 /\ <<r, issued'[r]>> \in told' /\ gen' > posted'[r]
  <2>1. ASSUME UNCHANGED gen, issued'[r] = issued[r] \/ (issued'[r] = 0 /\ gen <= posted[r])
        PROVE  issued'[r] = issued[r] /\ gen' > posted[r]
    BY <1>0, <1>3, <1>5, <2>1
  <2>2. ASSUME NEW u \in Threads, NEW q \in Requests, Commits(u, q)
        PROVE  issued'[r] = issued[r] /\ gen' > posted[r]
    <3>1. gen <= at[u].new /\ issued[q] \in {0, at[u].new} /\ at[u].new \in Nat
      BY <1>0, <2>2, CommitFacts
    <3>2. /\ gen' = at[u].new /\ issued'[q] = at[u].new
          /\ \A v \in Requests : v # q => issued'[v] = issued[v]
      BY <2>2 DEF Commits
    <3>3. issued'[r] = issued[r]
      BY <1>2, <1>5, <3>1, <3>2
    <3>4. gen' > posted[r]
      BY <1>0, <1>3, <1>5, <3>1, <3>2
    <3> QED
      BY <3>3, <3>4
  <2>3. ASSUME Overruled
        PROVE  issued'[r] = issued[r] /\ gen' > posted[r]
    BY <1>0, <1>3, <1>5, <2>3 DEF Overruled
  <2>4. ~Reboots
    BY <1>4 DEF Reboots, Dies
  <2>5. issued'[r] = issued[r] /\ gen' > posted[r]
    BY <1>0, <1>2, <2>1, <2>2, <2>3, <2>4, Effects
  <2> QED
    BY <1>0, <1>3, <1>5, <2>5
<1>6. CASE cookie' = cookie
  <2>1. r \in crossed \/ (issued[r] # 0 /\ <<r, issued[r]>> \in told /\ gen > posted[r])
    BY <1>0, <1>2, <1>6 DEF Outdated, r
  <2> QED
    BY <1>0, <1>2, <1>5, <2>1
<1>7. ASSUME NEW u \in Threads, NEW q \in Requests, Arrives(u, q)
      PROVE  r \in crossed' \/ (issued'[r] # 0 /\ <<r, issued'[r]>> \in told' /\ gen' > posted'[r])
  <2>1. /\ at[u].pc = "answer" /\ at[u].req = q /\ told' = told \cup {<<q, at[u].new>>}
        /\ UNCHANGED <<gen, issued>>
    BY <1>7 DEF Arrives
  <2>2. CASE q # r
    BY <1>0, <1>2, <2>1, <2>2, IdleFields DEF Crossing, r
  <2>3. CASE q = r
    <3>1. issued[r] = at[u].new /\ gen >= at[u].new
      BY <1>0, <2>1, <2>3 DEF Answering, Past
    <3>2. at[u].new > posted[r] /\ at[u].new \in Nat
      <4>1. AtWork(at[u], posted[q], next, Len(sessions)) /\ at[u].new \in Nat
        BY <1>0, <2>1, WorkTypes
      <4> QED
        BY <2>1, <2>3, <4>1 DEF AtWork, Past
    <3> QED
      BY <1>0, <1>3, <2>1, <2>3, <3>1, <3>2
  <2> QED
    BY <2>2, <2>3
<1>8. ASSUME SignsIn
      PROVE  r \in crossed'
  BY <1>2, <1>8 DEF SignsIn
<1> QED
  BY <1>0, <1>2, <1>6, <1>7, <1>8, BrowserEffects

\* Every step keeps the token in force recoverable.
LEMMA RecoverableStep ==
  ASSUME Recover, TypeOK', Step
  PROVE  TokenRecoverable'
<1>0. /\ Core /\ Basics /\ TypeOK /\ Overtaking /\ Outdated /\ Answering /\ Secured /\ Counted
      /\ Undoable /\ TokenRecoverable
      /\ crossed \subseteq crossed' /\ told \subseteq told' /\ expired \subseteq expired'
      /\ gen \in Nat /\ gen >= 1 /\ durGen \in Nat /\ durGen >= 1 /\ durGen <= gen
  BY Grows, GenTypes DEF Recover, Core, Basics, Ordered
<1> SUFFICES ASSUME NEW r \in Requests, issued'[r] = gen', ~Shown(r, gen)', r \notin expired'
             PROVE  \A rec \in {receipts'[r], durReceipts'[r]} :
                       /\ rec.new = gen'
                       /\ Bound(rec, cookie') \/ bound'[r] >= KeepSessions \/ r \in crossed'
  BY DEF TokenRecoverable
<1>1. /\ bound[r] \in Nat /\ bound'[r] \in Nat /\ bound[r] <= bound'[r] /\ KeepSessions \in Nat
      /\ bound[r] >= KeepSessions => bound'[r] >= KeepSessions
  <2>1. bound[r] \in Nat /\ bound[r] <= bound'[r]
    BY <1>0, Grows, RequestTypes
  <2>2. bound'[r] \in Nat /\ KeepSessions \in Nat
    BY ReceiptAssumption DEF TypeOK
  <2> QED
    BY <2>1, <2>2
<1>9. <<r, gen'>> \notin told' /\ \A q \in Requests : posted'[q] # gen'
  BY DEF Shown
\* What was shown stays shown, so the token was not shown before.
<1>10. gen' = gen => ~Shown(r, gen)
  <2>1. ASSUME gen' = gen, NEW q \in Requests, posted[q] = gen PROVE FALSE
    <3>1. posted'[q] = gen
      BY <1>0, <2>1, Grows
    <3> QED
      BY <1>9, <2>1, <3>1
  <2> QED
    BY <1>0, <1>9, <2>1 DEF Shown
\* An answer that brings a cookie is the request's own, or of one that ran beside it.
<1>2. ASSUME NEW t \in Threads, NEW q \in Requests, Arrives(t, q), at[t].minted # 0
      PROVE  r \in crossed'
  <2>1. /\ at[t].pc = "answer" /\ at[t].req = q /\ told' = told \cup {<<q, at[t].new>>}
        /\ UNCHANGED <<gen, issued>>
    BY <1>2 DEF Arrives
  <2>2. CASE q = r
    <3>1. issued[r] = at[t].new
      BY <1>0, <2>1, <2>2 DEF Answering, Past
    <3> QED
      BY <1>9, <2>1, <2>2, <3>1
  <2>3. CASE q # r
    BY <1>0, <1>2, <1>9, <2>1, <2>3 DEF Overtaking
  <2> QED
    BY <2>2, <2>3
\* The token was in force before, or is committed by the step.
<1>3. ASSUME issued[r] = gen, gen' = gen
      PROVE  \A rec \in {receipts'[r], durReceipts'[r]} :
                /\ rec.new = gen'
                /\ Bound(rec, cookie') \/ bound'[r] >= KeepSessions \/ r \in crossed'
  <2>1. /\ receipts[r].new = gen /\ durReceipts[r].new = gen
        /\ Bound(receipts[r], cookie) \/ bound[r] >= KeepSessions \/ r \in crossed
        /\ Bound(durReceipts[r], cookie) \/ bound[r] >= KeepSessions \/ r \in crossed
    BY <1>0, <1>3, <1>10 DEF TokenRecoverable
  <2>2. \A t \in Threads : ~Yields(t, r)
    <3>1. ASSUME NEW t \in Threads, Yields(t, r) PROVE FALSE
      <4>1. at[t].pc = "commit" /\ at[t].req = r /\ ~CanCommit(t)
        BY <3>1 DEF Yields
      <4>2. receipts[r].new = at[t].new
        BY <1>0, <4>1 DEF Secured, Held
      <4> QED
        BY <2>1, <4>1, <4>2 DEF CanCommit
    <3> QED
      BY <3>1
  <2>3. /\ receipts'[r].new = gen /\ durReceipts'[r].new = gen
        /\ (Bound(receipts[r], cookie) /\ Bound(durReceipts[r], cookie)) =>
              \/ bound'[r] >= KeepSessions
              \/ Bound(receipts'[r], cookie) /\ Bound(durReceipts'[r], cookie)
    BY <1>0, <2>1, <2>2, StillOpens
  <2>4. cookie' = cookie \/ r \in crossed'
    <3>1. ASSUME SignsIn PROVE r \in crossed'
      <4>1. posted[r] # 0
        BY <1>0, <1>3, RequestTypes DEF Basics, RequestsOK, IssuedOK
      <4> QED
        BY <3>1, <4>1 DEF SignsIn
    <3> QED
      BY <1>0, <1>2, <3>1, BrowserEffects
  <2> QED
    BY <1>0, <1>1, <1>3, <2>1, <2>3, <2>4
<1>4. ASSUME NEW t \in Threads, NEW q \in Requests, Commits(t, q)
      PROVE  \A rec \in {receipts'[r], durReceipts'[r]} :
                /\ rec.new = gen'
                /\ Bound(rec, cookie') \/ bound'[r] >= KeepSessions \/ r \in crossed'
  <2>1. q = r
    BY <1>0, <1>4, OnlyCommitter
  <2>2. /\ at[t].pc = "commit" /\ at[t].req = r /\ gen' = at[t].new
        /\ UNCHANGED <<receipts, durReceipts, cookie, told, expired, bound, crossed>>
    BY <1>4, <2>1 DEF Commits
  <2>3. \A rec \in {receipts[r], durReceipts[r]} :
           rec.new = at[t].new /\ (Bound(rec, at[t].sid) \/ bound[r] >= KeepSessions)
    BY <1>0, <2>2 DEF Secured, Held
  <2>4. at[t].sid = cookie \/ r \in crossed
    <3>1. issued[r] \in {0, at[t].new}
      BY <1>0, <1>4, <2>1, CommitFacts
    <3> QED
      BY <1>0, <1>9, <2>2, <3>1 DEF Outdated
  <2> QED
    BY <2>2, <2>3, <2>4
<1>5. ASSUME Reboots
      PROVE  issued[r] = gen /\ gen' = gen
  <2>1. /\ gen' = durGen /\ posted' = posted
        /\ issued'[r] = IF posted[r] >= durGen /\ durReceipts[r].new # issued[r]
                          THEN 0 ELSE issued[r]
    BY <1>5 DEF Reboots, Dies
  <2>2. issued[r] = durGen
    BY <1>0, <2>1
  <2>3. ASSUME gen # durGen PROVE FALSE
    <3>1. PICK q \in Requests : posted[q] = durGen
      BY <1>0, <2>3 DEF Undoable
    <3> QED
      BY <1>9, <2>1, <3>1
  <2> QED
    BY <2>1, <2>2, <2>3
<1>6. ASSUME UNCHANGED gen, issued'[r] = issued[r] \/ issued'[r] = 0
      PROVE  issued[r] = gen
  BY <1>0, <1>6
<1> QED
  BY <1>0, <1>3, <1>4, <1>5, <1>6, NobodysToken, Effects

\* Every action keeps Recover.
LEMMA RecoverStep ==
  ASSUME Recover, [Next]_vars
  PROVE  Recover'
<1>1. Core' /\ Step /\ TypeOK' /\ Basics /\ Counted
  BY CoreStep DEF Recover, Core, Basics
<1>2. Secured' /\ MintedFor' /\ Crossing'
  BY <1>1, SecuredStep, MintedStep, CrossingStep
<1>4. Overtaking' /\ Outdated' /\ TokenRecoverable'
  BY <1>1, OvertakingStep, OutdatedStep, RecoverableStep
<1>5. Counted'
  BY <1>1, CountedStep
<1> QED
  BY <1>1, <1>2, <1>4, <1>5 DEF Recover

\* Recover holds at first.
LEMMA RecoverInit == Init => Recover
<1> SUFFICES ASSUME Init PROVE Recover
  OBVIOUS
<1>1. Core /\ gen = 1 /\ \A r \in Requests : issued[r] = 0
  BY CoreInit DEF Init
<1>2. \A t \in Threads : at[t] = Idle
  BY DEF Init
<1>5. Secured /\ MintedFor /\ Crossing /\ Overtaking /\ Outdated
  BY <1>2, IdleFields DEF Secured, Held, MintedFor, Crossing, Overtaking, Outdated
<1>6. Counted
  BY NoReceiptType DEF Init, Counted
<1>7. TokenRecoverable
  BY <1>1 DEF TokenRecoverable
<1> QED
  BY <1>1, <1>5, <1>6, <1>7 DEF Recover

\* The inductive invariant.
IInv == Cover /\ Recover

\* The inductive invariant holds in every reachable state: of the receipts, the intents,
\* the handlers and the browser, for any number of pages and threads, any limits on
\* faults, and any number of sessions a receipt remembers.
THEOREM ReceiptInvariant == Spec => []IInv
<1>1. Init => IInv
  BY CoverInit, RecoverInit DEF IInv
<1>2. IInv /\ [Next]_vars => IInv'
  BY CoverStep, RecoverStep DEF IInv
<1> QED
  BY <1>1, <1>2, PTL DEF Spec

\* Every variable keeps its type; a receipt never remembers more sessions than it may
\* (bind_replacement_session).
THEOREM ReceiptTypeOK == Spec => []TypeOK
<1>1. IInv => TypeOK
  BY DEF IInv, Cover, Core, Basics
<1> QED
  BY <1>1, ReceiptInvariant, PTL

\* A token that a request has made and that is in force has its intent in the revocation
\* queue until its predecessors were kicked (_recoverable_user_rotation,
\* revocation_queue), but for the requests in late.
THEOREM Covered == Spec => []RotationCovered
<1>1. IInv => RotationCovered
  BY DEF IInv, Cover
<1> QED
  BY <1>1, ReceiptInvariant, PTL

\* A token in force that the browser was not shown is in a durable receipt that opens for
\* the cookie the browser has (rotation_recovery), within the limits that
\* TokenRecoverable names, for sessions of a token and of a password alike.
THEOREM Recoverable == Spec => []TokenRecoverable
<1>1. IInv => TokenRecoverable
  BY DEF IInv, Recover
<1> QED
  BY <1>1, ReceiptInvariant, PTL

===============================================================================
