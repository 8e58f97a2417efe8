-------------------------- MODULE RotationReceipts --------------------------
(***************************************************************************)
(* A user's own token rotation and the receipts that let a browser repeat  *)
(* it when the answer was lost: rotation_recovery.py and                   *)
(* _recoverable_user_rotation with its handler in subscription_service.py. *)
(*                                                                         *)
(* One user, one browser with one session cookie, several pages (request   *)
(* ids).  A token is its generation, a number; a session is a number, and *)
(* belongs to the token or the panel password it was opened with.  The     *)
(* revocation queue is the one of Revocation: here a task is there or not. *)
(***************************************************************************)
EXTENDS Naturals, Sequences, SequencesExt, FiniteSets

CONSTANTS Requests,             \* idempotency keys
          Threads,              \* handler threads of the panel
          KeepSessions,         \* sessions a receipt remembers (4 in the code)
          MaxGen,               \* bound: tokens ever made
          MaxSession,           \* bound: sessions ever made
          MaxFaults             \* bound: failing writes, lost answers, crashes

NoOne == "none"

ASSUME ReceiptAssumption == /\ KeepSessions \in Nat \ {0}
                            /\ MaxGen \in Nat \ {0} /\ MaxSession \in Nat \ {0}
                            /\ MaxFaults \in Nat
                            /\ NoOne \notin Requests \cup Threads

VARIABLES gen, durGen,          \* sub_token in users.json, and what a crash leaves
          receipts, durReceipts,\* credential_rotation_receipts.json, likewise
          tasks,                \* intents in the revocation queue
          sessions,             \* session |-> generation it was minted for, or Password
          doomed,               \* the intent the worker is about to discard
          lock,                 \* holder of usage_lock
          at,                   \* the request every thread serves
          cookie,               \* the session the browser holds
          posted,               \* the token in a rendered page, or 0
          next,                 \* tokens made so far
          faults,
          issued,               \* history: the token a request has committed, or 0
          told,                 \* history: <<request, token>> the browser received
          expired,              \* requests whose receipt has expired
          revoked,              \* history: tokens whose predecessors have no connection
          bound,                \* history: sessions ever bound to a receipt
          crossed,              \* history: requests under way together with another, or
                                \* whose page was open at a sign-in
          late                  \* history: requests whose intent may be gone when they commit

queue == <<tasks, doomed>>
files == <<gen, durGen, receipts, durReceipts, queue, sessions>>
browser == <<cookie, posted>>
history == <<issued, told, expired, revoked, bound, crossed, late>>
vars == <<files, lock, at, browser, next, faults, history>>

NoReceipt == [old |-> 0, new |-> 0, sessions |-> <<>>]
NoTask == [prev |-> 0, target |-> 0]
Idle == [pc |-> "idle", req |-> NoOne, sid |-> 0, seen |-> NoReceipt, new |-> 0, minted |-> 0]
Password == 0                   \* credential_kind panel_password
Gens == 0..MaxGen
Sids == 0..MaxSession

Receipts == [old : Gens, new : Gens, sessions : Seq(Sids)]
ThreadStates == [pc : {"idle", "lookup", "lock", "queue", "commit", "mint", "bind", "answer"},
                 req : Requests \cup {NoOne}, sid : Sids, seen : Receipts, new : Gens,
                 minted : Sids]

Init == /\ gen = 1 /\ durGen = 1
        /\ receipts = [r \in Requests |-> NoReceipt] /\ durReceipts = receipts
        /\ tasks = [r \in Requests |-> NoTask]
        /\ sessions \in {<<1>>, <<Password>>}
        /\ doomed = NoOne /\ lock = NoOne /\ at = [t \in Threads |-> Idle]
        /\ cookie = 1 /\ posted = [r \in Requests |-> 0]
        /\ next = 1 /\ faults = 0
        /\ issued = [r \in Requests |-> 0] /\ told = {} /\ expired = {}
        /\ revoked = {} /\ bound = [r \in Requests |-> 0] /\ crossed = {} /\ late = {}

-----------------------------------------------------------------------------
(* Helpers                                                                 *)

Fault == faults < MaxFaults /\ faults' = faults + 1
NoFault == UNCHANGED faults
Goto(t, s) == at' = [at EXCEPT ![t].pc = s]
Finish(t) == at' = [at EXCEPT ![t] = Idle]

Bound(rec, sid) == sid \in ToSet(rec.sessions)

\* lookup_bound: a live receipt, only for a session it is bound to.
Lookup(r, sid) == IF receipts[r] # NoReceipt /\ Bound(receipts[r], sid)
                    THEN receipts[r] ELSE NoReceipt

\* _rotation_session_allows: the session was minted for the token the page
\* carries, or for the panel password.
SessionAllows(sid, r) == sessions[sid] \in {posted[r], Password}

\* prepare: a receipt that is there has to be bound to the session and to
\* start from the same token; otherwise a new one is made.
PrepareAllowed(r, sid, old) ==
  receipts[r] # NoReceipt => Bound(receipts[r], sid) /\ receipts[r].old = old
Prepared(r, sid, old, new) ==
  IF receipts[r] # NoReceipt THEN receipts[r]
                             ELSE [old |-> old, new |-> new, sessions |-> <<sid>>]

SaveReceipt(r, rec) == /\ receipts' = [receipts EXCEPT ![r] = rec]
                       /\ durReceipts' = receipts'

\* bind_replacement_session keeps the last sessions only.
LastSessions(s) == IF Len(s) <= KeepSessions THEN s
                   ELSE SubSeq(s, Len(s) - KeepSessions + 1, Len(s))

\* Mutant: the new session replaces the old.
WithSessionOnly(rec, sid) == [rec EXCEPT !.sessions = <<sid>>]

WithSession(rec, sid) == [rec EXCEPT !.sessions = LastSessions(Append(@, sid))]

-----------------------------------------------------------------------------
(* The browser                                                             *)

\* The user signs in by password or by a link with the token in force, and the
\* browser has another cookie.
SignIn == /\ Len(sessions) < MaxSession
          /\ sessions' \in {Append(sessions, s) : s \in {Password, gen}}
          /\ cookie' = Len(sessions')
          /\ crossed' = crossed \cup {r \in Requests : posted[r] # 0}
          /\ UNCHANGED <<gen, durGen, receipts, durReceipts, queue, lock, at, posted, next, faults,
                         issued, told, expired, revoked, bound, late>>

\* A page of the user panel is rendered with the token and a request id.
OpenPage(r) == /\ posted[r] = 0 /\ sessions[cookie] \in {gen, Password}
               /\ posted' = [posted EXCEPT ![r] = gen]
               /\ UNCHANGED <<files, lock, at, cookie, next, faults, history>>

\* It is sent, or sent again.
Send(t, r) == /\ at[t] = Idle /\ posted[r] # 0
              /\ at' = [at EXCEPT ![t] = [Idle EXCEPT !.pc = "lookup", !.req = r, !.sid = cookie]]
              /\ LET others == {at[u].req : u \in Threads} \ {r, NoOne}
                 IN crossed' = IF others = {} THEN crossed ELSE crossed \cup others \cup {r}
              /\ UNCHANGED <<files, lock, browser, next, faults,
                             issued, told, expired, revoked, bound, late>>

-----------------------------------------------------------------------------
(* _recoverable_user_rotation                                              *)

\* The first lookup, before usage_lock.
FirstLookup(t) == /\ at[t].pc = "lookup"
                  /\ at' = [at EXCEPT ![t].seen = Lookup(at[t].req, at[t].sid), ![t].pc = "lock"]
                  /\ UNCHANGED <<files, lock, browser, next, faults, history>>

\* Under usage_lock: look again, refuse, or prepare the receipt.  The new
\* token is the receipt's if there is one.
Seen(t) == IF at[t].seen # NoReceipt THEN at[t].seen ELSE Lookup(at[t].req, at[t].sid)
MayRotate(t) == SessionAllows(at[t].sid, at[t].req) /\ posted[at[t].req] = gen

PrepareReceipt(t) ==
  LET r == at[t].req  rec == Seen(t)
      old == IF rec # NoReceipt THEN rec.old ELSE gen
      new == IF rec # NoReceipt THEN rec.new ELSE next + 1
  IN /\ at[t].pc = "lock" /\ lock = NoOne
     /\ rec # NoReceipt \/ MayRotate(t)
     /\ new <= MaxGen /\ PrepareAllowed(r, at[t].sid, old)
     /\ next' = IF rec # NoReceipt THEN next ELSE next + 1
     /\ LET p == Prepared(r, at[t].sid, old, new)
        IN \/ /\ SaveReceipt(r, p) /\ NoFault
              /\ lock' = t
              /\ at' = [at EXCEPT ![t].seen = p, ![t].new = p.new, ![t].pc = "queue"]
           \/ \* the save is visible at most, and the request fails
              /\ Fault
              /\ receipts' \in {receipts, [receipts EXCEPT ![r] = p]}
              /\ Finish(t) /\ UNCHANGED <<durReceipts, lock>>
     /\ UNCHANGED <<gen, durGen, queue, sessions, browser, history>>

\* Nothing is prepared: the receipt is another session's, or there is none and the
\* token has changed, the session or its password is no longer valid, or the account
\* is disabled or expired (which may be at any time).
Refuse(t) == /\ at[t].pc = "lock" /\ lock = NoOne
             /\ Seen(t) # NoReceipt => ~PrepareAllowed(at[t].req, at[t].sid, Seen(t).old)
             /\ Finish(t)
             /\ UNCHANGED <<files, lock, browser, next, faults, history>>

\* revocation_queue.prepare: the intent is written before the token; an intent
\* of the same request for another token is a conflict.
QueueTask(t) ==
  LET r == at[t].req
      task == [prev |-> at[t].seen.old, target |-> at[t].new]
  IN /\ at[t].pc = "queue"
     /\ IF tasks[r] \in {NoTask, task}
          THEN \/ /\ tasks' = [tasks EXCEPT ![r] = task] /\ Goto(t, "commit")
                  /\ NoFault /\ UNCHANGED lock
               \/ /\ Fault /\ tasks' \in {tasks, [tasks EXCEPT ![r] = task]}
                  /\ Finish(t) /\ lock' = NoOne
          ELSE Finish(t) /\ lock' = NoOne /\ NoFault /\ UNCHANGED tasks
     /\ UNCHANGED <<gen, durGen, receipts, durReceipts, doomed, sessions, browser, next, history>>

\* Mutant: a rotation that was overtaken is committed all the same.
CanCommitAnyway(t) == TRUE

\* The token is committed (or written again, for a new point of durability),
\* with the outcomes of a save: durable, replaced but not synced, failed.
CanCommit(t) == gen = at[t].new \/ (gen = at[t].seen.old /\ posted[at[t].req] = gen)
Committed(t) == [issued EXCEPT ![at[t].req] = at[t].new]

Commit(t) ==
  /\ at[t].pc = "commit" /\ CanCommit(t)
  /\ lock' = NoOne
  /\ \/ /\ gen' = at[t].new /\ durGen' = at[t].new /\ NoFault
        /\ issued' = Committed(t) /\ Goto(t, "mint")
     \/ /\ gen' = at[t].new /\ UNCHANGED durGen /\ Fault
        /\ issued' = Committed(t) /\ Goto(t, "mint")
     \/ Fault /\ Finish(t) /\ UNCHANGED <<gen, durGen, issued>>
  /\ late' = IF gen' # gen /\ at[t].req \in expired THEN late \cup {at[t].req} ELSE late
  /\ UNCHANGED <<receipts, durReceipts, queue, sessions, browser, next,
                 told, expired, revoked, bound, crossed>>

\* Another rotation has overtaken this one: receipt and intent are discarded.  (Or a
\* host crash has undone even the token it starts from; then the token it had
\* committed before the crash is forgotten with the receipt.)
Conflict(t) ==
  /\ at[t].pc = "commit" /\ ~CanCommit(t)
  /\ \/ /\ SaveReceipt(at[t].req, NoReceipt)
        /\ tasks' = [tasks EXCEPT ![at[t].req] = NoTask] /\ NoFault
        /\ issued' = [issued EXCEPT ![at[t].req] = IF gen < posted[at[t].req] THEN 0 ELSE @]
     \/ Fault /\ UNCHANGED <<receipts, durReceipts, tasks, issued>>
  /\ lock' = NoOne /\ Finish(t)
  /\ UNCHANGED <<gen, durGen, doomed, sessions, browser, next,
                 told, expired, revoked, bound, crossed, late>>

-----------------------------------------------------------------------------
(* The handler, after the static proxies and the kick                      *)

\* Under usage_lock again: a session is minted only for the current token.
Mint(t) ==
  /\ at[t].pc = "mint" /\ lock = NoOne
  /\ \/ /\ gen = at[t].new /\ Len(sessions) < MaxSession
        /\ sessions' = Append(sessions, gen)
        /\ at' = [at EXCEPT ![t].seen = NoReceipt, ![t].minted = Len(sessions) + 1, ![t].pc = "bind"]
        /\ NoFault
     \/ gen # at[t].new /\ Finish(t) /\ NoFault /\ UNCHANGED sessions
     \/ Fault /\ Goto(t, "answer") /\ UNCHANGED sessions
  /\ UNCHANGED <<gen, durGen, receipts, durReceipts, queue, lock, browser, next, history>>

\* The receipt is bound to the new session as well; if it cannot be, the answer
\* is a page with the token instead of a redirect with the cookie.
Bind(t) ==
  LET r == at[t].req
      rec == WithSession(receipts[r], at[t].minted)
      Unbound == at' = [at EXCEPT ![t].minted = 0, ![t].pc = "answer"]
  IN /\ at[t].pc = "bind"
     /\ IF Bound(receipts[r], at[t].sid)
          THEN \/ /\ SaveReceipt(r, rec) /\ NoFault
                  /\ bound' = [bound EXCEPT ![r] = @ + 1]
                  /\ Goto(t, "answer")
               \/ /\ Fault /\ Unbound
                  /\ \/ receipts' = [receipts EXCEPT ![r] = rec] /\ bound' = [bound EXCEPT ![r] = @ + 1]
                     \/ UNCHANGED <<receipts, bound>>
                  /\ UNCHANGED durReceipts
          ELSE Unbound /\ NoFault /\ UNCHANGED <<receipts, durReceipts, bound>>
     /\ UNCHANGED <<gen, durGen, queue, sessions, lock, browser, next,
                    issued, told, expired, revoked, crossed, late>>

\* The answer arrives: a redirect with the new cookie, or a page with the token.
Arrive(t) ==
  /\ at[t].pc = "answer"
  /\ told' = told \cup {<<at[t].req, at[t].new>>}
  /\ cookie' = IF at[t].minted # 0 THEN at[t].minted ELSE cookie
  /\ Finish(t)
  /\ UNCHANGED <<files, lock, posted, next, faults, issued, expired, revoked, bound, crossed, late>>

\* The answer is lost.
Lost(t) == /\ at[t].pc = "answer" /\ Fault
           /\ Finish(t)
           /\ UNCHANGED <<files, lock, browser, next, history>>

-----------------------------------------------------------------------------
(* The rest of the system                                                  *)

\* A receipt expires, and everyone prunes before reading.  With it goes a token that
\* was committed and undone by a host crash: the request would make another one.
Expire(r) == /\ r \notin expired /\ receipts[r] # NoReceipt
             /\ SaveReceipt(r, NoReceipt)
             /\ expired' = expired \cup {r}
             /\ issued' = [issued EXCEPT ![r] = IF gen <= posted[r] THEN 0 ELSE @]
             /\ UNCHANGED <<gen, durGen, queue, sessions, lock, at, browser, next, faults,
                            told, revoked, bound, crossed, late>>

\* The revocation worker has kicked twice for a committed token.
TaskDone(r) == /\ tasks[r] # NoTask /\ lock = NoOne /\ tasks[r].target = gen
               /\ tasks' = [tasks EXCEPT ![r] = NoTask]
               /\ revoked' = revoked \cup {gen}
               /\ UNCHANGED <<gen, durGen, receipts, durReceipts, doomed, sessions, lock, at,
                              browser, next, faults, issued, told, expired, bound, crossed, late>>

\* Mutant: an intent that is not committed yet counts as overtaken.
TaskJudgedEarly(r) == /\ doomed = NoOne /\ tasks[r] # NoTask /\ lock = NoOne
                      /\ gen # tasks[r].target
                      /\ doomed' = r
                      /\ UNCHANGED <<gen, durGen, receipts, durReceipts, tasks, sessions, lock,
                                     at, browser, next, faults, history>>

\* Under usage_lock it finds that an intent was overtaken, or that it has not
\* been committed within its time; it discards the intent, by its name, after the
\* lock.  That time is five minutes longer than a receipt's: no request that had
\* found the receipt is under way any more.  An intent whose first token a host crash
\* has undone looks overtaken as well (late: its request may still be repeated).
TaskJudged(r) == /\ doomed = NoOne /\ tasks[r] # NoTask /\ lock = NoOne /\ gen # tasks[r].target
                 /\ gen = tasks[r].prev => r \in expired /\ \A t \in Threads : at[t].req # r
                 /\ doomed' = r
                 /\ late' = IF gen < tasks[r].prev THEN late \cup {r} ELSE late
                 /\ UNCHANGED <<gen, durGen, receipts, durReceipts, tasks, sessions, lock, at, browser,
                                next, faults, issued, told, expired, revoked, bound, crossed>>

TaskDropped == /\ doomed # NoOne
               /\ tasks' = [tasks EXCEPT ![doomed] = NoTask]
               /\ doomed' = NoOne
               /\ UNCHANGED <<gen, durGen, receipts, durReceipts, sessions, lock, at,
                              browser, next, faults, history>>

\* An administrator rotates the token.
AdminRotates == /\ lock = NoOne /\ next < MaxGen
                /\ next' = next + 1 /\ gen' = next + 1 /\ durGen' = next + 1
                /\ UNCHANGED <<receipts, durReceipts, queue, sessions, lock, at, browser,
                               faults, history>>

\* The panel is killed, or the host goes down, loses what was not durable and ends
\* every connection: those made later know the token that is in force again.  A
\* rotation it has undone and of which no durable receipt is left is forgotten.
PanelCrash == /\ Fault /\ at # [t \in Threads |-> Idle]
              /\ at' = [t \in Threads |-> Idle] /\ lock' = NoOne /\ doomed' = NoOne
              /\ UNCHANGED <<gen, durGen, receipts, durReceipts, tasks, sessions,
                             browser, next, history>>

HostCrash == /\ Fault
             /\ at' = [t \in Threads |-> Idle] /\ lock' = NoOne /\ doomed' = NoOne
             /\ gen' = durGen /\ receipts' = durReceipts
             /\ issued' = [r \in Requests |->
                            IF posted[r] >= durGen /\ durReceipts[r].new # issued[r]
                              THEN 0 ELSE issued[r]]
             /\ revoked' = revoked \cup {durGen}
             /\ UNCHANGED <<durGen, durReceipts, tasks, sessions, browser, next,
                            told, expired, bound, crossed, late>>

Handler(t) == \/ FirstLookup(t) \/ PrepareReceipt(t) \/ Refuse(t) \/ QueueTask(t)
              \/ Commit(t) \/ Conflict(t) \/ Mint(t) \/ Bind(t) \/ Arrive(t) \/ Lost(t)

Next == \/ \E t \in Threads : Handler(t) \/ \E r \in Requests : Send(t, r)
        \/ \E r \in Requests : OpenPage(r) \/ Expire(r) \/ TaskDone(r) \/ TaskJudged(r)
        \/ SignIn \/ TaskDropped \/ AdminRotates \/ PanelCrash \/ HostCrash

Spec == Init /\ [][Next]_vars

-----------------------------------------------------------------------------
(* Properties                                                              *)

TypeOK == /\ gen \in 1..MaxGen /\ durGen \in 1..MaxGen
          /\ receipts \in [Requests -> Receipts] /\ durReceipts \in [Requests -> Receipts]
          /\ \A r \in Requests : /\ Len(receipts[r].sessions) <= KeepSessions
                                /\ Len(durReceipts[r].sessions) <= KeepSessions
          /\ tasks \in [Requests -> [prev : Gens, target : Gens]]
          /\ sessions \in Seq(Gens) /\ Len(sessions) <= MaxSession
          /\ doomed \in Requests \cup {NoOne} /\ lock \in Threads \cup {NoOne}
          /\ at \in [Threads -> ThreadStates]
          /\ cookie \in 1..MaxSession /\ posted \in [Requests -> Gens]
          /\ next \in 1..MaxGen /\ faults \in 0..MaxFaults
          /\ issued \in [Requests -> Gens] /\ bound \in [Requests -> Nat]
          /\ told \subseteq Requests \X Gens /\ revoked \subseteq Gens
          /\ expired \cup crossed \cup late \subseteq Requests

\* The user is never locked out by a lost answer: as long as the token in force is
\* one that a request of the browser made, and neither its answer nor a page opened
\* since has shown it to the browser, its receipt is there, on the disk too, and opens
\* for the cookie the browser still has.  Exceptions are a receipt that has expired,
\* more lost answers than it remembers sessions, and another rotation under way or a
\* sign-in, which replace the cookie.
Shown(r, x) == <<r, x>> \in told \/ \E q \in Requests : posted[q] = x

TokenRecoverable ==
  \A r \in Requests :
     (issued[r] = gen /\ ~Shown(r, gen) /\ r \notin expired)
        => \A rec \in {receipts[r], durReceipts[r]} :
             /\ rec.new = gen
             /\ Bound(rec, cookie) \/ bound[r] >= KeepSessions \/ r \in crossed

\* A token in force always has its revocation intent in the queue until its
\* predecessors were kicked, although requests die between receipt, intent, commit
\* and kick and are repeated.  There are two exceptions (late).  A receipt expires
\* between two steps of a request and prepare makes it anew, while the intent keeps
\* its old time: one committed from it can lose its intent.  And a host crash undoes
\* two rotations in a row: the worker takes the second one's intent for overtaken
\* and drops it although both requests are being repeated.
RotationCovered == TypeOK /\
  \A r \in Requests \ late :
     (issued[r] = gen /\ gen \notin revoked) => tasks[r].target = gen

\* Nobody is told a token that its own request has not committed, and retries of
\* a request all commit and tell the same one.
Abstract == INSTANCE IdempotentRotation
              WITH Credentials <- 1..MaxGen, None <- 0, current <- gen, base <- posted
ImplementsIdempotentRotation == Abstract!Spec

=============================================================================
