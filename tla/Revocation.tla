----------------------------- MODULE Revocation -----------------------------
(***************************************************************************)
(* Revoking the credentials of one user name: the durable queue of         *)
(* hysteria/revocation_queue.py, the admin handlers of                     *)
(* hysteria/subscription_service.py that rotate, delete and re-create the  *)
(* account, the panel's revocation worker thread, and the Hysteria         *)
(* sessions that authenticated with a credential.                          *)
(*                                                                         *)
(* Operations are numbered.  Operation k that needs a revocation prepares  *)
(* task k before it touches users.json; a rotation or a re-creation k      *)
(* gives the account credential generation k.  Generation 0 is a deleted   *)
(* account.  A username-wide kick must be recorded as successful twice,    *)
(* with a delay in between that an authentication already accepted does    *)
(* not outlive, before a task is dropped.                                  *)
(***************************************************************************)
EXTENDS Naturals, FiniteSets

CONSTANTS
    Requests,    \* panel request threads
    MaxOps,      \* bound on the operations in a behaviour
    MaxTasks,    \* TASK_MAX_ENTRIES
    MaxFaults,   \* bound on the failures injected in a behaviour
    FaultKinds,  \* the failures injected
    NoOne        \* usage_lock is free

ASSUME RevocationAssumption ==
    /\ NoOne \notin Requests /\ "worker" \notin Requests
    /\ MaxOps \in Nat \ {0} /\ MaxTasks \in Nat /\ MaxFaults \in Nat

VARIABLES
    gen,         \* generation visible in users.json
    durable,     \* generation users.json has after a host crash, if older
    history,     \* usage history of the user name on disk: "none", the account's "own",
                 \* or that of an account "lost" in a host crash
    static,      \* generation in the generated Xray/TUIC configs
    paused,      \* the static proxies are stopped fail closed
    nextOp,      \* number of the next operation
    live,        \* tasks in credential_revocations.json
    task,        \* their contents
    lock,        \* holder of usage_lock
    pc, op, id,  \* each request thread: stage, operation, its number
    wpc, claim,  \* the worker thread: stage, its copy of the claimed task
    attempt,     \* what each request and the worker found in its attempt
    inflight,    \* generations Hysteria's auth accepted, session not yet there
    sessions,    \* generations of the established Hysteria sessions
    faults,      \* failures injected so far
    rushed       \* history: a task was dropped without two spaced kicks that
                 \* both followed its commit

accountVars == <<gen, durable, history>>
staticVars  == <<static, paused>>
queueVars   == <<live, task>>
reqVars     == <<pc, op, id>>
workerVars  == <<wpc, claim>>
netVars     == <<inflight, sessions>>
vars == <<accountVars, staticVars, nextOp, queueVars, lock, reqVars, workerVars,
          attempt, netVars, faults, rushed>>

Worker == "worker"
Actors == Requests \cup {Worker}
Ops    == 2 .. MaxOps
Gens   == 0 .. MaxOps

\* bound: the record is still the revision a deletion was prepared for, as far
\* as edits that keep the credential go.  kicks and since are history: kicks
\* counts the recorded successes whose kick came after the commit and a delay
\* after the kick before; since says that the delay has passed.
Tasks == [kind : {"rotate", "delete"}, prev : Gens, succ : 0 .. 2,
          static : BOOLEAN, due : BOOLEAN, leased : BOOLEAN, expired : BOOLEAN,
          bound : BOOLEAN, kicks : 0 .. 2, since : BOOLEAN]

FreshTask(kind, prev) ==
    [kind |-> kind, prev |-> prev, succ |-> 0, static |-> TRUE, due |-> TRUE,
     leased |-> FALSE, expired |-> FALSE, bound |-> TRUE, kicks |-> 0, since |-> TRUE]

NoTask == FreshTask("rotate", 0)

Claims  == [id : Ops \cup {0}, kind : {"rotate", "delete"}, prev : Gens, static : BOOLEAN,
            bound : BOOLEAN]
NoClaim == [id |-> 0, kind |-> "rotate", prev |-> 0, static |-> FALSE, bound |-> TRUE]

\* error: an error under usage_lock; static: every service was reloaded or
\* stopped; kick: hy_kick succeeded; good is history: that kick followed the
\* commit and the delay.
Attempts  == [error : BOOLEAN, static : BOOLEAN, kick : BOOLEAN, good : BOOLEAN]
NoAttempt == [error |-> FALSE, static |-> FALSE, kick |-> FALSE, good |-> FALSE]

TypeOK ==
    /\ gen \in Gens /\ durable \in Gens /\ history \in {"none", "own", "lost"}
    /\ static \in Gens /\ paused \in BOOLEAN
    /\ nextOp \in 2 .. MaxOps + 1
    /\ live \subseteq Ops /\ Cardinality(live) <= MaxTasks
    /\ task \in [Ops -> Tasks]
    /\ lock \in Requests \cup {NoOne}
    /\ pc \in [Requests -> {"idle", "locked", "commit", "sync", "effects",
                            "kick", "record"}]
    /\ op \in [Requests -> {"rotate", "delete", "add"}]
    /\ id \in [Requests -> Ops \cup {0}]
    /\ wpc \in {"idle", "claimed", "effects", "kick", "record", "release",
                "discard"}
    /\ claim \in Claims
    /\ attempt \in [Actors -> Attempts]
    /\ inflight \subseteq Gens /\ sessions \subseteq Gens
    /\ faults \in 0 .. MaxFaults
    /\ rushed \in BOOLEAN

Init ==
    /\ gen = 1 /\ durable = 1 /\ history = "own"
    /\ static = 1 /\ paused = FALSE
    /\ nextOp = 2
    /\ live = {} /\ task = [k \in Ops |-> NoTask]
    /\ lock = NoOne
    /\ pc = [r \in Requests |-> "idle"]
    /\ op = [r \in Requests |-> "rotate"]
    /\ id = [r \in Requests |-> 0]
    /\ wpc = "idle" /\ claim = NoClaim
    /\ attempt = [a \in Actors |-> NoAttempt]
    /\ inflight = {} /\ sessions = {}
    /\ faults = 0 /\ rushed = FALSE

-----------------------------------------------------------------------------
(* Shared pieces.                                                          *)

\* One more injected failure of the given kind.
Fault(kind) ==
    /\ kind \in FaultKinds
    /\ faults < MaxFaults
    /\ faults' = faults + 1

NoFault == UNCHANGED faults

Goto(r, state) == pc' = [pc EXCEPT ![r] = state]

\* The end of a request: its thread keeps nothing.
End(r) ==
    /\ Goto(r, "idle")
    /\ op' = [op EXCEPT ![r] = "rotate"] /\ id' = [id EXCEPT ![r] = 0]
    /\ attempt' = [attempt EXCEPT ![r] = NoAttempt]

\* The worker goes back to claim_due.
WorkerEnd ==
    /\ wpc' = "idle" /\ claim' = NoClaim
    /\ attempt' = [attempt EXCEPT ![Worker] = NoAttempt]

Met(a, error) == attempt' = [attempt EXCEPT ![a].error = error]

\* state_store.save_json of users.json, successful.
SaveUsers(g) == gen' = g /\ durable' = g

\* AtomicReplaceDurabilityUncertain: the replacement is visible, but the
\* directory entry may not survive a host crash.
SaveUsersUncertain(g) == gen' = g /\ UNCHANGED durable

\* _sync_static_access_from_users followed by recover_if_pending.
SyncStatic(g) == static' = g /\ paused' = FALSE

\* _fail_closed_static_access, which may not succeed either.
MayPause == paused' \in {paused, TRUE} /\ UNCHANGED static

AddTask(k, kind) ==
    /\ live' = live \cup {k}
    /\ task' = [task EXCEPT ![k] = FreshTask(kind, gen)]

DropTask(k) ==
    /\ live' = live \ {k}
    /\ task' = [task EXCEPT ![k] = NoTask]

\* revocation_queue.complete_attempt by actor a for a task that is still there.
Recorded(k, a) ==
    LET bump(n) == IF n = 2 THEN 2 ELSE n + 1
        did     == attempt[a]
    IN  [task[k] EXCEPT
           !.succ   = IF did.kick THEN bump(@) ELSE 0,
           !.kicks  = IF ~did.kick THEN 0 ELSE IF did.good THEN bump(@) ELSE @,
           !.static = @ /\ ~did.static,
           !.due    = FALSE,
           !.leased = FALSE]

CompleteAttempt(k, a) ==
    IF k \notin live
      THEN UNCHANGED <<queueVars, rushed>>
      ELSE LET t == Recorded(k, a)
           IN  IF t.succ = 2 /\ ~t.static
                 THEN DropTask(k) /\ rushed' = (rushed \/ t.kicks < 2)
                 ELSE /\ task' = [task EXCEPT ![k] = t]
                      /\ UNCHANGED <<live, rushed>>

\* The operation of task k, or a later one, is what users.json shows.
Committed(k) == gen = 0 \/ gen > task[k].prev

\* hy_kick by actor a for task k: a success disconnected every session of the
\* user name; a failure may or may not have done so.
Kick(k, a) ==
    /\ \E ok \in BOOLEAN :
         /\ attempt' = [attempt EXCEPT ![a].kick = ok,
              ![a].good = ok /\ k \in live /\ task[k].since /\ Committed(k)]
         /\ \/ ok /\ sessions' = {} /\ NoFault
            \/ ~ok /\ sessions' \in {sessions, {}} /\ Fault("kick")
    /\ task' = IF k \in live THEN [task EXCEPT ![k].since = FALSE] ELSE task

\* Schedule the reload or, after an error or when that fails, stop the static
\* proxies; ok says that every service was confirmed.
StaticEffects(a, ok) ==
    /\ attempt' = [attempt EXCEPT ![a].static = ok, ![a].error = FALSE]
    /\ UNCHANGED static
    /\ \/ ok /\ paused' = (paused \/ attempt[a].error) /\ NoFault
       \/ ok /\ paused' = TRUE /\ Fault("static")
       \/ ~ok /\ MayPause /\ Fault("static")

-----------------------------------------------------------------------------
(* Request handlers.                                                       *)

\* Take usage_lock and load users.json.  Rotation and deletion need the
\* account, adding needs it absent.
Begin(r) ==
    /\ pc[r] = "idle" /\ lock = NoOne /\ nextOp <= MaxOps
    /\ \E o \in {"rotate", "delete", "add"} :
         /\ (o = "add") <=> (gen = 0)
         /\ op' = [op EXCEPT ![r] = o]
         /\ Goto(r, IF o = "add" THEN "commit" ELSE "locked")
    /\ lock' = r
    /\ id' = [id EXCEPT ![r] = nextOp] /\ nextOp' = nextOp + 1
    /\ UNCHANGED <<accountVars, staticVars, queueVars, workerVars, attempt,
                   netVars, faults, rushed>>

\* revocation_queue.prepare: persist the intent before users.json changes.
Prepare(r) ==
    /\ pc[r] = "locked" /\ Cardinality(live) < MaxTasks
    /\ AddTask(id[r], op[r])
    /\ Goto(r, "commit")
    /\ UNCHANGED <<accountVars, staticVars, nextOp, lock, op, id, attempt,
                   workerVars, netVars, faults, rushed>>

\* The queue is full, or cannot be written, or only uncertainly so: the
\* request ends with an error before the commit.
PrepareFails(r) ==
    /\ pc[r] = "locked"
    /\ \/ Cardinality(live) >= MaxTasks /\ NoFault /\ UNCHANGED queueVars
       \/ /\ Cardinality(live) < MaxTasks
          /\ Fault("prepare")
          /\ UNCHANGED queueVars \/ AddTask(id[r], op[r])
    /\ lock' = NoOne
    /\ End(r)
    /\ UNCHANGED <<accountVars, staticVars, nextOp, workerVars, netVars, rushed>>

Target(r) == IF op[r] = "delete" THEN 0 ELSE id[r]

\* The commit: users.json is replaced.
Commit(r) ==
    /\ pc[r] = "commit"
    /\ SaveUsers(Target(r))
    /\ history' = IF op[r] = "add" THEN "own" ELSE history
    /\ Goto(r, "sync")
    /\ UNCHANGED <<staticVars, nextOp, queueVars, lock, op, id, attempt,
                   workerVars, netVars, faults, rushed>>

\* Replaced, durability unknown: a rotation or deletion goes on fail closed;
\* adding ends with an error, which stops the static proxies too.
CommitUncertain(r) ==
    /\ pc[r] = "commit"
    /\ Fault("uncertain")
    /\ SaveUsersUncertain(Target(r))
    /\ history' = IF op[r] = "add" THEN "own" ELSE history
    /\ IF op[r] = "add"
         THEN End(r) /\ MayPause
         ELSE /\ Met(r, TRUE) /\ Goto(r, "effects")
              /\ UNCHANGED <<staticVars, op, id>>
    /\ lock' = NoOne
    /\ UNCHANGED <<nextOp, queueVars, workerVars, netVars, rushed>>

\* The file was not replaced: a rotation ends with an error, its intent left
\* behind; a deletion goes on fail closed and the worker redoes it.
CommitFails(r) ==
    /\ pc[r] = "commit"
    /\ Fault("save")
    /\ IF op[r] = "delete"
         THEN Met(r, TRUE) /\ Goto(r, "effects") /\ UNCHANGED <<op, id>>
         ELSE End(r)
    /\ lock' = NoOne
    /\ UNCHANGED <<accountVars, staticVars, nextOp, queueVars, workerVars,
                   netVars, rushed>>

\* Still under usage_lock: reconcile the static configs, purge the history of a
\* deleted account (either can fail on its own), release the lock.  A failed
\* reconciliation of an addition stops the proxies.
Sync(r) ==
    /\ pc[r] = "sync"
    /\ \E synced, purged \in BOOLEAN :
         /\ \/ synced /\ purged /\ NoFault
            \/ ~synced /\ Fault("sync")
            \/ ~purged /\ op[r] = "delete" /\ Fault("purge")
         /\ history' = IF op[r] = "delete" /\ purged THEN "none" ELSE history
         /\ IF synced THEN SyncStatic(gen)
              ELSE IF op[r] = "add" THEN MayPause ELSE UNCHANGED staticVars
         /\ IF op[r] = "add"
              THEN End(r)
              ELSE Met(r, ~synced) /\ Goto(r, "effects") /\ UNCHANGED <<op, id>>
    /\ lock' = NoOne
    /\ UNCHANGED <<gen, durable, nextOp, queueVars, workerVars, netVars, rushed>>

\* Outside the lock: reload or stop the static proxies.  A service that was
\* not confirmed is recorded for a retry, if possible (add_static_services).
Effects(r) ==
    /\ pc[r] = "effects"
    /\ \E ok \in BOOLEAN :
         /\ StaticEffects(r, ok)
         /\ IF ok \/ id[r] \notin live
              THEN UNCHANGED task
              ELSE \/ task' = [task EXCEPT ![id[r]].static = TRUE,
                                           ![id[r]].due = TRUE]
                   \/ UNCHANGED task
    /\ Goto(r, "kick")
    /\ UNCHANGED <<accountVars, nextOp, live, lock, op, id, workerVars, netVars,
                   rushed>>

RequestKick(r) ==
    /\ pc[r] = "kick"
    /\ Kick(id[r], r)
    /\ Goto(r, "record")
    /\ UNCHANGED <<accountVars, staticVars, nextOp, live, lock, op, id,
                   workerVars, inflight, rushed>>

\* _record_kick_attempt; the request does not own a lease on the task.
RequestRecord(r) ==
    /\ pc[r] = "record"
    /\ \/ CompleteAttempt(id[r], r) /\ NoFault
       \/ UNCHANGED <<queueVars, rushed>> /\ Fault("record")
    /\ End(r)
    /\ UNCHANGED <<accountVars, staticVars, nextOp, lock, workerVars, netVars>>

-----------------------------------------------------------------------------
(* The revocation worker: _process_one_revocation_task.                    *)

\* claim_due: lease a task that is due.
Claim(k) ==
    /\ wpc = "idle" /\ k \in live /\ task[k].due /\ ~task[k].leased
    /\ task' = [task EXCEPT ![k].leased = TRUE]
    /\ claim' = [id |-> k, kind |-> task[k].kind, prev |-> task[k].prev,
                 static |-> task[k].static, bound |-> task[k].bound]
    /\ wpc' = "claimed"
    /\ UNCHANGED <<accountVars, staticVars, nextOp, live, lock, reqVars,
                   attempt, netVars, faults, rushed>>

\* The name belongs to another complete revision of the record.
Superseded == gen # 0 /\ (gen # claim.prev \/ ~claim.bound)

\* The static configs are reconciled only for services pending at the claim.
WorkerSync(g) ==
    \/ /\ IF claim.static THEN SyncStatic(g) ELSE UNCHANGED staticVars
       /\ Met(Worker, FALSE) /\ NoFault
    \/ /\ claim.static /\ UNCHANGED staticVars
       /\ Met(Worker, TRUE) /\ Fault("sync")

WorkerDeleteAny ==
    /\ wpc = "claimed" /\ lock = NoOne /\ claim.kind = "delete"
    /\ SaveUsers(0) /\ history' = "none" /\ WorkerSync(0)
    /\ wpc' = "effects"
    /\ UNCHANGED <<nextOp, queueVars, lock, reqVars, claim, netVars, rushed>>

WorkerDeleteTrustsAbsence ==
    /\ wpc = "claimed" /\ lock = NoOne /\ claim.kind = "delete"
    /\ IF Superseded \/ gen = 0
         THEN /\ UNCHANGED <<gen, durable>> /\ history' = IF gen = 0 THEN "none" ELSE history
              /\ WorkerSync(gen)
         ELSE SaveUsers(0) /\ history' = "none" /\ WorkerSync(0)
    /\ wpc' = "effects"
    /\ UNCHANGED <<nextOp, queueVars, lock, reqVars, claim, netVars, rushed>>

WorkerDeleteAnyPresent ==
    /\ wpc = "claimed" /\ lock = NoOne /\ claim.kind = "delete"
    /\ IF gen # 0
         THEN UNCHANGED accountVars /\ WorkerSync(gen)
         ELSE SaveUsers(0) /\ history' = "none" /\ WorkerSync(0)
    /\ wpc' = "effects"
    /\ UNCHANGED <<nextOp, queueVars, lock, reqVars, claim, netVars, rushed>>

\* A deletion under usage_lock: redo it unless another incarnation has the
\* name, make the absence durable, then purge the history.
WorkerDelete ==
    /\ wpc = "claimed" /\ lock = NoOne /\ claim.kind = "delete"
    /\ IF Superseded
         THEN UNCHANGED accountVars /\ WorkerSync(gen)
         ELSE SaveUsers(0) /\ history' = "none" /\ WorkerSync(0)
    /\ wpc' = "effects"
    /\ UNCHANGED <<nextOp, queueVars, lock, reqVars, claim, netVars, rushed>>

\* users.json cannot be read, or the save or the purge of a deletion raises:
\* nothing, or a visible or durable absence, is left behind.  The claim is
\* released and, unless only the save failed, the static proxies are stopped
\* (a purge can fail in either way).
WorkerFails ==
    /\ wpc = "claimed" /\ lock = NoOne
    /\ \E stop \in BOOLEAN :
         /\ Met(Worker, stop)
         /\ \/ stop /\ Fault("save") /\ UNCHANGED <<gen, durable>>
            \/ /\ claim.kind = "delete" /\ ~Superseded
               /\ \/ ~stop /\ Fault("save") /\ UNCHANGED <<gen, durable>>
                  \/ stop /\ Fault("uncertain") /\ SaveUsersUncertain(0)
                  \/ Fault("purge") /\ SaveUsers(0)
    /\ wpc' = "release"
    /\ UNCHANGED <<history, staticVars, nextOp, queueVars, lock, reqVars, claim,
                   netVars, rushed>>

WorkerRotateExpires ==
    /\ wpc = "claimed" /\ lock = NoOne /\ claim.kind = "rotate"
    /\ IF gen = claim.id /\ ~task[claim.id].expired
         THEN WorkerSync(gen) /\ wpc' = "effects"
         ELSE /\ wpc' = IF gen = claim.prev /\ ~task[claim.id].expired
                          THEN "release" ELSE "discard"
              /\ UNCHANGED <<staticVars, attempt>> /\ NoFault
    /\ UNCHANGED <<accountVars, nextOp, queueVars, lock, reqVars, claim,
                   netVars, rushed>>

WorkerRotateKeeps ==
    /\ wpc = "claimed" /\ lock = NoOne /\ claim.kind = "rotate"
    /\ IF gen = claim.id
         THEN WorkerSync(gen) /\ wpc' = "effects"
         ELSE /\ wpc' = IF gen = claim.prev THEN "release" ELSE "discard"
              /\ UNCHANGED <<staticVars, attempt>> /\ NoFault
    /\ UNCHANGED <<accountVars, nextOp, queueVars, lock, reqVars, claim,
                   netVars, rushed>>

\* A rotation under usage_lock: go on when its generation is canonical, leave
\* or drop an intent that never committed, drop a superseded one.
WorkerRotate ==
    /\ wpc = "claimed" /\ lock = NoOne /\ claim.kind = "rotate"
    /\ IF gen = claim.id
         THEN WorkerSync(gen) /\ wpc' = "effects"
         ELSE /\ wpc' = IF gen = claim.prev /\ ~task[claim.id].expired
                          THEN "release" ELSE "discard"
              /\ UNCHANGED <<staticVars, attempt>> /\ NoFault
    /\ UNCHANGED <<accountVars, nextOp, queueVars, lock, reqVars, claim,
                   netVars, rushed>>

\* release_claim, when it fails too the lease stays; then the fail-closed stop
\* that WorkerFails asks for.
WorkerRelease ==
    /\ wpc = "release"
    /\ \/ /\ IF claim.id \in live
               THEN task' = [task EXCEPT ![claim.id].leased = FALSE,
                                         ![claim.id].due = FALSE]
               ELSE UNCHANGED task
          /\ NoFault
       \/ UNCHANGED task /\ Fault("record")
    /\ IF attempt[Worker].error THEN MayPause ELSE UNCHANGED staticVars
    /\ WorkerEnd
    /\ UNCHANGED <<accountVars, nextOp, live, lock, reqVars, netVars, rushed>>

WorkerDiscard ==
    /\ wpc = "discard"
    /\ \/ DropTask(claim.id) /\ NoFault
       \/ UNCHANGED queueVars /\ Fault("record")
    /\ WorkerEnd
    /\ UNCHANGED <<accountVars, staticVars, nextOp, lock, reqVars, netVars,
                   rushed>>

\* Reload or stop, for the services pending at the claim only.  After a failed
\* sync the services are stopped.
WorkerEffects ==
    /\ wpc = "effects"
    /\ IF claim.static
         THEN \E ok \in BOOLEAN : StaticEffects(Worker, ok)
         ELSE UNCHANGED <<staticVars, attempt>> /\ NoFault
    /\ wpc' = "kick"
    /\ UNCHANGED <<accountVars, nextOp, queueVars, lock, reqVars, claim, netVars,
                   rushed>>

WorkerKick ==
    /\ wpc = "kick"
    /\ Kick(claim.id, Worker)
    /\ wpc' = "record"
    /\ UNCHANGED <<accountVars, staticVars, nextOp, live, lock, reqVars, claim,
                   inflight, rushed>>

WorkerRecord ==
    /\ wpc = "record"
    /\ \/ CompleteAttempt(claim.id, Worker) /\ NoFault
       \/ UNCHANGED <<queueVars, rushed>> /\ Fault("record")
    /\ WorkerEnd
    /\ UNCHANGED <<accountVars, staticVars, nextOp, lock, reqVars, netVars>>

-----------------------------------------------------------------------------
(* Time, Hysteria, the limiter, crashes.                                   *)

\* A retry delay, the delay before the second kick or a lease runs out: long
\* enough for every authentication accepted before to have become a session.
Elapse(k) ==
    /\ k \in live /\ inflight = {}
    /\ ~task[k].due \/ task[k].leased
    /\ task' = [task EXCEPT ![k].due = TRUE, ![k].leased = FALSE,
                            ![k].since = TRUE]
    /\ UNCHANGED <<accountVars, staticVars, nextOp, live, lock, reqVars,
                   workerVars, attempt, netVars, faults, rushed>>

\* TASK_TTL_SECONDS pass; only rotations look at expires_at.
Expire(k) ==
    /\ k \in live /\ task[k].kind = "rotate" /\ ~task[k].expired
    /\ task' = [task EXCEPT ![k].expired = TRUE]
    /\ UNCHANGED <<accountVars, staticVars, nextOp, live, lock, reqVars,
                   workerVars, attempt, netVars, faults, rushed>>

\* auth_backend accepts the current credential (it re-reads users.json last).
Authenticate ==
    /\ gen # 0 /\ inflight' = inflight \cup {gen}
    /\ UNCHANGED <<accountVars, staticVars, nextOp, queueVars, lock, reqVars,
                   workerVars, attempt, sessions, faults, rushed>>

\* Hysteria turns an accepted authentication into a session.
Connect(g) ==
    /\ g \in inflight
    /\ inflight' = inflight \ {g} /\ sessions' = sessions \cup {g}
    /\ UNCHANGED <<accountVars, staticVars, nextOp, queueVars, lock, reqVars,
                   workerVars, attempt, faults, rushed>>

\* The administrator edits the account (limits, quota, note, expiry, pause), or
\* the limiter ends its pause: the credential stays, the record's revision does
\* not.  Only deletions are bound to it.
Edit ==
    /\ lock = NoOne /\ gen # 0
    /\ \E k \in live : task[k].kind = "delete" /\ task[k].bound
    /\ task' = [k \in Ops |-> IF k \in live /\ task[k].kind = "delete"
                                THEN [task[k] EXCEPT !.bound = FALSE] ELSE task[k]]
    /\ claim' = [claim EXCEPT !.bound = claim.kind # "delete"]
    /\ UNCHANGED <<accountVars, staticVars, nextOp, live, lock, reqVars, wpc,
                   attempt, netVars, faults, rushed>>

\* A limiter tick reconciles the static configs and restarts paused proxies.
LimiterTick ==
    /\ lock = NoOne /\ (static # gen \/ paused)
    /\ SyncStatic(gen)
    /\ UNCHANGED <<accountVars, nextOp, queueVars, lock, reqVars, workerVars,
                   attempt, netVars, faults, rushed>>

\* Every thread of the panel is gone; files stay, and so does a lease.
PanelGone ==
    /\ lock' = NoOne
    /\ pc' = [r \in Requests |-> "idle"]
    /\ op' = [r \in Requests |-> "rotate"] /\ id' = [r \in Requests |-> 0]
    /\ wpc' = "idle" /\ claim' = NoClaim
    /\ attempt' = [a \in Actors |-> NoAttempt]

PanelCrash ==
    /\ Fault("crash")
    /\ PanelGone
    /\ UNCHANGED <<accountVars, staticVars, nextOp, queueVars, netVars, rushed>>

\* The host crashes: users.json may fall back to its last durable content, and
\* every session is gone.  What falls back is no longer committed, and an account
\* whose addition is lost leaves its history behind.
HostCrash ==
    /\ Fault("host")
    /\ PanelGone
    /\ gen' \in {gen, durable} /\ durable' = gen'
    /\ history' = IF gen # 0 /\ gen' = 0 THEN "lost" ELSE history
    /\ task' = [k \in Ops |-> IF gen' = gen THEN task[k] ELSE [task[k] EXCEPT !.kicks = 0]]
    /\ inflight' = {} /\ sessions' = {}
    /\ UNCHANGED <<staticVars, nextOp, live, rushed>>

-----------------------------------------------------------------------------
RequestStep(r) ==
    \/ Prepare(r) \/ PrepareFails(r)
    \/ Commit(r) \/ CommitUncertain(r) \/ CommitFails(r)
    \/ Sync(r) \/ Effects(r) \/ RequestKick(r) \/ RequestRecord(r)

WorkerStep ==
    \/ WorkerDelete \/ WorkerRotate \/ WorkerFails
    \/ WorkerRelease \/ WorkerDiscard
    \/ WorkerEffects \/ WorkerKick \/ WorkerRecord

Next ==
    \/ \E r \in Requests : Begin(r) \/ RequestStep(r)
    \/ \E k \in Ops : Claim(k) \/ Elapse(k) \/ Expire(k)
    \/ WorkerStep
    \/ Authenticate \/ \E g \in Gens \ {0} : Connect(g)
    \/ Edit \/ LimiterTick
    \/ PanelCrash \/ HostCrash

Spec == Init /\ [][Next]_vars

(* Fairness: request threads and the worker thread keep running and get    *)
(* usage_lock in the end (bounded critical sections); claim_due picks the  *)
(* task that has been due longest, so every due task is claimed; delays    *)
(* run out, however many new authentications arrive meanwhile; an accepted *)
(* authentication becomes a session.                                       *)
Fairness ==
    /\ \A r \in Requests : WF_vars(RequestStep(r))
    /\ SF_vars(WorkerStep)
    /\ \A k \in Ops : SF_vars(Claim(k)) /\ SF_vars(Elapse(k)) /\ WF_vars(Expire(k))
    /\ \A g \in Gens \ {0} : WF_vars(Connect(g))

FairSpec == Spec /\ Fairness

-----------------------------------------------------------------------------
(* Properties.                                                             *)

Stale == (inflight \cup sessions) \ {gen}

(* The write-ahead rule: whoever replaces a generation in users.json, a    *)
(* request or the worker redoing a deletion, does so with a task in the    *)
(* queue that is bound to the replaced generation (only a host crash takes *)
(* a generation back).                                                     *)
CommitIsCovered ==
    [][HostCrash \/ gen = 0 \/ gen' = gen
       \/ \E k \in live : task[k].prev = gen
            /\ IF task[k].kind = "delete" THEN gen' = 0 ELSE gen' = k]_vars

(* Once the queue is empty nobody is connected, or about to be, with a     *)
(* credential that was rotated or deleted, whatever failed, crashed or was *)
(* retried on the way, unless a task was dropped without two spaced kicks  *)
(* after its commit (rushed).                                              *)
RevokedWhenDone == live = {} /\ ~rushed => Stale = {}

(* An account and its usage history go together, also after failed saves,  *)
(* failed purges and crashes: history is purged only once the absence of   *)
(* the account is durable, so that a host crash never leaves an account    *)
(* without it; and a deletion that has left the queue is complete (nobody  *)
(* purges the history of an account whose addition a host crash took back).*)
HistoryFollowsAccount ==
    /\ TypeOK
    /\ history = "none" => gen = 0 /\ durable = 0
    /\ gen = 0 /\ (\A k \in live : task[k].kind = "rotate")
         => durable = 0 /\ history # "own"

(* A deletion leaves the queue with its account still there only if the    *)
(* account was rotated, re-created or edited meanwhile: a failed save, a   *)
(* lost directory entry or a crash makes the worker redo it, never forget  *)
(* it.                                                                     *)
DeletionRedone ==
    [][\A k \in live \ live' :
         task[k].kind = "delete" /\ gen' = task[k].prev => ~task[k].bound]_vars

(* Every revocation leaves the queue in the end.                           *)
QueueDrains == live # {} ~> live = {}

=============================================================================
