---------------------------- MODULE StaticReload ----------------------------
(***************************************************************************)
(* The reload lifecycle of one proxy service with file-backed              *)
(* authorization (xray.service or tuic-server.service), modelled from      *)
(* hysteria/xray_config.py, hysteria/tuic_config.py and                    *)
(* hysteria/static_access.py as the traffic limiter and the panel use      *)
(* them.                                                                   *)
(*                                                                         *)
(* A caller takes usage_lock, works out the plan the generated config must *)
(* hold, and under the config lock persists a reload marker with a fresh   *)
(* token before it replaces the config.  After usage_lock is released,     *)
(* reload_async reads that marker WITHOUT the config lock and hands the    *)
(* token to a transient systemd unit, which restarts the service, probes   *)
(* it, and removes the marker under the config lock if the token is still  *)
(* the one it carries.  Any failure on the way goes through                *)
(* stop_fail_closed: persist a second marker, then stop the service; the   *)
(* next successful reconciliation restarts a service carrying it.          *)
(***************************************************************************)
EXTENDS Naturals, FiniteSets

CONSTANTS
    Callers,     \* panel request threads, and the limiter
    Limiter,     \* the traffic limiter, a oneshot process of its own
    Workers,     \* slots for transient reload units (bounds those in flight)
    Plans,       \* contents the generated config can hold
    Locked,      \* the plan without canonical users, written on a state error
    Probes,      \* RELOAD_READINESS_STABILITY_PROBES and its recovery twin
    MaxToken,    \* bound on the reload tokens minted in a behaviour
    MaxFaults,   \* bound on the failures injected in a behaviour
    FaultKinds,  \* the failures injected
    NoOne        \* nobody holds the lock

ASSUME StaticAssumption ==
    /\ Limiter \in Callers
    /\ NoOne \notin Callers
    /\ Locked \in Plans
    /\ Probes \in Nat \ {0}
    /\ MaxToken \in Nat
    /\ MaxFaults \in Nat

VARIABLES
    disk,        \* the plan in the generated config file
    marker,      \* token in <config>.reload.pending; 0 when the file is absent
    nextToken,   \* the next token _mark_reload_pending mints
    failClosed,  \* <service>.fail-closed.pending exists
    svc,         \* "active", "stopped" by systemctl, or "failed"
    loaded,      \* the plan the last started service process read
    usageLock,   \* holder of usage_lock
    configLock,  \* holder of <config>.lock
    pc, want, changed, locking, probesLeft,   \* each caller
    wpc, wtoken, wprobes,                     \* each transient reload unit
    faults,      \* failures injected so far
    wearly,      \* history: the unit's token was read before its config was saved
    earlyAck     \* history: such a unit removed the marker after the last load

fileVars   == <<disk, marker, nextToken, failClosed>>
svcVars    == <<svc, loaded>>
lockVars   == <<usageLock, configLock>>
callerVars == <<pc, want, changed, locking, probesLeft>>
workerVars == <<wpc, wtoken, wprobes, wearly>>
vars == <<fileVars, svcVars, lockVars, callerVars, workerVars, faults, earlyAck>>

CallerStates == {"idle", "planned", "rewrite", "marked", "recover", "start",
                 "probe", "clear", "release", "reload", "fail", "failstop"}
WorkerStates == {"idle", "restart", "probe", "ack", "fail", "failstop"}

TypeOK ==
    /\ disk \in Plans /\ loaded \in Plans
    /\ marker \in Nat /\ nextToken \in Nat \ {0}
    /\ failClosed \in BOOLEAN
    /\ svc \in {"active", "stopped", "failed"}
    /\ usageLock \in Callers \cup {NoOne}
    /\ configLock \in Callers \cup {NoOne}
    /\ pc \in [Callers -> CallerStates]
    /\ want \in [Callers -> Plans]
    /\ changed \in [Callers -> BOOLEAN]
    /\ locking \in [Callers -> BOOLEAN]
    /\ probesLeft \in [Callers -> Nat]
    /\ wpc \in [Workers -> WorkerStates]
    /\ wtoken \in [Workers -> Nat]
    /\ wprobes \in [Workers -> Nat]
    /\ wearly \in [Workers -> BOOLEAN]
    /\ faults \in Nat
    /\ earlyAck \in BOOLEAN

Init ==
    /\ disk \in Plans /\ loaded = disk /\ svc = "active"
    /\ marker = 0 /\ nextToken = 1 /\ failClosed = FALSE
    /\ usageLock = NoOne /\ configLock = NoOne
    /\ pc = [c \in Callers |-> "idle"]
    /\ want = [c \in Callers |-> Locked]
    /\ changed = [c \in Callers |-> FALSE]
    /\ locking = [c \in Callers |-> FALSE]
    /\ probesLeft = [c \in Callers |-> 0]
    /\ wpc = [w \in Workers |-> "idle"]
    /\ wtoken = [w \in Workers |-> 0]
    /\ wprobes = [w \in Workers |-> 0]
    /\ wearly = [w \in Workers |-> FALSE]
    /\ faults = 0
    /\ earlyAck = FALSE

-----------------------------------------------------------------------------
(* Shared pieces.                                                          *)

\* One more injected failure of the given kind.
Fault(kind) ==
    /\ kind \in FaultKinds
    /\ faults < MaxFaults
    /\ faults' = faults + 1

Goto(c, state) == pc' = [pc EXCEPT ![c] = state]
WGoto(w, state) == wpc' = [wpc EXCEPT ![w] = state]

\* A transient unit is gone.
WorkerEnds(w) ==
    /\ WGoto(w, "idle")
    /\ wtoken' = [wtoken EXCEPT ![w] = 0]
    /\ wprobes' = [wprobes EXCEPT ![w] = 0]
    /\ wearly' = [wearly EXCEPT ![w] = FALSE]

Freed(lock, c) == IF lock = c THEN NoOne ELSE lock

\* systemctl restart: a new process reads the config file.
ServiceLoads ==
    /\ svc' = "active"
    /\ loaded' = disk
    /\ earlyAck' = FALSE

\* systemctl start: a no-op on a unit that is already active.
ServiceStarts ==
    IF svc = "active" THEN UNCHANGED <<svcVars, earlyAck>> ELSE ServiceLoads

\* systemctl stop.
ServiceStops ==
    /\ svc' = IF svc = "active" THEN "stopped" ELSE svc
    /\ UNCHANGED <<loaded, earlyAck>>

\* A writer is between _mark_reload_pending and the rename in _save_config.
SaveInProgress == \E c \in Callers : pc[c] = "marked"

-----------------------------------------------------------------------------
(* Callers: reconcile the generated config.                                *)

\* Take usage_lock and derive the plan (the panel edits users.json first, the
\* limiter commits its ledgers first).
Plan(c) ==
    /\ pc[c] = "idle" /\ usageLock = NoOne
    /\ \E p \in Plans : /\ p = disk \/ nextToken <= MaxToken
                        /\ want' = [want EXCEPT ![c] = p]
    /\ usageLock' = c
    /\ Goto(c, "planned")
    /\ UNCHANGED <<fileVars, svcVars, configLock, changed, locking, probesLeft,
                   workerVars, faults, earlyAck>>

\* Canonical state is unreadable or fails validation: the lock is released and
\* the caller fails closed.  Only the limiter then rewrites the config, to the locked plan.
StateError(c) ==
    /\ pc[c] = "planned" /\ nextToken <= MaxToken
    /\ Fault("state")
    /\ usageLock' = Freed(usageLock, c)
    /\ locking' = [locking EXCEPT ![c] = c = Limiter]
    /\ want' = [want EXCEPT ![c] = Locked]
    /\ Goto(c, "fail")
    /\ UNCHANGED <<fileVars, svcVars, configLock, changed, probesLeft,
                   workerVars, earlyAck>>

\* Where a caller is once apply_user_plan has returned r: recover_if_pending
\* after a plan, straight to the reload after the limiter's fail-closed rewrite.
\* The plan itself is not used again.
Applied(c, r) ==
    /\ want' = [want EXCEPT ![c] = Locked]
    /\ IF locking[c]
         THEN /\ Goto(c, IF r THEN "reload" ELSE "idle")
              /\ locking' = [locking EXCEPT ![c] = FALSE]
              /\ UNCHANGED changed
         ELSE /\ Goto(c, "recover")
              /\ changed' = [changed EXCEPT ![c] = r]
              /\ UNCHANGED locking

\* Mutant: an unchanged config reports no reload, pending marker or not.
ApplyUnchangedForgets(c) ==
    /\ pc[c] \in {"planned", "rewrite"} /\ configLock = NoOne
    /\ disk = want[c]
    /\ Applied(c, FALSE)
    /\ UNCHANGED <<fileVars, svcVars, lockVars, probesLeft, workerVars, faults,
                   earlyAck>>

\* apply_user_plan / sync_user_plan, config already as wanted.
ApplyUnchanged(c) ==
    /\ pc[c] \in {"planned", "rewrite"} /\ configLock = NoOne
    /\ disk = want[c]
    /\ Applied(c, marker # 0)
    /\ UNCHANGED <<fileVars, svcVars, lockVars, probesLeft, workerVars, faults,
                   earlyAck>>

\* apply_user_plan / sync_user_plan up to and including _mark_reload_pending.
MarkReloadPending(c) ==
    /\ pc[c] \in {"planned", "rewrite"} /\ configLock = NoOne
    /\ disk # want[c]
    /\ marker' = nextToken /\ nextToken' = nextToken + 1
    /\ configLock' = c
    /\ Goto(c, "marked")
    /\ UNCHANGED <<disk, failClosed, svcVars, usageLock, want, changed, locking,
                   probesLeft, workerVars, faults, earlyAck>>

\* _save_config: native validation passed, the rename happened, lock released.
SaveConfig(c) ==
    /\ pc[c] = "marked"
    /\ disk' = want[c]
    /\ configLock' = NoOne
    /\ Applied(c, TRUE)
    /\ UNCHANGED <<marker, nextToken, failClosed, svcVars, usageLock,
                   probesLeft, workerVars, faults, earlyAck>>

\* apply_user_plan raises: lock timeout, unreadable config, native validation,
\* or an error before or after the rename.  The limiter stops the service while
\* it still holds usage_lock, the panel after releasing it; the fail-closed
\* rewrite only reports.
ApplyFails(c) ==
    /\ pc[c] \in {"planned", "rewrite", "marked"}
    /\ Fault("apply")
    /\ disk' \in IF pc[c] = "marked" THEN {disk, want[c]} ELSE {disk}
    /\ configLock' = Freed(configLock, c)
    /\ usageLock' = IF c = Limiter THEN usageLock ELSE Freed(usageLock, c)
    /\ want' = [want EXCEPT ![c] = Locked]
    /\ locking' = [locking EXCEPT ![c] = FALSE]
    /\ Goto(c, IF locking[c] THEN "idle" ELSE "fail")
    /\ UNCHANGED <<marker, nextToken, failClosed, svcVars, changed, probesLeft,
                   workerVars, earlyAck>>

-----------------------------------------------------------------------------
(* static_access.recover_if_pending, under usage_lock.                     *)

RecoverSkip(c) ==
    /\ pc[c] = "recover" /\ ~failClosed
    /\ Goto(c, "release")
    /\ UNCHANGED <<fileVars, svcVars, lockVars, want, changed, locking,
                   probesLeft, workerVars, faults, earlyAck>>

RecoverStop(c) ==
    /\ pc[c] = "recover" /\ failClosed
    /\ ServiceStops
    /\ Goto(c, "start")
    /\ UNCHANGED <<fileVars, lockVars, want, changed, locking, probesLeft,
                   workerVars, faults>>

RecoverStart(c) ==
    /\ pc[c] = "start"
    /\ ServiceStarts
    /\ probesLeft' = [probesLeft EXCEPT ![c] = Probes]
    /\ Goto(c, "probe")
    /\ UNCHANGED <<fileVars, lockVars, want, changed, locking, workerVars,
                   faults>>

\* Mutant: one probe too many.
RecoverProbeOffByOne(c) ==
    /\ pc[c] = "probe" /\ svc = "active"
    /\ probesLeft' = [probesLeft EXCEPT ![c] = @ - 1]
    /\ Goto(c, IF probesLeft[c] = 0 THEN "clear" ELSE "probe")
    /\ UNCHANGED <<fileVars, svcVars, lockVars, want, changed, locking,
                   workerVars, faults, earlyAck>>

RecoverProbe(c) ==
    /\ pc[c] = "probe"
    /\ IF svc = "active"
         THEN /\ probesLeft' = [probesLeft EXCEPT ![c] = @ - 1]
              /\ Goto(c, IF probesLeft[c] = 1 THEN "clear" ELSE "probe")
         ELSE /\ Goto(c, "release")
              /\ UNCHANGED probesLeft
    /\ UNCHANGED <<fileVars, svcVars, lockVars, want, changed, locking,
                   workerVars, faults, earlyAck>>

\* Mutant: the recovered service keeps its marker.
RecoverKeepsMarker(c) ==
    /\ pc[c] = "clear"
    /\ Goto(c, "release")
    /\ UNCHANGED <<fileVars, svcVars, lockVars, want, changed, locking,
                   probesLeft, workerVars, faults, earlyAck>>

RecoverClear(c) ==
    /\ pc[c] = "clear"
    /\ failClosed' = FALSE
    /\ Goto(c, "release")
    /\ UNCHANGED <<disk, marker, nextToken, svcVars, lockVars, want, changed,
                   locking, probesLeft, workerVars, faults, earlyAck>>

\* A systemctl call of the recovery fails or times out, with or without having
\* had its effect, or the marker cannot be unlinked: the marker stays.
RecoverFails(c) ==
    /\ Fault("systemctl")
    /\ \/ pc[c] = "recover" /\ failClosed
          /\ (ServiceStops \/ UNCHANGED <<svcVars, earlyAck>>)
       \/ pc[c] = "start"
          /\ (ServiceStarts \/ UNCHANGED <<svcVars, earlyAck>>)
       \/ pc[c] \in {"probe", "clear"} /\ UNCHANGED <<svcVars, earlyAck>>
    /\ Goto(c, "release")
    /\ UNCHANGED <<fileVars, lockVars, want, changed, locking, probesLeft,
                   workerVars>>

\* usage_lock is released; a reload is due if apply_user_plan said so.
Release(c) ==
    /\ pc[c] = "release"
    /\ usageLock' = Freed(usageLock, c)
    /\ Goto(c, IF changed[c] THEN "reload" ELSE "idle")
    /\ changed' = [changed EXCEPT ![c] = FALSE]
    /\ probesLeft' = [probesLeft EXCEPT ![c] = 0]
    /\ UNCHANGED <<fileVars, svcVars, configLock, want, locking, workerVars,
                   faults, earlyAck>>

-----------------------------------------------------------------------------
(* reload_async: no lock is held.                                          *)

\* systemd-run starts a transient unit carrying the marker's token.
StartWorker(w) ==
    /\ wpc[w] = "idle"
    /\ wtoken' = [wtoken EXCEPT ![w] = marker]
    /\ wearly' = [wearly EXCEPT ![w] = SaveInProgress]
    /\ WGoto(w, "restart")
    /\ UNCHANGED wprobes

\* The marker is gone.  The limiter and the plain admin handlers ignore the
\* False; the credential-rotation handlers treat it as a failed reload.
ReloadMissing(c) ==
    /\ pc[c] = "reload" /\ marker = 0
    /\ \E next \in IF c = Limiter THEN {"idle"} ELSE {"idle", "fail"} :
         Goto(c, next)
    /\ UNCHANGED <<fileVars, svcVars, lockVars, want, changed, locking,
                   probesLeft, workerVars, faults, earlyAck>>

ReloadAsync(c) ==
    /\ pc[c] = "reload" /\ marker # 0
    /\ \E w \in Workers : StartWorker(w)
    /\ Goto(c, "idle")
    /\ UNCHANGED <<fileVars, svcVars, lockVars, want, changed, locking,
                   probesLeft, faults, earlyAck>>

\* The marker cannot be read or is invalid, or systemd-run fails; one that
\* times out may still have started the unit.
ReloadFails(c) ==
    /\ pc[c] = "reload" /\ marker # 0
    /\ Fault("schedule")
    /\ (UNCHANGED workerVars \/ \E w \in Workers : StartWorker(w))
    /\ Goto(c, "fail")
    /\ UNCHANGED <<fileVars, svcVars, lockVars, want, changed, locking,
                   probesLeft, earlyAck>>

-----------------------------------------------------------------------------
(* static_access.stop_fail_closed, by a caller.                            *)

FailMark(c) ==
    /\ pc[c] = "fail"
    /\ \/ failClosed' = TRUE /\ UNCHANGED faults
       \/ UNCHANGED failClosed /\ Fault("persist")
    /\ Goto(c, "failstop")
    /\ UNCHANGED <<disk, marker, nextToken, svcVars, lockVars, want, changed,
                   locking, probesLeft, workerVars, earlyAck>>

\* The stop, and what its caller does next.
FailStop(c) ==
    /\ pc[c] = "failstop"
    /\ \/ ServiceStops /\ UNCHANGED faults
       \/ UNCHANGED <<svcVars, earlyAck>> /\ Fault("systemctl")
    /\ Goto(c, CASE locking[c]                     -> "rewrite"
                 [] ~locking[c] /\ usageLock = c -> "release"
                 [] OTHER                        -> "idle")
    /\ UNCHANGED <<fileVars, lockVars, want, changed, locking, probesLeft,
                   workerVars>>

-----------------------------------------------------------------------------
(* _run_reload_worker, in a transient unit.                                *)

WorkerRestart(w) ==
    /\ wpc[w] = "restart"
    /\ ServiceLoads
    /\ wprobes' = [wprobes EXCEPT ![w] = Probes]
    /\ WGoto(w, "probe")
    /\ UNCHANGED <<fileVars, lockVars, callerVars, wtoken, wearly, faults>>

WorkerProbe(w) ==
    /\ wpc[w] = "probe"
    /\ IF svc = "active"
         THEN /\ wprobes' = [wprobes EXCEPT ![w] = @ - 1]
              /\ WGoto(w, IF wprobes[w] = 1 THEN "ack" ELSE "probe")
         ELSE /\ WGoto(w, "fail")
              /\ UNCHANGED wprobes
    /\ UNCHANGED <<fileVars, svcVars, lockVars, callerVars, wtoken, wearly,
                   faults, earlyAck>>

\* systemctl restart or is-active fails or times out.
WorkerFails(w) ==
    /\ wpc[w] \in {"restart", "probe"}
    /\ Fault("systemctl")
    /\ \/ UNCHANGED <<svcVars, earlyAck>>
       \/ wpc[w] = "restart" /\ (ServiceLoads \/ ServiceStops)
    /\ WGoto(w, "fail")
    /\ UNCHANGED <<fileVars, lockVars, callerVars, wtoken, wprobes, wearly>>

\* Mutant: the marker goes, whoever's token it holds.
AcknowledgeAny(w) ==
    /\ marker' = 0
    /\ earlyAck' = (earlyAck \/ wearly[w])

\* _clear_reload_pending: compare and unlink under the config lock.
Acknowledge(w) ==
    IF marker = wtoken[w]
      THEN /\ marker' = 0
           /\ earlyAck' = (earlyAck \/ wearly[w])
      ELSE UNCHANGED <<marker, earlyAck>>

WorkerAck(w) ==
    /\ wpc[w] = "ack" /\ configLock = NoOne
    /\ Acknowledge(w)
    /\ WorkerEnds(w)
    /\ UNCHANGED <<disk, nextToken, failClosed, svcVars, lockVars, callerVars,
                   faults>>

WorkerFailMark(w) ==
    /\ wpc[w] = "fail"
    /\ \/ failClosed' = TRUE /\ UNCHANGED faults
       \/ UNCHANGED failClosed /\ Fault("persist")
    /\ WGoto(w, "failstop")
    /\ UNCHANGED <<disk, marker, nextToken, svcVars, lockVars, callerVars,
                   wtoken, wprobes, wearly, earlyAck>>

WorkerFailStop(w) ==
    /\ wpc[w] = "failstop"
    /\ \/ ServiceStops /\ UNCHANGED faults
       \/ UNCHANGED <<svcVars, earlyAck>> /\ Fault("systemctl")
    /\ WorkerEnds(w)
    /\ UNCHANGED <<fileVars, lockVars, callerVars>>

-----------------------------------------------------------------------------
(* Crashes.  A process dies with all its threads and its flocks.           *)

Process(c) == IF c = Limiter THEN {Limiter} ELSE Callers \ {Limiter}

CallerCrash(c) ==
    /\ \E d \in Process(c) : pc[d] # "idle"
    /\ Fault("crash")
    /\ pc' = [d \in Callers |-> IF d \in Process(c) THEN "idle" ELSE pc[d]]
    /\ locking' = [d \in Callers |-> d \notin Process(c) /\ locking[d]]
    /\ changed' = [d \in Callers |-> d \notin Process(c) /\ changed[d]]
    /\ want' = [d \in Callers |-> IF d \in Process(c) THEN Locked ELSE want[d]]
    /\ probesLeft' = [d \in Callers |-> IF d \in Process(c) THEN 0 ELSE probesLeft[d]]
    /\ usageLock' = IF usageLock \in Process(c) THEN NoOne ELSE usageLock
    /\ configLock' = IF configLock \in Process(c) THEN NoOne ELSE configLock
    /\ UNCHANGED <<fileVars, svcVars, workerVars, earlyAck>>

WorkerCrash(w) ==
    /\ wpc[w] # "idle"
    /\ Fault("crash")
    /\ WorkerEnds(w)
    /\ UNCHANGED <<fileVars, svcVars, lockVars, callerVars, earlyAck>>

\* The proxy process dies: systemd starts it again, or gives up.
ServiceCrash ==
    /\ svc = "active"
    /\ Fault("service")
    /\ \/ ServiceLoads
       \/ svc' = "failed" /\ UNCHANGED <<loaded, earlyAck>>
    /\ UNCHANGED <<fileVars, lockVars, callerVars, workerVars>>

\* The host restarts: every process is gone and the enabled unit starts.
Reboot ==
    /\ Fault("reboot")
    /\ ServiceLoads
    /\ usageLock' = NoOne /\ configLock' = NoOne
    /\ pc' = [c \in Callers |-> "idle"]
    /\ want' = [c \in Callers |-> Locked]
    /\ changed' = [c \in Callers |-> FALSE]
    /\ locking' = [c \in Callers |-> FALSE]
    /\ probesLeft' = [c \in Callers |-> 0]
    /\ wpc' = [w \in Workers |-> "idle"]
    /\ wtoken' = [w \in Workers |-> 0]
    /\ wprobes' = [w \in Workers |-> 0]
    /\ wearly' = [w \in Workers |-> FALSE]
    /\ UNCHANGED fileVars

-----------------------------------------------------------------------------
\* The steps of a caller that the code takes by itself once it has begun.
CallerStep(c) ==
    \/ ApplyUnchanged(c) \/ MarkReloadPending(c) \/ SaveConfig(c)
    \/ RecoverSkip(c) \/ RecoverStop(c) \/ RecoverStart(c) \/ RecoverProbe(c)
    \/ RecoverClear(c) \/ Release(c)
    \/ ReloadMissing(c) \/ ReloadAsync(c)
    \/ FailMark(c) \/ FailStop(c)

WorkerStep(w) ==
    \/ WorkerRestart(w) \/ WorkerProbe(w) \/ WorkerAck(w)
    \/ WorkerFailMark(w) \/ WorkerFailStop(w)

CallerFailure(c) ==
    \/ StateError(c) \/ ApplyFails(c) \/ RecoverFails(c) \/ ReloadFails(c)
    \/ CallerCrash(c)

WorkerFailure(w) == WorkerFails(w) \/ WorkerCrash(w)

Next ==
    \/ \E c \in Callers : Plan(c) \/ CallerStep(c) \/ CallerFailure(c)
    \/ \E w \in Workers : WorkerStep(w) \/ WorkerFailure(w)
    \/ ServiceCrash
    \/ Reboot

Spec == Init /\ [][Next]_vars

(* Fairness: the limiter's timer fires again and again and finds usage_lock *)
(* free at some time (strong fairness of Plan); every thread and unit the   *)
(* host scheduled keeps running; the config lock is released within bounded *)
(* time, so a unit waiting for it gets it (strong fairness of WorkerAck).   *)
Fairness ==
    /\ SF_vars(Plan(Limiter))
    /\ \A c \in Callers : SF_vars(CallerStep(c))
    /\ \A w \in Workers : SF_vars(WorkerStep(w))

FairSpec == Spec /\ Fairness

-----------------------------------------------------------------------------
(* Properties.                                                             *)

(* No reload is lost: while the running process was started from an older  *)
(* config than the one on disk, the reload marker is still there for the   *)
(* next reconciliation to act on.  It holds through crashes, failed saves, *)
(* fail-closed stops and overlapping reload units; the one exception is a  *)
(* unit that read the marker between _mark_reload_pending and the rename   *)
(* in _save_config and acknowledged it (earlyAck).                         *)
NoLostReload ==
    svc = "active" /\ loaded # disk => marker # 0 \/ earlyAck

(* Why NoLostReload holds, as an inductive invariant:                      *)
(* - tokens are fresh: _mark_reload_pending never mints one that a unit in *)
(*   flight already carries;                                               *)
TokensFresh ==
    /\ marker < nextToken
    /\ \A w \in Workers : wtoken[w] < nextToken

(* - until the rename, the config lock keeps the marker in place, and      *)
(*   every unit that carries its token read it too early;                  *)
SaveProtected ==
    \A c \in Callers : pc[c] = "marked" =>
        /\ configLock = c
        /\ marker # 0
        /\ \A w \in Workers : wtoken[w] = marker => wearly[w]

(* - a unit past its restart that still carries the current token, and did *)
(*   not read it early, is probing a process that loaded the config on     *)
(*   disk.                                                                 *)
RestartCovers ==
    \A w \in Workers :
        /\ wpc[w] \in {"probe", "ack"}
        /\ wtoken[w] = marker /\ marker # 0
        /\ ~wearly[w]
        /\ svc = "active"
        => loaded = disk

ReloadInv == TokensFresh /\ SaveProtected /\ RestartCovers /\ NoLostReload

(* "Restart xray and ACK only the exact config generation it loaded"       *)
(* (_run_reload_worker): once the marker is gone the running process has   *)
(* the config on disk.                                                     *)
AckedGenerationLoaded ==
    svc = "active" /\ marker = 0 => loaded = disk

\* While a unit restarts or probes the service, something else stops or
\* restarts it: each can make the other fail closed, again and again.
ReloadDisturbed ==
    \E w \in Workers :
        /\ wpc[w] \in {"restart", "probe"}
        /\ \/ \E c \in Callers : pc[c] \in {"start", "probe", "fail", "failstop"}
           \/ \E v \in Workers \ {w} : wpc[v] # "idle"

(* A pending reload is acknowledged in the end, whatever finite number of  *)
(* crashes and failures came before, provided reload units are not         *)
(* disturbed for ever (the timer's period is longer than a unit's restart  *)
(* and probes).                                                            *)
PendingReloadAcknowledged ==
    <>[]~ReloadDisturbed => (marker # 0 ~> marker = 0)

(* A service that failed closed is started by a later reconciliation and   *)
(* loses the fail-closed marker once failures stop, under the same proviso. *)
FailClosedRecovered ==
    <>[]~ReloadDisturbed => (failClosed ~> ~failClosed)

=============================================================================
