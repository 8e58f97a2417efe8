--------------------------- MODULE DeployRecovery ---------------------------
(***************************************************************************)
(* The durable journal of a deployment: scripts/hy2-deploy-recovery.py as  *)
(* deploy.sh, the boot unit and the same-boot watchdog call it, one at a   *)
(* time under the deployment lock.                                         *)
(*                                                                         *)
(* A generation (the digest of an artifact's kind, content and metadata)   *)
(* is a number.  Renames become durable in order: a manifest write, which  *)
(* is synced, makes the renames before it durable (a journalling file      *)
(* system); one that was not followed by a manifest write may be lost when *)
(* the host crashes.                                                       *)
(***************************************************************************)
EXTENDS Naturals, Sequences, SequencesExt, FiniteSets

CONSTANTS Paths,                \* the allowlisted artifacts
          Units,                \* the managed systemd units
          ActiveUnits,          \* those that are active and enabled to begin with
          MaxGen,               \* bound: generations ever written
          MaxFaults             \* bound: failures, kills and host crashes

ASSUME DeployAssumption == /\ IsFiniteSet(Paths) /\ ActiveUnits \subseteq Units
                           /\ MaxGen \in Nat \ {0}
                           /\ MaxFaults \in Nat

VARIABLES tree,                 \* generation of every artifact
          durable,              \* what a host crash may leave of tree
          pend,                 \* the pending directory exists
          man,                  \* manifest.json in it, or NoManifest
          snaps,                \* artifacts whose snapshot file is in it
          staged,               \* artifacts whose journaled candidate file exists
          running,              \* units that are active
          enabled,              \* units that are enabled
          boot,                 \* the kernel's boot id
          gate,                 \* the recovery unit has succeeded in this boot
          pc,                   \* where the holder of the deployment lock is
          stopped,              \* stopped_units of the running recovery
          touched,              \* artifact_restore_started
          todo,                 \* changed entries still to be restored, last first
          next,                 \* generations written so far
          faults,               \* failures so far
          raced                 \* history: written by others between check and rename

fs == <<tree, durable, staged, next, raced>>
units == <<running, enabled>>
host == <<boot, gate>>
journal == <<pend, man, snaps>>
recovery == <<stopped, touched, todo>>
vars == <<fs, units, host, journal, recovery, pc, faults>>

NoManifest == [state |-> "absent"]
NoGen == 0

\* An entry of the manifest: original generation, replacement (or NoGen).
Entries == [orig : 0..MaxGen, repl : 0..MaxGen]
States == {"preparing", "active", "restoring", "recovery-failed", "restored", "complete"}
PathSeqs == {s \in UNION {[1..n -> Paths] : n \in 0..Cardinality(Paths)} : IsInjective(s)}
Manifests == [state : States, entries : [Paths -> Entries], snapped : SUBSET Paths,
              committed : PathSeqs, pending : SUBSET Paths,
              runtime : [active : SUBSET Units, enabled : SUBSET Units,
                         boot : 1..(MaxFaults + 1)]]

InTransaction == man.state \in {"active", "restoring", "recovery-failed"}
Known(p) == {man.entries[p].orig} \cup ({man.entries[p].repl} \ {NoGen})
Journaled == ToSet(man.committed) \cup man.pending

Init == /\ tree = [p \in Paths |-> 1] /\ durable = tree
        /\ pend = FALSE /\ man = NoManifest /\ snaps = {} /\ staged = {}
        /\ running = ActiveUnits /\ enabled = ActiveUnits
        /\ boot = 1 /\ gate = TRUE
        /\ pc = "idle" /\ stopped = {} /\ touched = FALSE /\ todo = <<>>
        /\ next = 1 /\ faults = 0 /\ raced = {}

-----------------------------------------------------------------------------
(* Helpers of the journal                                                  *)

\* _atomic_write_manifest: synced, and with it every earlier rename.
Persist(m) == man' = m /\ durable' = tree

\* The runtime a deployment starts from: an unclear answer of systemd fails.
CapturedRuntime == [active |-> running, enabled |-> enabled, boot |-> boot]

\* The frozen allowlist, in its order, and one entry of the snapshot.
Allowlist == SetToSeq(Paths)
SnapshotEntry(p) == [orig |-> tree[p], repl |-> NoGen]

\* What a candidate for an artifact may be: something new, or what is there.
CandidateGenerations(p) == {tree[p]} \cup {g \in {next + 1} : g <= MaxGen}

\* The journaled candidate file is removed if it is still there.
CleanupCandidate == staged' = {}

SnapshotIntact(p) == p \in snaps

\* A read-only preflight: every snapshot intact, every artifact at its
\* original or at the replacement the journal names, nothing else.
PreflightForgetsPending == \A p \in man.snapped :
                              /\ SnapshotIntact(p)
                              /\ tree[p] \in Known(p)
                              /\ tree[p] # man.entries[p].orig => p \in ToSet(man.committed)
PreflightOK == \A p \in man.snapped :
                  /\ SnapshotIntact(p)
                  /\ tree[p] \in Known(p)
                  /\ tree[p] # man.entries[p].orig => p \in Journaled

\* The elements of order that are in S, the last one first.
LatestFirst(order, S) ==
  LET f[i \in 0..Len(order)] == IF i = 0 THEN <<>>
                                ELSE IF order[i] \in S THEN <<order[i]>> \o f[i - 1]
                                ELSE f[i - 1]
  IN f[Len(order)]

\* The changed entries, the last mutation first.
ReverseMutations == LatestFirst(man.committed \o SetToSeq(man.pending),
                                {p \in Journaled : tree[p] # man.entries[p].orig})

\* An artifact is between the generation check and the rename that relies on it.
InWindow(p) == \/ pc = "rename" /\ p \in man.pending
               \/ pc = "put" /\ todo # <<>> /\ p = Head(todo)

-----------------------------------------------------------------------------
(* The deployment                                                          *)

\* _prepare: refuses while a transaction is pending.
Prepare == /\ pc = "idle" /\ ~pend
           /\ pend' = TRUE /\ pc' = "prepare"
           /\ UNCHANGED <<fs, units, host, man, snaps, recovery, faults>>

Capture ==
  /\ pc = "prepare"
  /\ Persist([state |-> "preparing",
              entries |-> [p \in Paths |-> [orig |-> NoGen, repl |-> NoGen]],
              snapped |-> {}, committed |-> <<>>, pending |-> {},
              runtime |-> CapturedRuntime])
  /\ pc' = "deploy"
  /\ UNCHANGED <<tree, staged, next, raced, units, host, pend, snaps, recovery, faults>>

\* The capture or its manifest write fails: the directory is removed again.
CaptureFails == /\ pc = "prepare" /\ faults < MaxFaults
                /\ pend' = FALSE /\ pc' = "idle" /\ faults' = faults + 1
                /\ UNCHANGED <<fs, units, host, man, snaps, recovery>>

\* _snapshot: artifact by artifact in the order of the allowlist, then the
\* transaction is active.
Snapshot ==
  /\ pc = "deploy" /\ man.state = "preparing" /\ man.snapped # Paths
  /\ LET p == Allowlist[Cardinality(man.snapped) + 1]
     IN /\ Persist([man EXCEPT !.snapped = @ \cup {p}, !.entries[p] = SnapshotEntry(p)])
        /\ snaps' = snaps \cup {p}
  /\ UNCHANGED <<tree, staged, next, raced, units, host, pend, pc, recovery, faults>>

SnapshotDone ==
  /\ pc = "deploy" /\ man.state = "preparing" /\ man.snapped = Paths
  /\ Persist([man EXCEPT !.state = "active"])
  /\ UNCHANGED <<tree, staged, next, raced, units, host, pend, snaps, pc, recovery, faults>>

\* _before: the artifact is the snapshotted one; its replacement (a staged
\* candidate, or its absence) is journaled before anything is touched.  The
\* replacement may be the very generation that is there.
Before(p, candidate) == \E g \in CandidateGenerations(p) :
  /\ pc = "deploy" /\ man.state = "active" /\ man.pending = {}
  /\ p \notin ToSet(man.committed) /\ tree[p] = man.entries[p].orig
  /\ Persist([man EXCEPT !.entries[p].repl = g, !.pending = {p}])
  /\ next' = IF g = tree[p] THEN next ELSE g
  /\ staged' = candidate
  /\ pc' = "rename"
  /\ UNCHANGED <<tree, raced, units, host, pend, snaps, recovery, faults>>

\* os.replace or os.unlink of _replace and _remove.
Rename ==
  /\ pc = "rename" /\ pc' = "after"
  /\ \E p \in man.pending : /\ tree' = [tree EXCEPT ![p] = man.entries[p].repl]
                            /\ raced' = raced \ {p}
  /\ staged' = {}
  /\ UNCHANGED <<durable, next, units, host, journal, recovery, faults>>

\* _after: the artifact is the journaled replacement; a candidate left over
\* is removed; the mutation is committed.
After ==
  /\ pc = "after" /\ pc' = "deploy"
  /\ \E p \in man.pending :
        /\ tree[p] = man.entries[p].repl
        /\ Persist([man EXCEPT !.committed = Append(@, p), !.pending = {}])
  /\ CleanupCandidate
  /\ UNCHANGED <<tree, next, raced, units, host, pend, snaps, recovery, faults>>

\* _complete: every artifact is what the journal says, then "complete" is
\* durable, then the journal goes.
CompleteNotPersisted ==
  /\ pc = "deploy" /\ man.state = "active" /\ man.pending = {}
  /\ \A p \in Paths : tree[p] = IF p \in ToSet(man.committed) THEN man.entries[p].repl
                                                              ELSE man.entries[p].orig
  /\ pc' = "cleanup"
  /\ UNCHANGED <<fs, units, host, journal, recovery, faults>>
Complete ==
  /\ pc = "deploy" /\ man.state = "active" /\ man.pending = {}
  /\ \A p \in Paths : tree[p] = IF p \in ToSet(man.committed) THEN man.entries[p].repl
                                                              ELSE man.entries[p].orig
  /\ Persist([man EXCEPT !.state = "complete"])
  /\ pc' = "cleanup"
  /\ UNCHANGED <<tree, staged, next, raced, units, host, pend, snaps, recovery, faults>>

\* Packages and deploy.sh start and enable units on the way; deploy.sh stops
\* them before it takes the snapshot.
DeployStarts(u) == /\ pc = "deploy"
                   /\ running' = running \cup {u} /\ enabled' = enabled \cup {u}
                   /\ UNCHANGED <<fs, host, journal, recovery, pc, faults>>

DeployStops(u) == /\ pc = "deploy" /\ man.state = "preparing" /\ u \in running
                  /\ running' = running \ {u}
                  /\ UNCHANGED <<fs, enabled, host, journal, recovery, pc, faults>>

\* A command of the script or a check of the helper fails: the exit trap runs
\* the recovery.
Abort == /\ pc \in {"deploy", "rename", "after"}
         /\ pc' = "recover"
         /\ UNCHANGED <<fs, units, host, journal, recovery, faults>>

-----------------------------------------------------------------------------
(* The recovery                                                            *)

Fresh == stopped' = {} /\ touched' = FALSE /\ todo' = <<>>

\* The boot unit, the watchdog or the next deployment runs _recover.
RecoverBegin == /\ pc = "idle" /\ (pend \/ ~gate)
                /\ pc' = "recover" /\ Fresh
                /\ UNCHANGED <<fs, units, host, journal, faults>>

\* Nothing pending, or nothing but residue.
RecoverClean == /\ pc = "recover"
                /\ IF pend THEN /\ man.state \in {"absent", "complete"}
                                /\ pc' = "cleanup" /\ UNCHANGED gate
                           ELSE pc' = "idle" /\ gate' = TRUE
                /\ Fresh
                /\ UNCHANGED <<fs, units, boot, journal, faults>>

\* A previous recovery had restored everything.
RecoverRestored == /\ pc = "recover" /\ man.state = "restored"
                   /\ pc' = "resume" /\ Fresh
                   /\ UNCHANGED <<fs, units, host, journal, faults>>

RecoverPreparing == /\ pc = "recover" /\ man.state = "preparing"
                    /\ pc' = "stop" /\ Fresh
                    /\ UNCHANGED <<fs, units, host, journal, faults>>

\* The first preflight: a refusal changes nothing and stops nothing.
RecoverPreflight == /\ pc = "recover" /\ InTransaction
                    /\ pc' = IF PreflightOK THEN "stop" ELSE "idle"
                    /\ Fresh
                    /\ UNCHANGED <<fs, units, host, journal, faults>>

\* _stop_runtime_units.
StopUnit(u) == /\ pc = "stop" /\ u \in running
               /\ running' = running \ {u} /\ stopped' = stopped \cup {u}
               /\ UNCHANGED <<fs, enabled, host, journal, touched, todo, pc, faults>>

\* The second preflight, with every writer stopped; the journaled candidate goes.
Quiesced ==
  /\ pc = "stop" /\ running = {}
  /\ IF man.state = "preparing"
       THEN pc' = "runtime" /\ UNCHANGED <<staged, todo>>
       ELSE /\ PreflightOK
            /\ todo' = ReverseMutations /\ CleanupCandidate
            /\ pc' = "mark"
  /\ UNCHANGED <<tree, durable, next, raced, units, host, journal, stopped, touched, faults>>

MarkRestoring == /\ pc = "mark"
                 /\ Persist([man EXCEPT !.state = "restoring"])
                 /\ pc' = "restore"
                 /\ UNCHANGED <<tree, staged, next, raced, units, host, pend, snaps,
                                recovery, faults>>

\* _restore_entry, its check: an artifact that is back already is skipped, an
\* unknown generation fails the recovery.
RestoreUnchecked ==
  /\ pc = "restore" /\ todo # <<>>
  /\ touched' = TRUE
  /\ pc' = "put"
  /\ UNCHANGED <<fs, units, host, journal, stopped, todo, faults>>
RestoreCheck ==
  /\ pc = "restore" /\ todo # <<>>
  /\ touched' = TRUE
  /\ LET p == Head(todo)
     IN \/ /\ tree[p] = man.entries[p].orig
           /\ todo' = Tail(todo) /\ UNCHANGED pc
        \/ /\ tree[p] # man.entries[p].orig /\ tree[p] = man.entries[p].repl
           /\ pc' = "put" /\ UNCHANGED todo
  /\ UNCHANGED <<fs, units, host, journal, stopped, faults>>

\* _restore_entry, its rename of the snapshot's copy.
RestorePut ==
  /\ pc = "put" /\ Head(todo) \in snaps
  /\ tree' = [tree EXCEPT ![Head(todo)] = man.entries[Head(todo)].orig]
  /\ raced' = raced \ {Head(todo)}
  /\ todo' = Tail(todo) /\ pc' = "restore"
  /\ UNCHANGED <<durable, staged, next, units, host, journal, stopped, touched, faults>>

RestoredAll == /\ pc = "restore" /\ todo = <<>>
               /\ pc' = "runtime"
               /\ UNCHANGED <<fs, units, host, journal, recovery, faults>>

\* _restore_runtime without resuming units, _verify_all_original (only after a
\* snapshot was complete), then "restored" is durable.
RestoreRuntime ==
  /\ pc = "runtime"
  /\ enabled' = man.runtime.enabled /\ pc' = "verify"
  /\ UNCHANGED <<fs, running, host, journal, recovery, faults>>

RestoredUnverified ==
  /\ pc = "verify"
  /\ Persist([man EXCEPT !.state = "restored"])
  /\ pc' = "resume"
  /\ UNCHANGED <<tree, staged, next, raced, units, host, pend, snaps, recovery, faults>>
VerifyRestored ==
  /\ pc = "verify"
  /\ man.state # "preparing" => \A p \in Paths : tree[p] = man.entries[p].orig
  /\ Persist([man EXCEPT !.state = "restored"])
  /\ pc' = "resume"
  /\ UNCHANGED <<tree, staged, next, raced, units, host, pend, snaps, recovery, faults>>

\* _resume_runtime_units: in the boot the deployment began in, the units that
\* were active then; in another one systemd starts the enabled units itself.
ResumedWhatWasStopped == IF man.runtime.boot = boot THEN running \cup stopped ELSE running
Resumed == IF man.runtime.boot = boot THEN running \cup man.runtime.active ELSE running

Resume == /\ pc = "resume"
          /\ running' = Resumed
          /\ pc' = "cleanup"
          /\ UNCHANGED <<fs, enabled, host, journal, recovery, faults>>

\* An exception in the recovery of a prepared transaction: it stays prepared,
\* and units that were active are resumed (or that fails too).
PreparingFails ==
  /\ pc \in {"stop", "runtime", "verify"} /\ man.state = "preparing"
  /\ faults < MaxFaults /\ faults' = faults + 1
  /\ running' \in {running, Resumed}
  /\ pc' = "idle" /\ Fresh
  /\ UNCHANGED <<fs, enabled, host, journal>>

\* An exception in the other recovery: units it stopped are started again only
\* if no artifact was touched; the state becomes recovery-failed, if that can be
\* written.  A refusal of a check is such an exception and no fault.
RestartedAlways == running \cup stopped
Restarted == IF touched THEN running ELSE running \cup stopped

Refusal == \/ pc = "stop" /\ running = {} /\ ~PreflightOK
           \/ pc = "restore" /\ todo # <<>> /\ tree[Head(todo)] \notin Known(Head(todo))
           \/ pc = "verify" /\ \E p \in Paths : tree[p] # man.entries[p].orig

RecoveryFails ==
  /\ pc \in {"stop", "mark", "restore", "put", "runtime", "verify"} /\ InTransaction
  /\ Refusal \/ faults < MaxFaults
  /\ faults' = IF Refusal THEN faults ELSE faults + 1
  /\ running' \in {running, Restarted}
  /\ \/ Persist([man EXCEPT !.state = "recovery-failed"])
     \/ UNCHANGED <<man, durable>>
  /\ pc' = "idle" /\ Fresh
  /\ UNCHANGED <<tree, staged, next, raced, enabled, host, pend, snaps>>

\* _cleanup_pending: rmtree removes the files in any order, the directory last.
CleanupFile == /\ pc = "cleanup"
               /\ \/ \E p \in snaps : snaps' = snaps \ {p} /\ UNCHANGED man
                  \/ man # NoManifest /\ man' = NoManifest /\ UNCHANGED snaps
               /\ UNCHANGED <<fs, units, host, pend, recovery, pc, faults>>

CleanupDir == /\ pc = "cleanup" /\ snaps = {} /\ man = NoManifest
              /\ pend' = FALSE /\ gate' = TRUE /\ pc' = "idle"
              /\ Fresh
              /\ UNCHANGED <<fs, units, boot, man, snaps, faults>>

-----------------------------------------------------------------------------
(* The environment                                                         *)

\* SIGKILL of whoever holds the lock.
Kill == /\ pc # "idle" /\ faults < MaxFaults
        /\ pc' = "idle" /\ faults' = faults + 1 /\ Fresh
        /\ UNCHANGED <<fs, units, host, journal>>

\* The host goes down; a rename that no manifest write followed may be lost.
HostCrash == /\ faults < MaxFaults /\ faults' = faults + 1
             /\ \E lost \in SUBSET Paths :
                  tree' = [p \in Paths |-> IF p \in lost THEN durable[p] ELSE tree[p]]
             /\ durable' = tree'
             /\ running' = {} /\ boot' = boot + 1 /\ gate' = FALSE
             /\ pc' = "idle" /\ Fresh
             /\ UNCHANGED <<staged, next, raced, enabled, journal>>

\* The recovery unit is required by and ordered before the managed units.
SystemdStart(u) == /\ gate /\ boot > 1 /\ pc = "idle" /\ ~pend
                   /\ u \in enabled \ running
                   /\ running' = running \cup {u}
                   /\ UNCHANGED <<fs, enabled, host, journal, recovery, pc, faults>>

\* Somebody without the lock writes an artifact.
OtherWrites(p) ==
  /\ next < MaxGen
  /\ next' = next + 1
  /\ tree' = [tree EXCEPT ![p] = next + 1]
  /\ durable' = [durable EXCEPT ![p] = next + 1]
  /\ raced' = IF InWindow(p) THEN raced \cup {p} ELSE raced
  /\ UNCHANGED <<staged, units, host, journal, recovery, pc, faults>>

Deployment == \/ Prepare \/ Capture \/ CaptureFails \/ Snapshot \/ SnapshotDone
              \/ Rename \/ After \/ Complete \/ Abort
              \/ \E p \in Paths : \E candidate \in {{}, {p}} : Before(p, candidate)
              \/ \E u \in Units : DeployStarts(u) \/ DeployStops(u)

Recovery == \/ RecoverBegin \/ RecoverClean \/ RecoverRestored \/ RecoverPreparing
            \/ RecoverPreflight \/ Quiesced \/ MarkRestoring
            \/ RestoreCheck \/ RestorePut \/ RestoredAll
            \/ RestoreRuntime \/ VerifyRestored \/ Resume
            \/ CleanupFile \/ CleanupDir
            \/ \E u \in Units : StopUnit(u)

Failure == PreparingFails \/ RecoveryFails \/ Kill \/ HostCrash

Next == \/ Deployment \/ Recovery \/ Failure
        \/ \E u \in Units : SystemdStart(u)
        \/ \E p \in Paths : OtherWrites(p)

Spec == Init /\ [][Next]_vars

\* The boot unit, the watchdog and the next deployment all run the recovery; a
\* recovery that runs goes on.
FairSpec == Spec /\ WF_vars(Recovery)

-----------------------------------------------------------------------------
(* Properties                                                              *)

TypeOK == /\ tree \in [Paths -> 1..MaxGen] /\ durable \in [Paths -> 1..MaxGen]
          /\ pend \in BOOLEAN /\ man \in Manifests \cup {NoManifest}
          /\ snaps \subseteq Paths /\ staged \subseteq Paths /\ raced \subseteq Paths
          /\ running \subseteq Units /\ enabled \subseteq Units
          /\ boot \in 1..(MaxFaults + 1) /\ gate \in BOOLEAN
          /\ pc \in {"idle", "prepare", "deploy", "rename", "after", "recover", "stop", "mark",
                     "restore", "put", "runtime", "verify", "resume", "cleanup"}
          /\ stopped \subseteq Units /\ touched \in BOOLEAN /\ todo \in PathSeqs
          /\ next \in 1..MaxGen /\ faults \in 0..MaxFaults

\* A journal that may still have to be rolled back has all its snapshots: no
\* cleanup has begun before "complete" or "restored" was durable, whatever died
\* and was started again in between; and a candidate that was journaled does not
\* outlive the journal.
SnapshotsCoverJournal == /\ TypeOK
                         /\ InTransaction => pend /\ snaps = Paths
                         /\ ~pend => staged = {}

\* No managed service runs on a tree the recovery has begun to take back: from the
\* first restored artifact until "restored" is durable all units are down, also
\* after the recovery failed or was killed half-way.
NoServiceOnHalfRestoredTree ==
  (InTransaction /\ \E p \in ToSet(man.committed) : /\ man.entries[p].repl # man.entries[p].orig
                                                    /\ tree[p] = man.entries[p].orig)
     => running = {}

\* The helper never overwrites a generation that is neither the snapshotted nor
\* the journaled one, unless it was written between the check and the rename.
UnknownNeverOverwritten ==
  [][\A p \in Paths : (tree'[p] # tree[p] /\ next' = next /\ InTransaction /\ boot' = boot)
                         => tree[p] \in Known(p) \/ p \in raced]_vars

\* A rollback in the boot of its deployment leaves exactly the units active that
\* were active before: none that the packages or a failed recovery started.
RollbackRestoresUnits ==
  [][(pc = "resume" /\ pc' = "cleanup" /\ man.runtime.boot = boot)
        => running' = man.runtime.active /\ enabled' = man.runtime.enabled]_vars

\* Every transaction whose artifacts nobody else wrote is decided in the end: the
\* journal goes away once the deployment has completed or died.
Undisturbed == \A p \in man.snapped : tree[p] \in Known(p)
TransactionResolved ==
  (pend /\ pc = "idle") ~> (~pend \/ (InTransaction /\ ~Undisturbed))

\* The deployment implements an atomic switch of versions.
Dirty == IF InTransaction THEN {p \in Paths : tree[p] \notin Known(p)} \ raced ELSE {}
Atomic == INSTANCE AtomicDeploy
            WITH Generations <- 1..MaxGen,
                 version <- [p \in Paths |->
                               IF InTransaction /\ p \notin Dirty THEN man.entries[p].orig
                                                                  ELSE tree[p]],
                 open <- InTransaction,
                 plan <- [p \in Paths |-> IF InTransaction THEN man.entries[p].repl ELSE 0],
                 dirty <- Dirty

\* Whatever dies and whenever, the artifacts change together or not at all, and
\* only if nobody else has written one of them.
ImplementsAtomicDeploy == Atomic!Spec

=============================================================================
