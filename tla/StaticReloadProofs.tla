------------------------- MODULE StaticReloadProofs -------------------------
(***************************************************************************)
(* No reload is lost, for any number of callers and reload units, any set  *)
(* of plans and any number of failures.                                    *)
(***************************************************************************)
EXTENDS StaticReload, TLAPS

\* A caller or unit that probes still has a probe to do.
ProbesCounted ==
    /\ \A c \in Callers : pc[c] = "probe" => probesLeft[c] # 0
    /\ \A w \in Workers : wpc[w] = "probe" => wprobes[w] # 0

TypeInv == TypeOK /\ ProbesCounted

IInv == TypeInv /\ ReloadInv

\* The initial states satisfy the inductive invariant.
LEMMA InitIInv == Init => IInv
<1> SUFFICES ASSUME Init PROVE IInv
  OBVIOUS
<1>1. TypeOK
  <2>1. /\ changed \in [Callers -> BOOLEAN] /\ locking \in [Callers -> BOOLEAN]
        /\ wearly \in [Workers -> BOOLEAN]
    BY Zenon DEF Init
  <2>2. /\ pc \in [Callers -> CallerStates] /\ wpc \in [Workers -> WorkerStates]
        /\ want \in [Callers -> Plans] /\ disk \in Plans /\ loaded \in Plans
    BY StaticAssumption DEF StaticAssumption, Init, CallerStates, WorkerStates
  <2>3. /\ probesLeft \in [Callers -> Nat] /\ wtoken \in [Workers -> Nat]
        /\ wprobes \in [Workers -> Nat]
    BY DEF Init
  <2>4. marker \in Nat /\ nextToken \in Nat \ {0} /\ faults \in Nat
    BY DEF Init
  <2>5. failClosed \in BOOLEAN /\ earlyAck \in BOOLEAN
    BY DEF Init
  <2> QED
    BY <2>1, <2>2, <2>3, <2>4, <2>5 DEF Init, TypeOK
<1>2. TokensFresh
  BY DEF Init, TokensFresh
<1>3. SaveProtected
  BY DEF Init, SaveProtected
<1>4. RestartCovers
  BY DEF Init, RestartCovers
<1>5. NoLostReload
  BY DEF Init, NoLostReload
<1>6. ProbesCounted
  BY DEF Init, ProbesCounted
<1> QED
  BY <1>1, <1>2, <1>3, <1>4, <1>5, <1>6 DEF IInv, TypeInv, ReloadInv


\* Every step preserves the types and the probe counters.
LEMMA TypeStep == TypeInv /\ Next => TypeInv'
<1> SUFFICES ASSUME TypeInv, Next PROVE TypeInv'
  OBVIOUS
<1> USE StaticAssumption DEF StaticAssumption, TypeInv, TypeOK, ProbesCounted, fileVars, svcVars,
        lockVars, callerVars, workerVars, CallerStates, WorkerStates, Goto, WGoto,
        Freed, Fault
<1>1. ASSUME NEW c \in Callers, Plan(c) PROVE TypeInv'
  BY <1>1 DEF Plan
<1>2. ASSUME NEW c \in Callers, StateError(c) PROVE TypeInv'
  BY <1>2 DEF StateError
<1>3. ASSUME NEW c \in Callers, ApplyUnchanged(c) PROVE TypeInv'
  BY <1>3, ZenonT(40) DEF ApplyUnchanged, Applied
<1>4. ASSUME NEW c \in Callers, MarkReloadPending(c) PROVE TypeInv'
  BY <1>4 DEF MarkReloadPending
<1>5. ASSUME NEW c \in Callers, SaveConfig(c) PROVE TypeInv'
  BY <1>5 DEF SaveConfig, Applied
<1>6. ASSUME NEW c \in Callers, ApplyFails(c) PROVE TypeInv'
  BY <1>6 DEF ApplyFails
<1>7. ASSUME NEW c \in Callers, RecoverSkip(c) PROVE TypeInv'
  BY <1>7 DEF RecoverSkip
<1>8. ASSUME NEW c \in Callers, RecoverStop(c) PROVE TypeInv'
  BY <1>8 DEF RecoverStop, ServiceStops
<1>9. ASSUME NEW c \in Callers, RecoverStart(c) PROVE TypeInv'
  BY <1>9 DEF RecoverStart, ServiceStarts, ServiceLoads
<1>10. ASSUME NEW c \in Callers, RecoverProbe(c) PROVE TypeInv'
  BY <1>10 DEF RecoverProbe
<1>11. ASSUME NEW c \in Callers, RecoverClear(c) PROVE TypeInv'
  BY <1>11 DEF RecoverClear
<1>12. ASSUME NEW c \in Callers, RecoverFails(c) PROVE TypeInv'
  <2>1. svc' \in {"active", "stopped", "failed"} /\ loaded' \in Plans
        /\ earlyAck' \in BOOLEAN
    BY <1>12 DEF RecoverFails, ServiceStops, ServiceStarts, ServiceLoads
  <2>2. faults' \in Nat
    BY <1>12 DEF RecoverFails
  <2> QED
    BY <1>12, <2>1, <2>2 DEF RecoverFails
<1>13. ASSUME NEW c \in Callers, Release(c) PROVE TypeInv'
  BY <1>13 DEF Release
<1>14. ASSUME NEW c \in Callers, ReloadMissing(c) PROVE TypeInv'
  BY <1>14 DEF ReloadMissing
<1>15. ASSUME NEW c \in Callers, ReloadAsync(c) PROVE TypeInv'
  BY <1>15 DEF ReloadAsync, StartWorker, SaveInProgress
<1>16. ASSUME NEW c \in Callers, ReloadFails(c) PROVE TypeInv'
  <2>1. CASE UNCHANGED workerVars
    BY <1>16, <2>1 DEF ReloadFails
  <2>2. CASE \E w \in Workers : StartWorker(w)
    BY <1>16, <2>2 DEF ReloadFails, StartWorker, SaveInProgress
  <2> QED
    BY <1>16, <2>1, <2>2 DEF ReloadFails
<1>17. ASSUME NEW c \in Callers, FailMark(c) PROVE TypeInv'
  <2>1. failClosed' \in BOOLEAN
    BY <1>17 DEF FailMark
  <2>2. faults' \in Nat
    BY <1>17 DEF FailMark
  <2> QED
    BY <1>17, <2>1, <2>2 DEF FailMark
<1>18. ASSUME NEW c \in Callers, FailStop(c) PROVE TypeInv'
  BY <1>18 DEF FailStop, ServiceStops
<1>19. ASSUME NEW c \in Callers, CallerCrash(c) PROVE TypeInv'
  BY <1>19 DEF CallerCrash, Process
<1>20. ASSUME NEW w \in Workers, WorkerRestart(w) PROVE TypeInv'
  BY <1>20 DEF WorkerRestart, ServiceLoads
<1>21. ASSUME NEW w \in Workers, WorkerProbe(w) PROVE TypeInv'
  BY <1>21 DEF WorkerProbe
<1>22. ASSUME NEW w \in Workers, WorkerFails(w) PROVE TypeInv'
  <2>1. svc' \in {"active", "stopped", "failed"} /\ loaded' \in Plans
        /\ earlyAck' \in BOOLEAN
    BY <1>22 DEF WorkerFails, ServiceStops, ServiceLoads
  <2>2. faults' \in Nat
    BY <1>22 DEF WorkerFails
  <2> QED
    BY <1>22, <2>1, <2>2 DEF WorkerFails
<1>23. ASSUME NEW w \in Workers, WorkerAck(w) PROVE TypeInv'
  BY <1>23 DEF WorkerAck, Acknowledge, WorkerEnds
<1>24. ASSUME NEW w \in Workers, WorkerFailMark(w) PROVE TypeInv'
  <2>1. failClosed' \in BOOLEAN
    BY <1>24 DEF WorkerFailMark
  <2>2. faults' \in Nat
    BY <1>24 DEF WorkerFailMark
  <2> QED
    BY <1>24, <2>1, <2>2 DEF WorkerFailMark
<1>25. ASSUME NEW w \in Workers, WorkerFailStop(w) PROVE TypeInv'
  BY <1>25 DEF WorkerFailStop, ServiceStops, WorkerEnds
<1>26. ASSUME NEW w \in Workers, WorkerCrash(w) PROVE TypeInv'
  BY <1>26 DEF WorkerCrash, WorkerEnds
<1>27. ASSUME ServiceCrash PROVE TypeInv'
  <2>1. svc' \in {"active", "stopped", "failed"} /\ loaded' \in Plans
        /\ earlyAck' \in BOOLEAN
    BY <1>27 DEF ServiceCrash, ServiceLoads
  <2>2. faults' \in Nat
    BY <1>27 DEF ServiceCrash
  <2> QED
    BY <1>27, <2>1, <2>2 DEF ServiceCrash
<1>28. ASSUME Reboot PROVE TypeInv'
  <2>1. /\ disk' \in Plans /\ loaded' \in Plans /\ marker' \in Nat
        /\ nextToken' \in Nat \ {0} /\ failClosed' \in BOOLEAN /\ faults' \in Nat
        /\ svc' = "active" /\ earlyAck' = FALSE
        /\ usageLock' = NoOne /\ configLock' = NoOne
    BY <1>28 DEF Reboot, ServiceLoads
  <2>2. /\ pc' \in [Callers -> CallerStates] /\ want' \in [Callers -> Plans]
        /\ probesLeft' \in [Callers -> Nat]
        /\ wpc' \in [Workers -> WorkerStates] /\ wtoken' \in [Workers -> Nat]
        /\ wprobes' \in [Workers -> Nat]
    BY <1>28 DEF Reboot
  <2>3. /\ changed' \in [Callers -> BOOLEAN] /\ locking' \in [Callers -> BOOLEAN]
        /\ wearly' \in [Workers -> BOOLEAN]
    BY <1>28, Zenon DEF Reboot
  <2>4. /\ \A c \in Callers : pc'[c] # "probe"
        /\ \A w \in Workers : wpc'[w] # "probe"
    BY <1>28 DEF Reboot
  <2> QED
    BY <2>1, <2>2, <2>3, <2>4
<1> QED
  BY <1>1, <1>2, <1>3, <1>4, <1>5, <1>6, <1>7, <1>8, <1>9, <1>10, <1>11,
     <1>12, <1>13, <1>14, <1>15, <1>16, <1>17, <1>18, <1>19, <1>20,
     <1>21, <1>22, <1>23, <1>24, <1>25, <1>26, <1>27, <1>28
     DEF Next, CallerStep, WorkerStep, CallerFailure, WorkerFailure

\* Every step preserves the four facts that make a reload impossible to lose.
LEMMA ReloadStep == IInv /\ Next => ReloadInv'
<1> SUFFICES ASSUME IInv, Next PROVE ReloadInv'
  OBVIOUS
<1> USE DEF IInv, TypeInv, TypeOK, ReloadInv, TokensFresh, SaveProtected, RestartCovers, NoLostReload,
        fileVars, svcVars, lockVars, callerVars, workerVars, Goto, WGoto, Freed, Fault
<1>1. ASSUME NEW c \in Callers, Plan(c) PROVE ReloadInv'
  BY <1>1 DEF Plan
<1>2. ASSUME NEW c \in Callers, StateError(c) PROVE ReloadInv'
  BY <1>2 DEF StateError
<1>3. ASSUME NEW c \in Callers, ApplyUnchanged(c) PROVE ReloadInv'
  BY <1>3 DEF ApplyUnchanged, Applied
<1>4. ASSUME NEW c \in Callers, MarkReloadPending(c) PROVE ReloadInv'
  <2>1. TokensFresh'
    BY <1>4 DEF MarkReloadPending
  <2>2. marker' # 0 /\ \A w \in Workers : wtoken'[w] # marker'
    BY <1>4 DEF MarkReloadPending
  <2>3. \A d \in Callers : pc'[d] = "marked" => d = c
    BY <1>4, StaticAssumption DEF StaticAssumption, MarkReloadPending
  <2>4. SaveProtected'
    BY <1>4, <2>2, <2>3 DEF MarkReloadPending
  <2>5. RestartCovers' /\ NoLostReload'
    BY <2>2
  <2> QED
    BY <2>1, <2>4, <2>5
<1>5. ASSUME NEW c \in Callers, SaveConfig(c) PROVE ReloadInv'
  BY <1>5 DEF SaveConfig, Applied
<1>6. ASSUME NEW c \in Callers, ApplyFails(c) PROVE ReloadInv'
  BY <1>6 DEF ApplyFails
<1>7. ASSUME NEW c \in Callers, RecoverSkip(c) PROVE ReloadInv'
  BY <1>7 DEF RecoverSkip
<1>8. ASSUME NEW c \in Callers, RecoverStop(c) PROVE ReloadInv'
  BY <1>8 DEF RecoverStop, ServiceStops
<1>9. ASSUME NEW c \in Callers, RecoverStart(c) PROVE ReloadInv'
  BY <1>9 DEF RecoverStart, ServiceStarts, ServiceLoads
<1>10. ASSUME NEW c \in Callers, RecoverProbe(c) PROVE ReloadInv'
  BY <1>10 DEF RecoverProbe
<1>11. ASSUME NEW c \in Callers, RecoverClear(c) PROVE ReloadInv'
  BY <1>11 DEF RecoverClear
<1>12. ASSUME NEW c \in Callers, RecoverFails(c) PROVE ReloadInv'
  BY <1>12 DEF RecoverFails, ServiceStops, ServiceStarts, ServiceLoads
<1>13. ASSUME NEW c \in Callers, Release(c) PROVE ReloadInv'
  BY <1>13 DEF Release
<1>14. ASSUME NEW c \in Callers, ReloadMissing(c) PROVE ReloadInv'
  BY <1>14 DEF ReloadMissing
<1>15. ASSUME NEW c \in Callers, ReloadAsync(c) PROVE ReloadInv'
  BY <1>15 DEF ReloadAsync, StartWorker, SaveInProgress
<1>16. ASSUME NEW c \in Callers, ReloadFails(c) PROVE ReloadInv'
  BY <1>16 DEF ReloadFails, StartWorker, SaveInProgress
<1>17. ASSUME NEW c \in Callers, FailMark(c) PROVE ReloadInv'
  BY <1>17 DEF FailMark
<1>18. ASSUME NEW c \in Callers, FailStop(c) PROVE ReloadInv'
  BY <1>18 DEF FailStop, ServiceStops
<1>19. ASSUME NEW c \in Callers, CallerCrash(c) PROVE ReloadInv'
  BY <1>19 DEF CallerCrash, Process
<1>20. ASSUME NEW w \in Workers, WorkerRestart(w) PROVE ReloadInv'
  BY <1>20 DEF WorkerRestart, ServiceLoads
<1>21. ASSUME NEW w \in Workers, WorkerProbe(w) PROVE ReloadInv'
  BY <1>21 DEF WorkerProbe
<1>22. ASSUME NEW w \in Workers, WorkerFails(w) PROVE ReloadInv'
  BY <1>22 DEF WorkerFails, ServiceStops, ServiceLoads
<1>23. ASSUME NEW w \in Workers, WorkerAck(w) PROVE ReloadInv'
  <2>1. TokensFresh'
    BY <1>23 DEF WorkerAck, Acknowledge, WorkerEnds
  <2>2. SaveProtected'
    BY <1>23, StaticAssumption DEF StaticAssumption, WorkerAck
  <2>3. RestartCovers'
    BY <1>23 DEF WorkerAck, Acknowledge, WorkerEnds
  <2>4. NoLostReload'
    BY <1>23 DEF WorkerAck, Acknowledge
  <2> QED
    BY <2>1, <2>2, <2>3, <2>4
<1>24. ASSUME NEW w \in Workers, WorkerFailMark(w) PROVE ReloadInv'
  BY <1>24 DEF WorkerFailMark
<1>25. ASSUME NEW w \in Workers, WorkerFailStop(w) PROVE ReloadInv'
  BY <1>25 DEF WorkerFailStop, ServiceStops, WorkerEnds
<1>26. ASSUME NEW w \in Workers, WorkerCrash(w) PROVE ReloadInv'
  BY <1>26 DEF WorkerCrash, WorkerEnds
<1>27. ASSUME ServiceCrash PROVE ReloadInv'
  BY <1>27 DEF ServiceCrash, ServiceLoads
<1>28. ASSUME Reboot PROVE ReloadInv'
  BY <1>28 DEF Reboot, ServiceLoads
<1> QED
  BY <1>1, <1>2, <1>3, <1>4, <1>5, <1>6, <1>7, <1>8, <1>9, <1>10, <1>11,
     <1>12, <1>13, <1>14, <1>15, <1>16, <1>17, <1>18, <1>19, <1>20,
     <1>21, <1>22, <1>23, <1>24, <1>25, <1>26, <1>27, <1>28
     DEF Next, CallerStep, WorkerStep, CallerFailure, WorkerFailure

\* The inductive invariant holds in every reachable state.
THEOREM StaticInductive == Spec => []IInv
<1>1. Init => IInv
  BY InitIInv
<1>2. IInv /\ [Next]_vars => IInv'
  <2>1. CASE Next
    BY <2>1, TypeStep, ReloadStep DEF IInv
  <2>2. CASE UNCHANGED vars
    BY <2>2 DEF vars, fileVars, svcVars, lockVars, callerVars, workerVars, IInv,
        TypeInv, TypeOK, ProbesCounted, ReloadInv, TokensFresh, SaveProtected,
        RestartCovers, NoLostReload
  <2> QED
    BY <2>1, <2>2
<1> QED
  BY <1>1, <1>2, PTL DEF Spec

\* Type correctness of the reload lifecycle, for every value of the constants.
THEOREM StaticTypeOK == Spec => []TypeOK
<1>1. IInv => TypeOK
  BY DEF IInv, TypeInv
<1> QED
  BY <1>1, StaticInductive, PTL

\* Whatever crashes, failed saves, fail-closed stops and overlapping reload
\* units happen, a running proxy with an outdated config still has its reload
\* marker, unless a unit that read the marker before the config was saved
\* acknowledged it.
THEOREM StaticNoLostReload == Spec => []NoLostReload
<1>1. IInv => NoLostReload
  BY DEF IInv, ReloadInv
<1> QED
  BY <1>1, StaticInductive, PTL

=============================================================================
