---------------------------- MODULE AtomicDeploy ----------------------------
(***************************************************************************)
(* What scripts/hy2-deploy-recovery.py promises of a deployment: between   *)
(* the moment its snapshot is complete and the moment it is decided, the   *)
(* version of the artifacts is the one before it; it is decided in one     *)
(* step, for all artifacts together, and never while an artifact carries a *)
(* generation that somebody else wrote.                                    *)
(***************************************************************************)
EXTENDS Naturals

CONSTANTS Paths,                \* the allowlisted artifacts
          Generations           \* their possible generations, all above 0

VARIABLES version,              \* the generation of every artifact
          open,                 \* a deployment is under way
          plan,                 \* the generation it wants for an artifact, or 0
          dirty                 \* artifacts somebody else wrote meanwhile

NoPlan == [p \in Paths |-> 0]

Init == /\ version \in [Paths -> Generations]
        /\ open = FALSE
        /\ plan = NoPlan
        /\ dirty = {}

\* A deployment starts; what was written while its snapshot was taken counts
\* as written by somebody else.
Begin == /\ ~open
         /\ open' = TRUE
         /\ dirty' \in SUBSET Paths
         /\ UNCHANGED <<version, plan>>

\* The deployment announces the generation of one more artifact.
Announce(p) == /\ open
               /\ plan[p] = 0
               /\ \E g \in Generations : plan' = [plan EXCEPT ![p] = g]
               /\ UNCHANGED <<version, open, dirty>>

\* All announced generations take effect together ...
Install == /\ open
           /\ dirty = {}
           /\ version' = [p \in Paths |-> IF plan[p] = 0 THEN version[p] ELSE plan[p]]
           /\ open' = FALSE
           /\ plan' = NoPlan
           /\ UNCHANGED dirty

\* ... or none of them.
Rollback == /\ open
            /\ dirty = {}
            /\ open' = FALSE
            /\ plan' = NoPlan
            /\ UNCHANGED <<version, dirty>>

\* Somebody else writes artifacts: one, or several at once, since a crash of the
\* host may bring back what a deployment had overwritten unknowingly.
Write(S) == /\ S # {}
            /\ version' \in [Paths -> Generations]
            /\ \A p \in Paths : version'[p] # version[p] <=> p \in S
            /\ dirty' = IF open THEN dirty \cup S ELSE dirty
            /\ UNCHANGED <<open, plan>>

Next == \/ Begin \/ Install \/ Rollback
        \/ \E p \in Paths : Announce(p)
        \/ \E S \in SUBSET Paths : Write(S)

vars == <<version, open, plan, dirty>>

Spec == Init /\ [][Next]_vars

=============================================================================
