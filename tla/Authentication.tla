--------------------------- MODULE Authentication ---------------------------
(***************************************************************************)
(* Hysteria's HTTP authentication of one user: authenticate and            *)
(* reserve_device_admission of hysteria/auth_backend.py, run by up to      *)
(* MaxWorkers threads of hysteria/auth_service.py, next to the panel's     *)
(* edits of users.json and the kicks that follow a revocation, the online  *)
(* count of Hysteria's API and the online snapshot the traffic limiter     *)
(* leaves as a fallback.                                                   *)
(*                                                                         *)
(* A client that passes the credential check reads the online count,       *)
(* reserves a device slot in a ledger under a lock of its own, and is      *)
(* accepted if users.json still holds the record it started from when it   *)
(* is read again; the answer leaves after that, and the record may change  *)
(* in between.  The ledger keeps reservations for AdmissionTTL so that     *)
(* clients accepted but not yet counted by Hysteria are not forgotten.     *)
(* Time is counted in ticks, and stamps are kept as ages.                  *)
(***************************************************************************)
EXTENDS Naturals, Sequences, FiniteSets

CONSTANTS
    Clients,       \* devices that try to connect with the user's credential
    MaxDevices,    \* max_devices of the user
    MaxWorkers,    \* threads of the authentication service
    AdmissionTTL,  \* DEVICE_ADMISSION_TTL_SECONDS
    SnapshotTTL,   \* ONLINE_SNAPSHOT_TTL_SECONDS
    RequestTime,   \* REQUEST_DEADLINE_SECONDS
    AnswerTime,    \* an answer is with Hysteria within it of the second read
    ConnectTime,   \* an accepted client connects within it, or not at all
    KickDelay,     \* SECOND_KICK_DELAY_SECONDS
    MaxEdits,      \* bound on the edits of the user record in a behaviour
    MaxFaults,     \* bound on the failures injected in a behaviour
    FaultKinds     \* the failures injected

ASSUME AuthenticationAssumption ==
    /\ IsFiniteSet(Clients)
    /\ MaxDevices \in Nat \ {0} /\ MaxWorkers \in Nat \ {0}
    /\ AdmissionTTL \in Nat \ {0} /\ SnapshotTTL \in Nat 
    /\ RequestTime \in Nat /\ AnswerTime \in Nat /\ ConnectTime \in Nat
    /\ KickDelay \in Nat \ {0}
    /\ MaxEdits \in Nat /\ MaxFaults \in Nat

VARIABLES
    revision,      \* number of the current record of the user
    active,        \* that record authorizes: present, enabled, not expired
    pc,            \* what each client is doing
    start,         \* revision its authentication, or connection, started from
    observed,      \* online count it read
    age,           \* ticks since its request began or was accepted
    waited,        \* ticks since reserve_device_admission looked at the clock
    baseline,      \* the ledger's "observed" for the user
    pending,       \* the ledger's "pending": ages of reservations, in order
    snapCount, snapAge,  \* online.json and the age of its metadata
    kicks,         \* successful kicks recorded for the last change of the record
    kickAge,       \* ticks since the last of them
    exact,         \* history: no count came from a snapshot, or was read while
                   \* another request held a count it had not reserved with yet
    faults

recordVars == <<revision, active>>
clientVars == <<pc, start, observed, age, waited>>
ledgerVars == <<baseline, pending>>
snapVars   == <<snapCount, snapAge>>
kickVars   == <<kicks, kickAge>>
vars == <<recordVars, clientVars, ledgerVars, snapVars, kickVars, exact, faults>>

Busy     == {c \in Clients :
               pc[c] \in {"verify", "online", "reserve", "recheck", "answer"}}
Online   == {c \in Clients : pc[c] = "connected"}
Passed   == {c \in Clients : pc[c] \in {"answer", "accepted", "connected"}}
Admitted == {c \in Clients : pc[c] \in {"accepted", "connected"}}
Counts   == 0 .. Cardinality(Clients)

\* How long a client can stay in its state.
Limit(c) == CASE pc[c] \in {"verify", "online", "reserve", "recheck"} -> RequestTime
              [] pc[c] = "answer" -> AnswerTime
              [] pc[c] = "accepted" -> ConnectTime
              [] OTHER -> 0

Smaller(a, b) == IF a < b THEN a ELSE b

\* No request takes a reservation of this age for a live one.
OldAge == AdmissionTTL + RequestTime

TypeOK ==
    /\ revision \in 0 .. MaxEdits /\ active \in BOOLEAN
    /\ pc \in [Clients -> {"idle", "verify", "online", "reserve", "recheck",
                           "answer", "accepted", "connected"}]
    /\ start \in [Clients -> 0 .. MaxEdits]
    /\ observed \in [Clients -> Counts]
    /\ \A c \in Clients : age[c] \in 0 .. Limit(c) /\ waited[c] \in 0 .. age[c]
    /\ baseline \in Counts
    /\ pending \in Seq(0 .. OldAge) /\ Len(pending) <= MaxDevices
    /\ snapCount \in Counts /\ snapAge \in 0 .. SnapshotTTL + 1
    /\ kicks \in 0 .. 2 /\ kickAge \in 0 .. KickDelay
    /\ exact \in BOOLEAN /\ faults \in 0 .. MaxFaults
    /\ Cardinality(Busy) <= MaxWorkers

Init ==
    /\ revision = 0 /\ active = TRUE
    /\ pc = [c \in Clients |-> "idle"]
    /\ start = [c \in Clients |-> 0]
    /\ observed = [c \in Clients |-> 0]
    /\ age = [c \in Clients |-> 0] /\ waited = [c \in Clients |-> 0]
    /\ baseline = 0 /\ pending = <<>>
    /\ snapCount = 0 /\ snapAge = SnapshotTTL + 1
    /\ kicks = 0 /\ kickAge = KickDelay
    /\ exact = TRUE /\ faults = 0

-----------------------------------------------------------------------------
(* The steps of authenticate.                                              *)

Fault(kind) ==
    /\ kind \in FaultKinds
    /\ faults < MaxFaults
    /\ faults' = faults + 1

Goto(c, state) == pc' = [pc EXCEPT ![c] = state]

\* The request, or the client, ends and keeps nothing.
End(c) ==
    /\ Goto(c, "idle")
    /\ start' = [start EXCEPT ![c] = 0]
    /\ observed' = [observed EXCEPT ![c] = 0]
    /\ age' = [age EXCEPT ![c] = 0] /\ waited' = [waited EXCEPT ![c] = 0]

\* A worker thread loads users.json and takes the digest of the record.
Begin(c) ==
    /\ pc[c] = "idle" /\ Cardinality(Busy) < MaxWorkers
    /\ active
    /\ start' = [start EXCEPT ![c] = revision]
    /\ Goto(c, "verify")
    /\ UNCHANGED <<recordVars, observed, age, waited, ledgerVars, snapVars, kickVars, exact, faults>>

\* The credential is right for that record and the quota is not used up.
Verify(c) ==
    /\ pc[c] = "verify"
    /\ Goto(c, "online")
    /\ UNCHANGED <<recordVars, start, observed, age, waited, ledgerVars, snapVars, kickVars, exact, faults>>

\* get_online_counts from Hysteria's API.
ReadOnline(c) ==
    /\ pc[c] = "online"
    /\ observed' = [observed EXCEPT ![c] = Cardinality(Online)]
    /\ exact' = (exact /\ \A d \in Clients : pc[d] # "reserve")
    /\ Goto(c, "reserve")
    /\ UNCHANGED <<recordVars, start, age, waited, ledgerVars, snapVars, kickVars, faults>>

\* The API does not answer: fall back to a fresh snapshot.
ReadSnapshot(c) ==
    /\ pc[c] = "online" /\ Fault("api")
    /\ snapAge <= SnapshotTTL
    /\ observed' = [observed EXCEPT ![c] = snapCount]
    /\ exact' = FALSE
    /\ Goto(c, "reserve")
    /\ UNCHANGED <<recordVars, start, age, waited, ledgerVars, snapVars, kickVars>>

LiveNoBaseline(c) ==
    LET unexpired == SelectSeq(pending, LAMBDA a : a < AdmissionTTL + waited[c])
    IN  SubSeq(unexpired, Smaller(observed[c], Len(unexpired)) + 1, Len(unexpired))

\* The ledger after a reservation attempt of c: drop the reservations that had
\* expired when the attempt looked at the clock, and the oldest ones that the
\* count c read now reflects.
Live(c) ==
    LET unexpired == SelectSeq(pending, LAMBDA a : a < AdmissionTTL + waited[c])
        previous  == IF unexpired = <<>> THEN observed[c] ELSE baseline
        reflected == IF observed[c] > previous THEN observed[c] - previous ELSE 0
    IN  SubSeq(unexpired, Smaller(reflected, Len(unexpired)) + 1, Len(unexpired))

SaveLedger(c, stamps) ==
    /\ pending' = stamps
    /\ baseline' = IF stamps = <<>> THEN 0 ELSE observed[c]

Allowed(c) == observed[c] + Len(Live(c)) < MaxDevices

\* reserve_device_admission, under the ledger's lock: count the devices online
\* and the live reservations, and add one if there is room.
Reserve(c) ==
    /\ pc[c] = "reserve" /\ Allowed(c)
    /\ SaveLedger(c, Append(Live(c), waited[c]))
    /\ Goto(c, "recheck")
    /\ UNCHANGED <<recordVars, start, observed, age, waited, snapVars, kickVars, exact, faults>>

\* There is no room.
Refuse(c) ==
    /\ pc[c] = "reserve" /\ ~Allowed(c)
    /\ SaveLedger(c, Live(c))
    /\ End(c)
    /\ UNCHANGED <<recordVars, snapVars, kickVars, exact, faults>>

\* The lock times out, or the ledger is unreadable or cannot be saved, in
\* which case the reservation may or may not be in it: not accepted.
ReserveFails(c) ==
    /\ pc[c] = "reserve" /\ Fault("ledger")
    /\ \/ UNCHANGED ledgerVars
       \/ /\ Allowed(c)
          /\ SaveLedger(c, Append(Live(c), waited[c]))
    /\ End(c)
    /\ UNCHANGED <<recordVars, snapVars, kickVars, exact>>

RecheckNothing(c) ==
    /\ pc[c] = "recheck"
    /\ Goto(c, "answer")
    /\ age' = [age EXCEPT ![c] = 0] /\ waited' = [waited EXCEPT ![c] = 0]
    /\ UNCHANGED <<recordVars, start, observed, ledgerVars, snapVars, kickVars, exact, faults>>

\* users.json is read again: still the record the request started from.
Recheck(c) ==
    /\ pc[c] = "recheck" /\ active /\ revision = start[c]
    /\ Goto(c, "answer")
    /\ age' = [age EXCEPT ![c] = 0] /\ waited' = [waited EXCEPT ![c] = 0]
    /\ UNCHANGED <<recordVars, start, observed, ledgerVars, snapVars, kickVars, exact, faults>>

\* The answer is sent, and Hysteria takes the client for authenticated.
Accept(c) ==
    /\ pc[c] = "answer"
    /\ Goto(c, "accepted")
    /\ age' = [age EXCEPT ![c] = 0]
    /\ UNCHANGED <<recordVars, start, observed, waited, ledgerVars, snapVars, kickVars, exact, faults>>

\* Any check that fails, or the request deadline, ends the authentication; a
\* reservation it made stays in the ledger.
Reject(c) ==
    /\ c \in Busy
    /\ End(c)
    /\ UNCHANGED <<recordVars, ledgerVars, snapVars, kickVars, exact, faults>>

-----------------------------------------------------------------------------
(* Hysteria, the panel, the limiter and time.                              *)

Connect(c) ==
    /\ pc[c] = "accepted"
    /\ pc' = [pc EXCEPT ![c] = "connected"]
    /\ observed' = [observed EXCEPT ![c] = 0]
    /\ age' = [age EXCEPT ![c] = 0]
    /\ UNCHANGED <<recordVars, start, waited, ledgerVars, snapVars, kickVars, exact, faults>>

\* An accepted client gives up, or a connected one disconnects.
Leave(c) ==
    /\ pc[c] \in {"accepted", "connected"}
    /\ End(c)
    /\ UNCHANGED <<recordVars, ledgerVars, snapVars, kickVars, exact, faults>>

\* The panel saves a new record: a rotation, a policy edit, a suspension or the
\* end of one.
Edit ==
    /\ revision < MaxEdits
    /\ revision' = revision + 1 /\ active' \in BOOLEAN
    /\ kicks' = 0 /\ kickAge' = KickDelay
    /\ UNCHANGED <<clientVars, ledgerVars, snapVars, exact, faults>>

\* Hysteria closes the sessions of the user; a client that is accepted but not
\* connected yet has none.
Disconnect ==
    /\ pc' = [c \in Clients |-> IF pc[c] = "connected" THEN "idle" ELSE pc[c]]
    /\ start' = [c \in Clients |-> IF pc[c] = "connected" THEN 0 ELSE start[c]]

\* The revocation of a change needs two kicks that succeed, the second
\* SECOND_KICK_DELAY_SECONDS after the first.  (That a request and the worker
\* may kick at the same moment is the subject of rushed in Revocation.)
KickDue == revision > 0 /\ kicks < 2 /\ kickAge = KickDelay

Kick ==
    /\ KickDue
    /\ Disconnect
    /\ kicks' = kicks + 1 /\ kickAge' = 0
    /\ UNCHANGED <<recordVars, observed, age, waited, ledgerVars, snapVars, exact, faults>>

\* A kick that fails may have closed them as well; the count starts again,
\* unless the panel stopped before it could be recorded.
KickFails ==
    /\ KickDue /\ Fault("kick")
    /\ Disconnect \/ UNCHANGED <<pc, start>>
    /\ kicks' \in {0, kicks} /\ kickAge' = 0
    /\ UNCHANGED <<recordVars, observed, age, waited, ledgerVars, snapVars, exact>>

\* A limiter tick saves the online count with its capture time (left out of
\* instances in which the API never fails, where nobody reads it).
CaptureSnapshot ==
    /\ "api" \in FaultKinds
    /\ snapCount' = Cardinality(Online) /\ snapAge' = 0
    /\ UNCHANGED <<recordVars, clientVars, ledgerVars, kickVars, exact, faults>>

\* Time passes.  Whoever has reached a limit moves first: the request deadline
\* ends a request, an accepted client connects or gives up.
Tick ==
    /\ \A c \in Clients : pc[c] \notin {"idle", "connected"} => age[c] < Limit(c)
    /\ age' = [c \in Clients |-> Smaller(age[c] + 1, Limit(c))]
    /\ waited' = [c \in Clients |-> waited[c] + (IF pc[c] = "reserve" THEN 1 ELSE 0)]
    /\ pending' = [i \in DOMAIN pending |-> Smaller(pending[i] + 1, OldAge)]
    /\ snapAge' = Smaller(snapAge + 1, SnapshotTTL + 1)
    /\ kickAge' = Smaller(kickAge + 1, KickDelay)
    /\ UNCHANGED <<recordVars, pc, start, observed, baseline, snapCount, kicks, exact, faults>>

-----------------------------------------------------------------------------
Request(c) ==
    \/ Verify(c) \/ ReadOnline(c) \/ ReadSnapshot(c)
    \/ Reserve(c) \/ Refuse(c) \/ ReserveFails(c)
    \/ Recheck(c) \/ Accept(c) \/ Reject(c)

Next ==
    \/ \E c \in Clients : Begin(c) \/ Request(c) \/ Connect(c) \/ Leave(c)
    \/ Edit \/ Kick \/ KickFails \/ CaptureSnapshot \/ Tick

Spec == Init /\ [][Next]_vars

-----------------------------------------------------------------------------
(* Properties.                                                             *)

(* No more than max_devices clients are connected or accepted.             *)
DeviceLimit == Cardinality(Admitted) <= MaxDevices

(* The device limit holds whatever connects, leaves, expires or fails      *)
(* between the online read and the reservation, as long as requests read   *)
(* the API's count one after the other (exact): then                       *)
(* reserve_device_admission "errs toward a brief false rejection rather    *)
(* than admitting more than max_devices concurrent clients".               *)
NeverOverAdmitted == TypeOK /\ (exact => DeviceLimit)

(* A revoked record lets nobody back in: once the two kicks after a change *)
(* have succeeded, no client is connected, accepted or about to be         *)
(* answered on the record before it, whatever was under way when it        *)
(* changed.  A request may take longer than the pause between the kicks    *)
(* ("covering an auth request already in flight during the first kick");   *)
(* the second read of users.json leaves only the answer and the connection *)
(* to outlive the change, and those must fit into the pause.               *)
KickedForGood == kicks = 2 => \A c \in Passed : start[c] = revision

=============================================================================
