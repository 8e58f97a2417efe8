---------------------------- MODULE AuthService ----------------------------
(***************************************************************************)
(* The bounded HTTP bridge between Hysteria and the authentication backend *)
(* (auth_service.py) with the password fallback of auth_backend.py that    *)
(* draws on its PBKDF2 budget.                                             *)
(*                                                                         *)
(* One accept thread, a pool of workers behind a capacity semaphore, one   *)
(* overload responder behind another, one deadline watchdog.  What a       *)
(* connection asks for is a kind; what the backend answers to it is        *)
(* Authentication's.  Time is the passing of deadlines; the PBKDF2 rates   *)
(* per source and in all may refuse at any time.                           *)
(***************************************************************************)
EXTENDS Naturals, Sequences, SequencesExt, FiniteSets

CONSTANTS Conns,                \* sockets the accept loop may have open at once
          Workers, MaxPending,  \* 16 and 16 in the code
          MaxRejects,           \* 2
          MaxConcurrent         \* PBKDF2 computations at once: 2

ASSUME ServiceAssumption ==
  /\ IsFiniteSet(Conns)
  /\ MaxPending \in Nat
  /\ {Workers, MaxRejects, MaxConcurrent} \subseteq Nat \ {0}

VARIABLES phase,                \* "serving", "draining" (server_close) or "stopped"
          pc,                   \* what happens to a socket
          late,                 \* sockets whose deadline has passed
          socket,               \* "open", "shut" by the watchdog or "closed"
          capacity, rejects,    \* free permits of the two semaphores
          queue, rejectQueue,   \* work submitted to the two executors
          deadlines,            \* sockets the watchdog looks after
          leases                \* free permits of the PBKDF2 semaphore

server == <<phase, capacity, rejects, queue, rejectQueue>>
vars == <<server, pc, late, socket, deadlines, leases>>

Init == /\ phase = "serving"
        /\ pc = [c \in Conns |-> "none"] /\ late = {} /\ socket = [c \in Conns |-> "closed"]
        /\ capacity = Workers + MaxPending /\ rejects = MaxRejects
        /\ queue = <<>> /\ rejectQueue = <<>>
        /\ deadlines = {}
        /\ leases = MaxConcurrent

Goto(c, s) == pc' = [pc EXCEPT ![c] = s]
AtWork == {"reading", "password", "hashing", "closing"}

-----------------------------------------------------------------------------
(* The accept loop                                                         *)

Accepting == {"accepted", "granted", "overload"}

Unregister(c) == deadlines' = deadlines \ {c} /\ late' = late \ {c}
CloseRequest(c) == socket' = [socket EXCEPT ![c] = "closed"]

Release == capacity' = capacity + 1
ReleaseReject == rejects' = rejects + 1

\* get_request: the deadline is registered as soon as the socket is accepted.
GetRequest(c) == /\ phase = "serving" /\ pc[c] = "none" /\ \A d \in Conns : pc[d] \notin Accepting
                 /\ Goto(c, "accepted")
                 /\ socket' = [socket EXCEPT ![c] = "open"]
                 /\ deadlines' = deadlines \cup {c}
                 /\ UNCHANGED <<server, late, leases>>

\* process_request: a worker's permit, or the overload responder's, or neither.
Acquire(c) ==
  /\ phase = "serving" /\ pc[c] = "accepted"
  /\ \/ /\ capacity > 0
        /\ capacity' = capacity - 1 /\ Goto(c, "granted")
        /\ UNCHANGED <<rejects, deadlines, late, socket>>
     \/ /\ capacity = 0 /\ rejects > 0
        /\ rejects' = rejects - 1 /\ Goto(c, "overload")
        /\ UNCHANGED <<capacity, deadlines, late, socket>>
     \/ /\ capacity = 0 /\ rejects = 0
        /\ Unregister(c) /\ CloseRequest(c) /\ Goto(c, "none")
        /\ UNCHANGED <<capacity, rejects>>
  /\ UNCHANGED <<phase, queue, rejectQueue, leases>>

Submit(c) == /\ phase = "serving"
             /\ \/ /\ pc[c] = "granted" /\ Goto(c, "queued")
                   /\ queue' = Append(queue, c) /\ UNCHANGED rejectQueue
                \/ /\ pc[c] = "overload" /\ Goto(c, "rejecting")
                   /\ rejectQueue' = Append(rejectQueue, c) /\ UNCHANGED queue
             /\ UNCHANGED <<phase, capacity, rejects, late, socket, deadlines, leases>>

\* The executor cannot start a thread and refuses the work.
SubmitFails(c) ==
  /\ phase = "serving" /\ pc[c] \in {"granted", "overload"}
  /\ IF pc[c] = "granted" THEN Release /\ UNCHANGED rejects
                          ELSE ReleaseReject /\ UNCHANGED capacity
  /\ Unregister(c) /\ CloseRequest(c) /\ Goto(c, "none")
  /\ UNCHANGED <<phase, queue, rejectQueue, leases>>

-----------------------------------------------------------------------------
(* A worker                                                                *)

\* A thread of the pool takes the oldest request; setup refuses one whose time was
\* spent in the queue.
PickUp == /\ queue # <<>> /\ Cardinality({c \in Conns : pc[c] \in AtWork}) < Workers
          /\ queue' = Tail(queue)
          /\ Goto(Head(queue), IF Head(queue) \in late THEN "closing" ELSE "reading")
          /\ UNCHANGED <<phase, capacity, rejects, rejectQueue, late, socket, deadlines, leases>>

Outcomes == {"password", "closing"}

\* The client sends its request, as slowly as it likes, or leaves.  Whatever needs
\* no password (do_GET, the refusals of do_POST, a token) is answered in time: every
\* wait of the backend ends with the deadline.
ClientActs(c) == /\ pc[c] = "reading" /\ socket[c] = "open"
                 /\ \E next \in Outcomes : Goto(c, next)
                 /\ UNCHANGED <<server, late, socket, deadlines, leases>>

\* The watchdog has shut the socket down under the read.
ReadEnds(c) == /\ pc[c] = "reading" /\ socket[c] = "shut"
               /\ Goto(c, "closing")
               /\ UNCHANGED <<server, late, socket, deadlines, leases>>

-----------------------------------------------------------------------------
(* The password fallback                                                   *)

\* A password that is not the token: the limiter's rates may refuse it, and without
\* a free lease it is refused at once, never queued behind another hash.
TryAcquire(c) == /\ pc[c] = "password"
                 /\ \/ Goto(c, "closing") /\ UNCHANGED leases
                    \/ /\ c \notin late /\ leases > 0
                       /\ leases' = leases - 1 /\ Goto(c, "hashing")
                 /\ UNCHANGED <<server, late, socket, deadlines>>

\* Mutant: the lease is lost when the deadline has passed.
VerifyInTime(c) == /\ pc[c] = "hashing"
                   /\ leases' = IF c \in late THEN leases ELSE leases + 1
                   /\ Goto(c, "closing")
                   /\ UNCHANGED <<server, late, socket, deadlines>>

\* The hash is computed, or the deadline has passed; the lease is given back.
Verify(c) == /\ pc[c] = "hashing"
             /\ leases' = leases + 1 /\ Goto(c, "closing")
             /\ UNCHANGED <<server, late, socket, deadlines>>

-----------------------------------------------------------------------------
(* The end of a request                                                    *)

\* The finally clause of _process_request_bounded.
Finish(c) == /\ pc[c] = "closing"
             /\ Unregister(c) /\ CloseRequest(c) /\ Release /\ Goto(c, "none")
             /\ UNCHANGED <<phase, rejects, queue, rejectQueue, leases>>

\* _reject_overload: a 503, then at most a quarter of a second of draining.
RejectOverload ==
  /\ rejectQueue # <<>>
  /\ rejectQueue' = Tail(rejectQueue)
  /\ Unregister(Head(rejectQueue)) /\ CloseRequest(Head(rejectQueue))
  /\ ReleaseReject /\ Goto(Head(rejectQueue), "none")
  /\ UNCHANGED <<phase, capacity, queue, leases>>

-----------------------------------------------------------------------------
(* ConnectionDeadlineWatchdog                                              *)

DeadlinePasses(c) == /\ c \in deadlines \ late
                     /\ late' = late \cup {c}
                     /\ UNCHANGED <<server, pc, socket, deadlines, leases>>

\* Mutants: the watchdog ends with the accept loop; it only looks at the queue.
ExpireWhileServing(c) == /\ phase = "serving" /\ c \in deadlines \cap late /\ socket[c] = "open"
                         /\ socket' = [socket EXCEPT ![c] = "shut"]
                         /\ UNCHANGED <<server, pc, late, deadlines, leases>>
ExpireQueued(c) == /\ c \in deadlines \cap late /\ socket[c] = "open" /\ pc[c] = "queued"
                   /\ socket' = [socket EXCEPT ![c] = "shut"]
                   /\ UNCHANGED <<server, pc, late, deadlines, leases>>

\* The watchdog shuts an expired socket down, once (it is no longer armed), which
\* wakes whoever reads from it.
Expire(c) == /\ phase # "stopped" /\ c \in deadlines \cap late /\ socket[c] = "open"
             /\ socket' = [socket EXCEPT ![c] = "shut"]
             /\ UNCHANGED <<server, pc, late, deadlines, leases>>

-----------------------------------------------------------------------------
(* server_close                                                            *)

\* An interrupt ends serve_forever; a socket it has in hand is closed.
Interrupt == /\ phase = "serving" /\ phase' = "draining"
             /\ pc' = [c \in Conns |-> IF pc[c] \in Accepting THEN "none" ELSE pc[c]]
             /\ socket' = [c \in Conns |-> IF pc[c] \in Accepting THEN "closed" ELSE socket[c]]
             /\ UNCHANGED <<capacity, rejects, queue, rejectQueue, late, deadlines, leases>>

\* The executors have drained; only then is the watchdog closed.
Stop == /\ phase = "draining" /\ pc = [c \in Conns |-> "none"]
        /\ phase' = "stopped"
        /\ deadlines' = {}
        /\ UNCHANGED <<capacity, rejects, queue, rejectQueue, pc, late, socket, leases>>

Worker(c) == ReadEnds(c) \/ TryAcquire(c) \/ Verify(c) \/ Finish(c)
Acceptor(c) == Acquire(c) \/ Submit(c) \/ SubmitFails(c)
Watchdog(c) == DeadlinePasses(c) \/ Expire(c)

Next == \/ PickUp \/ RejectOverload \/ Interrupt \/ Stop
        \/ \E c \in Conns : GetRequest(c) \/ Acceptor(c) \/ Worker(c) \/ ClientActs(c) \/ Watchdog(c)

Spec == Init /\ [][Next]_vars

\* The threads of the service run and time passes; clients need not do anything.
Fairness == /\ WF_vars(PickUp) /\ WF_vars(RejectOverload) /\ WF_vars(Stop)
            /\ \A c \in Conns : WF_vars(Acceptor(c) \/ Worker(c)) /\ WF_vars(Watchdog(c))

FairSpec == Spec /\ Fairness

-----------------------------------------------------------------------------
(* Properties                                                              *)

TypeOK == /\ phase \in {"serving", "draining", "stopped"}
          /\ pc \in [Conns -> Accepting \cup AtWork \cup {"none", "queued", "rejecting"}]
          /\ late \subseteq Conns /\ socket \in [Conns -> {"open", "shut", "closed"}]
          /\ capacity \in 0..(Workers + MaxPending) /\ rejects \in 0..MaxRejects
          /\ queue \in BoundedSeq(Conns, Workers + MaxPending)
          /\ rejectQueue \in BoundedSeq(Conns, MaxRejects)
          /\ deadlines \subseteq Conns
          /\ leases \in 0..MaxConcurrent

\* However a request leaves the service - answered, refused at any of the bounds,
\* timed out in the queue or in a read, or turned away by an executor - exactly the
\* permits it took are given back and its deadline is forgotten, so that none of the
\* three bounds ever shrinks or is exceeded.
Holding(states) == Cardinality({c \in Conns : pc[c] \in states})
PermitsBalanced ==
  /\ TypeOK
  /\ leases = MaxConcurrent - Holding({"hashing"})
  /\ phase = "serving" =>
       /\ capacity = Workers + MaxPending - Holding({"granted", "queued"} \cup AtWork)
       /\ rejects = MaxRejects - Holding({"overload", "rejecting"})
       /\ deadlines = {c \in Conns : pc[c] # "none"}

\* A connection is always closed in the end, whatever its client does or fails to
\* do and however many others there are.
ConnectionEnds == \A c \in Conns : (pc[c] # "none") ~> (pc[c] = "none")

\* server_close terminates although clients keep their connections open: the
\* watchdog outlives the executors it is needed to drain.
CloseTerminates == phase = "draining" ~> phase = "stopped"

=============================================================================
