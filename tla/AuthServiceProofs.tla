------------------------- MODULE AuthServiceProofs -------------------------
(***************************************************************************)
(* The permits of the authentication service, for any number of            *)
(* connections, workers and permits.                                       *)
(***************************************************************************)
EXTENDS AuthService, CommonLemmas

-----------------------------------------------------------------------------
(* The inductive invariant.                                                *)

Working  == {"granted", "queued"} \cup AtWork
Refusing == {"overload", "rejecting"}

\* No permit is given twice; while the service accepts none is lost either (an
\* interrupt of the accept loop may take one along).
Permits ==
  /\ leases + Holding({"hashing"}) = MaxConcurrent
  /\ capacity + Holding(Working) <= Workers + MaxPending
  /\ rejects + Holding(Refusing) <= MaxRejects
  /\ phase = "serving" => /\ capacity + Holding(Working) = Workers + MaxPending
                          /\ rejects + Holding(Refusing) = MaxRejects
                          /\ deadlines = {c \in Conns : pc[c] # "none"}

\* The executors' queues hold exactly the connections that wait in them, once.
Queues ==
  /\ queue \in InjSeqs(Conns) /\ ToSet(queue) = {c \in Conns : pc[c] = "queued"}
  /\ rejectQueue \in InjSeqs(Conns) /\ ToSet(rejectQueue) = {c \in Conns : pc[c] = "rejecting"}

\* The rest of the type invariant.
States == Accepting \cup AtWork \cup {"none", "queued", "rejecting"}
Types ==
  /\ phase \in {"serving", "draining", "stopped"}
  /\ pc \in [Conns -> States]
  /\ late \subseteq Conns /\ socket \in [Conns -> {"open", "shut", "closed"}]
  /\ capacity \in Nat /\ rejects \in Nat /\ leases \in Nat
  /\ deadlines \subseteq Conns

IInv == Types /\ Permits /\ Queues

-----------------------------------------------------------------------------
(* How the counts move.                                                    *)

\* A step of one connection changes the number that hold a permit by at most one.
LEMMA HoldingStep ==
  ASSUME ServiceAssumption, Types, NEW c \in Conns, NEW v, Goto(c, v), NEW S
  PROVE  /\ Holding(S) \in Nat
         /\ v \in S /\ pc[c] \notin S => Holding(S)' = Holding(S) + 1
         /\ v \notin S /\ pc[c] \in S => Holding(S)' = Holding(S) - 1
         /\ (v \in S <=> pc[c] \in S) => Holding(S)' = Holding(S)
<1> DEFINE A == {d \in Conns : pc[d] \in S}
           B == {d \in Conns : pc'[d] \in S}
<1>1. IsFiniteSet(A)
  BY FS_Subset DEF ServiceAssumption
<1>2. pc'[c] = v /\ \A d \in Conns : d # c => pc'[d] = pc[d]
  BY DEF Types, Goto
<1>3. /\ B \ {c} = A \ {c}
      /\ c \in A <=> pc[c] \in S
      /\ c \in B <=> v \in S
  BY <1>2
<1>4. Holding(S) = Cardinality(A) /\ Holding(S)' = Cardinality(B)
  BY DEF Holding
<1> HIDE DEF A, B
<1> QED
  BY <1>1, <1>3, <1>4, CountChange

\* Who stands still keeps its permit.
LEMMA HoldingSame ==
  ASSUME ServiceAssumption, NEW S PROVE Holding(S) \in Nat /\ (pc' = pc => Holding(S)' = Holding(S))
<1>1. IsFiniteSet({c \in Conns : pc[c] \in S})
  BY FS_Subset DEF ServiceAssumption
<1> QED
  BY <1>1, FS_CardinalityType DEF Holding

\* The three counts at once, for the three semaphores.
Hashes == Holding({"hashing"})
Works == Holding(Working)
Refusals == Holding(Refusing)

\* The counts stay when no connection moves.
LEMMA CountsSame ==
  ASSUME ServiceAssumption
  PROVE  /\ Hashes \in Nat /\ Works \in Nat /\ Refusals \in Nat
         /\ pc' = pc => Hashes' = Hashes /\ Works' = Works /\ Refusals' = Refusals
<1>1. Working' = Working /\ Refusing' = Refusing
  BY DEF Working, Refusing, AtWork
<1> QED
  BY <1>1, HoldingSame DEF Hashes, Works, Refusals

\* A connection that moves takes a unit from one count and gives it to another.
LEMMA CountsStep ==
  ASSUME ServiceAssumption, Types, NEW c \in Conns, NEW v \in States, Goto(c, v)
  PROVE  /\ Hashes' = Hashes + (IF v = "hashing" THEN 1 ELSE 0) - (IF pc[c] = "hashing" THEN 1 ELSE 0)
         /\ Works' = Works + (IF v \in Working THEN 1 ELSE 0) - (IF pc[c] \in Working THEN 1 ELSE 0)
         /\ Refusals' = Refusals + (IF v \in Refusing THEN 1 ELSE 0) - (IF pc[c] \in Refusing THEN 1 ELSE 0)
<1>1. /\ Hashes \in Nat
      /\ v = "hashing" /\ pc[c] # "hashing" => Hashes' = Hashes + 1
      /\ v # "hashing" /\ pc[c] = "hashing" => Hashes' = Hashes - 1
      /\ (v = "hashing" <=> pc[c] = "hashing") => Hashes' = Hashes
  BY HoldingStep DEF Hashes
<1>2. /\ Works \in Nat
      /\ v \in Working /\ pc[c] \notin Working => Works' = Works + 1
      /\ v \notin Working /\ pc[c] \in Working => Works' = Works - 1
      /\ (v \in Working <=> pc[c] \in Working) => Works' = Works
  BY HoldingStep DEF Works
<1>3. /\ Refusals \in Nat
      /\ v \in Refusing /\ pc[c] \notin Refusing => Refusals' = Refusals + 1
      /\ v \notin Refusing /\ pc[c] \in Refusing => Refusals' = Refusals - 1
      /\ (v \in Refusing <=> pc[c] \in Refusing) => Refusals' = Refusals
  BY HoldingStep DEF Refusals
<1>4. Hashes' = Hashes + (IF v = "hashing" THEN 1 ELSE 0) - (IF pc[c] = "hashing" THEN 1 ELSE 0)
  BY <1>1
<1>5. Works' = Works + (IF v \in Working THEN 1 ELSE 0) - (IF pc[c] \in Working THEN 1 ELSE 0)
  BY <1>2
<1>6. Refusals' = Refusals + (IF v \in Refusing THEN 1 ELSE 0) - (IF pc[c] \in Refusing THEN 1 ELSE 0)
  BY <1>3
<1> QED
  BY <1>4, <1>5, <1>6

-----------------------------------------------------------------------------
(* The inductive invariant is one.                                         *)

\* At the start no connection holds anything.
LEMMA InitIInv == ServiceAssumption /\ Init => IInv
<1> SUFFICES ASSUME ServiceAssumption, Init PROVE IInv
  OBVIOUS
<1>1. \A S : (Holding(S) = 0) \/ "none" \in S
  <2> SUFFICES ASSUME NEW S, "none" \notin S PROVE Holding(S) = 0
    OBVIOUS
  <2>1. {c \in Conns : pc[c] \in S} = {}
    BY DEF Init
  <2> QED
    BY <2>1, FS_EmptySet DEF Holding
<1>2. Holding({"hashing"}) = 0 /\ Holding(Working) = 0 /\ Holding(Refusing) = 0
  BY <1>1 DEF Working, Refusing, AtWork
<1>3. Types
  BY DEF Init, Types, States, ServiceAssumption
<1>4. Permits
  BY <1>2 DEF Permits, Init, ServiceAssumption
<1>5. Queues
  BY InjSeqEmpty DEF Queues, Init
<1> QED
  BY <1>3, <1>4, <1>5 DEF IInv
\* What is waiting in a queue does not move by itself.
LEMMA QueuesKept ==
  ASSUME Types, Queues, NEW c \in Conns, NEW v, Goto(c, v), UNCHANGED <<queue, rejectQueue>>,
         {pc[c], v} \cap {"queued", "rejecting"} = {}
  PROVE  Queues'
<1>1. pc'[c] = v /\ \A d \in Conns : d # c => pc'[d] = pc[d]
  BY DEF Types, Goto
<1>2. /\ {d \in Conns : pc'[d] = "queued"} = {d \in Conns : pc[d] = "queued"}
      /\ {d \in Conns : pc'[d] = "rejecting"} = {d \in Conns : pc[d] = "rejecting"}
  BY <1>1
<1> QED
  BY <1>2 DEF Queues

\* Which connections the watchdog looks after, while the service accepts.
LEMMA Watched ==
  ASSUME Types, NEW c \in Conns, NEW v, Goto(c, v), deadlines = {d \in Conns : pc[d] # "none"}
  PROVE  /\ v # "none" => {d \in Conns : pc'[d] # "none"} = deadlines \cup {c}
         /\ v = "none" => {d \in Conns : pc'[d] # "none"} = deadlines \ {c}
  BY DEF Types, Goto

\* Every step keeps the invariant: one case per action.
LEMMA NextIInv == ServiceAssumption /\ IInv /\ [Next]_vars => IInv'
<1> SUFFICES ASSUME ServiceAssumption, IInv, [Next]_vars PROVE IInv'
  OBVIOUS
<1> USE DEF IInv
<1>0. /\ Workers \in Nat /\ MaxPending \in Nat /\ MaxRejects \in Nat /\ MaxConcurrent \in Nat
      /\ Workers + MaxPending \in Nat
  BY DEF ServiceAssumption
<1>c. Hashes \in Nat /\ Works \in Nat /\ Refusals \in Nat
  BY CountsSame
<1>p. /\ Permits <=>
         /\ leases + Hashes = MaxConcurrent
         /\ capacity + Works <= Workers + MaxPending
         /\ rejects + Refusals <= MaxRejects
         /\ phase = "serving" => /\ capacity + Works = Workers + MaxPending
                                 /\ rejects + Refusals = MaxRejects
                                 /\ deadlines = {c \in Conns : pc[c] # "none"}
      /\ Permits' <=>
         /\ leases' + Hashes' = MaxConcurrent
         /\ capacity' + Works' <= Workers + MaxPending
         /\ rejects' + Refusals' <= MaxRejects
         /\ phase' = "serving" => /\ capacity' + Works' = Workers + MaxPending
                                  /\ rejects' + Refusals' = MaxRejects
                                  /\ deadlines' = {c \in Conns : pc'[c] # "none"}
  BY DEF Permits, Hashes, Works, Refusals
<1>s. \A x : /\ x \in Working <=> x \in {"granted", "queued", "reading", "password", "hashing", "closing"}
             /\ x \in Refusing <=> x \in {"overload", "rejecting"}
             /\ x \in States <=> x \in {"none", "accepted", "overload", "rejecting"} \cup
                                        {"granted", "queued", "reading", "password", "hashing", "closing"}
  BY DEF Working, Refusing, States, AtWork, Accepting
<1>t. Types /\ Permits /\ Queues
  OBVIOUS
<1>1. ASSUME NEW c \in Conns, GetRequest(c) PROVE IInv'
  <2>1. Goto(c, "accepted") /\ "accepted" \in States /\ c \in Conns /\ pc[c] = "none"
    BY <1>1, <1>s, <1>t DEF GetRequest, Types
  <2>2. Types'
    BY <1>1, <1>t, <2>1
       DEF Types, GetRequest, Goto, Unregister, CloseRequest, Release, ReleaseReject, server
  <2>3. Permits'
    <3>1. phase = "serving" => {d \in Conns : pc'[d] # "none"} = deadlines \cup {c}
      BY <1>t, <1>p, <2>1, Watched
    <3> QED
      BY <1>1, <1>0, <1>c, <1>p, <1>s, <1>t, <2>1, <3>1, CountsStep
         DEF GetRequest, Unregister, Release, ReleaseReject, server, Types
  <2>4. Queues'
    BY <1>1, <1>t, <2>1, QueuesKept DEF GetRequest, server
  <2> QED
    BY <2>2, <2>3, <2>4
<1>2. ASSUME NEW c \in Conns, Acquire(c) PROVE IInv'
  <2>0. PICK v \in {"granted", "overload", "none"} :
          /\ Goto(c, v) /\ phase = "serving" /\ pc[c] = "accepted"
          /\ UNCHANGED <<phase, queue, rejectQueue, leases>>
          /\ v = "granted" => /\ capacity > 0 /\ capacity' = capacity - 1
                              /\ UNCHANGED <<rejects, deadlines, late, socket>>
          /\ v = "overload" => /\ rejects > 0 /\ rejects' = rejects - 1
                               /\ UNCHANGED <<capacity, deadlines, late, socket>>
          /\ v = "none" => Unregister(c) /\ CloseRequest(c) /\ UNCHANGED <<capacity, rejects>>
    BY <1>2 DEF Acquire
  <2>1. Goto(c, v) /\ v \in States /\ c \in Conns /\ pc[c] = "accepted"
    BY <2>0, <1>s
  <2>2. Types'
    BY <2>0, <2>1, <1>t DEF Types, Goto, Unregister, CloseRequest
  <2>3. Permits'
    <3>1. {d \in Conns : pc'[d] # "none"} = IF v = "none" THEN deadlines \ {c} ELSE deadlines \cup {c}
      BY <1>t, <1>p, <2>0, Watched
    <3>2. c \in deadlines
      BY <1>t, <1>p, <2>0
    <3> QED
      BY <1>0, <1>c, <1>p, <1>s, <1>t, <2>0, <2>1, <3>1, <3>2, CountsStep DEF Unregister, Types
  <2>4. Queues'
    BY <1>t, <2>0, QueuesKept
  <2> QED
    BY <2>2, <2>3, <2>4
<1>3. ASSUME NEW c \in Conns, Submit(c) PROVE IInv'
  <2>0. PICK v \in {"queued", "rejecting"} :
          /\ Goto(c, v) /\ phase = "serving"
          /\ UNCHANGED <<phase, capacity, rejects, late, socket, deadlines, leases>>
          /\ v = "queued" => pc[c] = "granted" /\ queue' = Append(queue, c) /\ UNCHANGED rejectQueue
          /\ v = "rejecting" => pc[c] = "overload" /\ rejectQueue' = Append(rejectQueue, c) /\ UNCHANGED queue
    BY <1>3 DEF Submit
  <2>1. v \in States /\ pc[c] \in {"granted", "overload"}
    BY <2>0, <1>s
  <2>2. Types'
    BY <2>0, <2>1, <1>t DEF Types, Goto
  <2>3. Permits'
    <3>1. {d \in Conns : pc'[d] # "none"} = deadlines \cup {c} /\ c \in deadlines
      BY <1>t, <1>p, <2>0, Watched
    <3>2. Hashes' = Hashes /\ Works' = Works /\ Refusals' = Refusals
      <4>1. /\ v # "hashing" /\ pc[c] # "hashing"
            /\ v \in Working <=> pc[c] \in Working
            /\ v \in Refusing <=> pc[c] \in Refusing
        BY <1>s, <2>0
      <4>2. /\ Hashes' = Hashes + (IF v = "hashing" THEN 1 ELSE 0) - (IF pc[c] = "hashing" THEN 1 ELSE 0)
            /\ Works' = Works + (IF v \in Working THEN 1 ELSE 0) - (IF pc[c] \in Working THEN 1 ELSE 0)
            /\ Refusals' = Refusals + (IF v \in Refusing THEN 1 ELSE 0) - (IF pc[c] \in Refusing THEN 1 ELSE 0)
        BY <1>t, <2>0, <2>1, CountsStep
      <4> QED
        BY <1>c, <4>1, <4>2
    <3> QED
      BY <1>p, <1>t, <2>0, <3>1, <3>2
  <2>4. Queues'
    <3>1. pc'[c] = v /\ \A d \in Conns : d # c => pc'[d] = pc[d]
      BY <1>t, <2>0 DEF Types, Goto
    <3>2. CASE v = "queued"
      <4>1. /\ {d \in Conns : pc'[d] = "queued"} = {d \in Conns : pc[d] = "queued"} \cup {c}
            /\ {d \in Conns : pc'[d] = "rejecting"} = {d \in Conns : pc[d] = "rejecting"}
            /\ c \notin ToSet(queue)
        BY <2>0, <3>1, <3>2, <1>t DEF Queues
      <4>2. queue \in InjSeqs(Conns) /\ queue' = Append(queue, c) /\ rejectQueue' = rejectQueue
        BY <2>0, <3>2, <1>t DEF Queues
      <4>3. queue' \in InjSeqs(Conns) /\ ToSet(queue') = ToSet(queue) \cup {c}
        BY <1>3, <4>1, <4>2, InjSeqAppend
      <4> QED
        BY <4>1, <4>2, <4>3, <1>t, Zenon DEF Queues
    <3>3. CASE v = "rejecting"
      <4>1. /\ {d \in Conns : pc'[d] = "rejecting"} = {d \in Conns : pc[d] = "rejecting"} \cup {c}
            /\ {d \in Conns : pc'[d] = "queued"} = {d \in Conns : pc[d] = "queued"}
            /\ c \notin ToSet(rejectQueue)
        BY <2>0, <3>1, <3>3, <1>t DEF Queues
      <4>2. rejectQueue \in InjSeqs(Conns) /\ rejectQueue' = Append(rejectQueue, c) /\ queue' = queue
        BY <2>0, <3>3, <1>t DEF Queues
      <4>3. rejectQueue' \in InjSeqs(Conns) /\ ToSet(rejectQueue') = ToSet(rejectQueue) \cup {c}
        BY <1>3, <4>1, <4>2, InjSeqAppend
      <4> QED
        BY <4>1, <4>2, <4>3, <1>t, Zenon DEF Queues
    <3> QED
      BY <3>2, <3>3
  <2> QED
    BY <2>2, <2>3, <2>4
<1>4. ASSUME NEW c \in Conns, SubmitFails(c) PROVE IInv'
  <2>1. Goto(c, "none") /\ "none" \in States /\ c \in Conns /\ pc[c] \in {"granted", "overload"}
    BY <1>4, <1>s, <1>t DEF SubmitFails, Types
  <2>2. Types'
    BY <1>4, <1>t, <2>1
       DEF Types, SubmitFails, Goto, Unregister, CloseRequest, Release, ReleaseReject, server
  <2>3. Permits'
    <3>1. phase = "serving" => {d \in Conns : pc'[d] # "none"} = deadlines \ {c}
      BY <1>t, <1>p, <2>1, Watched
    <3> QED
      BY <1>4, <1>0, <1>c, <1>p, <1>s, <1>t, <2>1, <3>1, CountsStep
         DEF SubmitFails, Unregister, Release, ReleaseReject, server, Types
  <2>4. Queues'
    BY <1>4, <1>t, <2>1, QueuesKept DEF SubmitFails, server
  <2> QED
    BY <2>2, <2>3, <2>4
<1>5. ASSUME PickUp PROVE IInv'
  <2> DEFINE c == Head(queue)
             v == IF c \in late THEN "closing" ELSE "reading"
  <2>0. c \in Conns /\ c \in ToSet(queue) /\ Tail(queue) \in InjSeqs(Conns) /\ ToSet(Tail(queue)) = ToSet(queue) \ {c}
    BY <1>5, <1>t, InjSeqTail DEF PickUp, Queues
  <2>1. /\ Goto(c, v) /\ v \in States /\ v \in {"closing", "reading"} /\ pc[c] = "queued"
        /\ queue' = Tail(queue)
        /\ UNCHANGED <<phase, capacity, rejects, rejectQueue, late, socket, deadlines, leases>>
    BY <1>5, <1>s, <1>t, <2>0 DEF PickUp, Queues
  <2> HIDE DEF v, c
  <2>2. Types'
    BY <2>0, <2>1, <1>t DEF Types, Goto
  <2>3. Permits'
    <3>1. phase = "serving" => {d \in Conns : pc'[d] # "none"} = deadlines \cup {c} /\ c \in deadlines
      BY <1>t, <1>p, <2>0, <2>1, Watched
    <3>2. Hashes' = Hashes /\ Works' = Works /\ Refusals' = Refusals
      BY <1>c, <1>s, <1>t, <2>0, <2>1, CountsStep
    <3> QED
      BY <1>p, <1>t, <2>1, <3>1, <3>2
  <2>4. Queues'
    <3>1. pc'[c] = v /\ \A d \in Conns : d # c => pc'[d] = pc[d]
      BY <1>t, <2>0, <2>1 DEF Types, Goto
    <3>2. /\ {d \in Conns : pc'[d] = "queued"} = {d \in Conns : pc[d] = "queued"} \ {c}
          /\ {d \in Conns : pc'[d] = "rejecting"} = {d \in Conns : pc[d] = "rejecting"}
      BY <2>0, <2>1, <3>1
    <3>3. queue' = Tail(queue) /\ rejectQueue' = rejectQueue
      BY <2>1
    <3> QED
      BY <2>0, <3>2, <3>3, <1>t, Zenon DEF Queues
  <2> QED
    BY <2>2, <2>3, <2>4
<1>6. ASSUME NEW c \in Conns, ClientActs(c) PROVE IInv'
  <2>0. PICK v \in Outcomes : Goto(c, v)
    BY <1>6 DEF ClientActs
  <2>1. v \in {"password", "closing"} /\ v \in States /\ pc[c] = "reading"
    BY <1>6, <1>s, <2>0 DEF ClientActs, Outcomes
  <2>2. Types'
    BY <1>6, <2>0, <2>1, <1>t DEF Types, Goto, ClientActs, server
  <2>3. Permits'
    <3>1. phase = "serving" => {d \in Conns : pc'[d] # "none"} = deadlines \cup {c} /\ c \in deadlines
      BY <1>t, <1>p, <2>0, <2>1, Watched
    <3> QED
      BY <1>6, <1>0, <1>c, <1>p, <1>s, <1>t, <2>0, <2>1, <3>1, CountsStep
         DEF Types, ClientActs, server
  <2>4. Queues'
    BY <1>6, <1>t, <2>0, <2>1, QueuesKept DEF ClientActs, server
  <2> QED
    BY <2>2, <2>3, <2>4
<1>7. ASSUME NEW c \in Conns, ReadEnds(c) PROVE IInv'
  <2>1. Goto(c, "closing") /\ "closing" \in States /\ c \in Conns /\ pc[c] = "reading"
    BY <1>7, <1>s, <1>t DEF ReadEnds, Types
  <2>2. Types'
    BY <1>7, <1>t, <2>1
       DEF Types, ReadEnds, Goto, Unregister, CloseRequest, Release, ReleaseReject, server
  <2>3. Permits'
    <3>1. phase = "serving" => {d \in Conns : pc'[d] # "none"} = deadlines \cup {c}
      BY <1>t, <1>p, <2>1, Watched
    <3> QED
      BY <1>7, <1>0, <1>c, <1>p, <1>s, <1>t, <2>1, <3>1, CountsStep
         DEF ReadEnds, Unregister, Release, ReleaseReject, server, Types
  <2>4. Queues'
    BY <1>7, <1>t, <2>1, QueuesKept DEF ReadEnds, server
  <2> QED
    BY <2>2, <2>3, <2>4
<1>8. ASSUME NEW c \in Conns, TryAcquire(c) PROVE IInv'
  <2>0. PICK v \in {"closing", "hashing"} :
          /\ Goto(c, v) /\ pc[c] = "password" /\ UNCHANGED <<server, late, socket, deadlines>>
          /\ v = "closing" => UNCHANGED leases
          /\ v = "hashing" => leases > 0 /\ leases' = leases - 1
    BY <1>8 DEF TryAcquire
  <2>1. v \in States
    BY <1>s, <2>0
  <2>2. Types'
    BY <2>0, <2>1, <1>t DEF Types, Goto, server
  <2>3. Permits'
    <3>1. phase = "serving" => {d \in Conns : pc'[d] # "none"} = deadlines \cup {c} /\ c \in deadlines
      BY <1>t, <1>p, <2>0, Watched
    <3> QED
      BY <1>0, <1>c, <1>p, <1>s, <1>t, <2>0, <2>1, <3>1, CountsStep DEF Types, server
  <2>4. Queues'
    BY <1>t, <2>0, QueuesKept DEF server
  <2> QED
    BY <2>2, <2>3, <2>4
<1>9. ASSUME NEW c \in Conns, Verify(c) PROVE IInv'
  <2>1. Goto(c, "closing") /\ "closing" \in States /\ c \in Conns /\ pc[c] = "hashing"
    BY <1>9, <1>s, <1>t DEF Verify, Types
  <2>2. Types'
    BY <1>9, <1>t, <2>1
       DEF Types, Verify, Goto, Unregister, CloseRequest, Release, ReleaseReject, server
  <2>3. Permits'
    <3>1. phase = "serving" => {d \in Conns : pc'[d] # "none"} = deadlines \cup {c}
      BY <1>t, <1>p, <2>1, Watched
    <3> QED
      BY <1>9, <1>0, <1>c, <1>p, <1>s, <1>t, <2>1, <3>1, CountsStep
         DEF Verify, Unregister, Release, ReleaseReject, server, Types
  <2>4. Queues'
    BY <1>9, <1>t, <2>1, QueuesKept DEF Verify, server
  <2> QED
    BY <2>2, <2>3, <2>4
<1>10. ASSUME NEW c \in Conns, Finish(c) PROVE IInv'
  <2>1. Goto(c, "none") /\ "none" \in States /\ c \in Conns /\ pc[c] = "closing"
    BY <1>10, <1>s, <1>t DEF Finish, Types
  <2>2. Types'
    BY <1>10, <1>t, <2>1
       DEF Types, Finish, Goto, Unregister, CloseRequest, Release, ReleaseReject, server
  <2>3. Permits'
    <3>1. phase = "serving" => {d \in Conns : pc'[d] # "none"} = deadlines \ {c}
      BY <1>t, <1>p, <2>1, Watched
    <3> QED
      BY <1>10, <1>0, <1>c, <1>p, <1>s, <1>t, <2>1, <3>1, CountsStep
         DEF Finish, Unregister, Release, ReleaseReject, server, Types
  <2>4. Queues'
    BY <1>10, <1>t, <2>1, QueuesKept DEF Finish, server
  <2> QED
    BY <2>2, <2>3, <2>4
<1>11. ASSUME RejectOverload PROVE IInv'
  <2> DEFINE c == Head(rejectQueue)
  <2>0. /\ c \in Conns /\ c \in ToSet(rejectQueue) /\ Tail(rejectQueue) \in InjSeqs(Conns)
        /\ ToSet(Tail(rejectQueue)) = ToSet(rejectQueue) \ {c}
    BY <1>11, <1>t, InjSeqTail DEF RejectOverload, Queues
  <2>1. /\ Goto(c, "none") /\ "none" \in States /\ pc[c] = "rejecting"
        /\ rejectQueue' = Tail(rejectQueue) /\ Unregister(c) /\ CloseRequest(c) /\ ReleaseReject
        /\ UNCHANGED <<phase, capacity, queue, leases>>
    BY <1>11, <1>s, <1>t, <2>0 DEF RejectOverload, Queues
  <2> HIDE DEF c
  <2>2. Types'
    BY <2>0, <2>1, <1>t DEF Types, Goto, Unregister, CloseRequest, ReleaseReject
  <2>3. Permits'
    <3>1. phase = "serving" => {d \in Conns : pc'[d] # "none"} = deadlines \ {c}
      BY <1>t, <1>p, <2>0, <2>1, Watched
    <3>2. Hashes' = Hashes /\ Works' = Works /\ Refusals' = Refusals - 1
      BY <1>c, <1>s, <1>t, <2>0, <2>1, CountsStep
    <3>3. /\ rejects' = rejects + 1 /\ deadlines' = deadlines \ {c} /\ rejects \in Nat
          /\ phase' = phase /\ capacity' = capacity /\ leases' = leases
      BY <1>t, <2>1 DEF Unregister, ReleaseReject, Types
    <3> QED
      BY <1>0, <1>c, <1>p, <1>t, <3>1, <3>2, <3>3
  <2>4. Queues'
    <3>1. pc'[c] = "none" /\ \A d \in Conns : d # c => pc'[d] = pc[d]
      BY <1>t, <2>0, <2>1 DEF Types, Goto
    <3>2. /\ {d \in Conns : pc'[d] = "rejecting"} = {d \in Conns : pc[d] = "rejecting"} \ {c}
          /\ {d \in Conns : pc'[d] = "queued"} = {d \in Conns : pc[d] = "queued"}
      BY <2>0, <2>1, <3>1
    <3>3. rejectQueue' = Tail(rejectQueue) /\ queue' = queue
      BY <2>1
    <3> QED
      BY <2>0, <3>2, <3>3, <1>t, Zenon DEF Queues
  <2> QED
    BY <2>2, <2>3, <2>4
<1>12. ASSUME NEW c \in Conns, DeadlinePasses(c) PROVE IInv'
  <2>1. pc' = pc /\ UNCHANGED <<queue, rejectQueue, capacity, rejects, leases>>
    BY <1>12 DEF DeadlinePasses, server
  <2>2. Types'
    BY <1>12, <1>t, <2>1 DEF Types, DeadlinePasses, server
  <2>3. Permits'
    BY <1>12, <1>p, <1>t, <2>1, CountsSame DEF DeadlinePasses, server
  <2>4. Queues'
    BY <1>t, <2>1 DEF Queues
  <2> QED
    BY <2>2, <2>3, <2>4
<1>13. ASSUME NEW c \in Conns, Expire(c) PROVE IInv'
  <2>1. pc' = pc /\ UNCHANGED <<queue, rejectQueue, capacity, rejects, leases>>
    BY <1>13 DEF Expire, server
  <2>2. Types'
    BY <1>13, <1>t, <2>1 DEF Types, Expire, server
  <2>3. Permits'
    BY <1>13, <1>p, <1>t, <2>1, CountsSame DEF Expire, server
  <2>4. Queues'
    BY <1>t, <2>1 DEF Queues
  <2> QED
    BY <2>2, <2>3, <2>4
<1>14. ASSUME Interrupt PROVE IInv'
  <2>1. /\ phase' = "draining" /\ UNCHANGED <<capacity, rejects, queue, rejectQueue, late, deadlines, leases>>
        /\ \A c \in Conns : pc'[c] = IF pc[c] \in {"accepted", "granted", "overload"} THEN "none" ELSE pc[c]
    BY <1>14 DEF Interrupt, Accepting
  <2>2. Types'
    BY <1>14, <1>s, <1>t DEF Interrupt, Types
  <2>3. Permits'
    <3>1. Hashes' = Hashes
      <4>1. {c \in Conns : pc'[c] \in {"hashing"}} = {c \in Conns : pc[c] \in {"hashing"}}
        BY <2>1
      <4> QED
        BY <4>1 DEF Hashes, Holding
    <3>2. Works' \in Nat /\ Works' <= Works
      <4>1. /\ {c \in Conns : pc'[c] \in Working} \subseteq {c \in Conns : pc[c] \in Working}
            /\ {c \in Conns : pc[c] \in Working} \subseteq Conns
        BY <2>1, <1>s
      <4> QED
        BY <4>1, FS_Subset, FS_CardinalityType DEF Works, Holding, ServiceAssumption
    <3>3. Refusals' \in Nat /\ Refusals' <= Refusals
      <4>1. /\ {c \in Conns : pc'[c] \in Refusing} \subseteq {c \in Conns : pc[c] \in Refusing}
            /\ {c \in Conns : pc[c] \in Refusing} \subseteq Conns
        BY <2>1, <1>s
      <4> QED
        BY <4>1, FS_Subset, FS_CardinalityType DEF Refusals, Holding, ServiceAssumption
    <3> QED
      <4>1. /\ leases' + Hashes' = MaxConcurrent /\ capacity' + Works' <= Workers + MaxPending
            /\ rejects' + Refusals' <= MaxRejects
        <5>1. capacity \in Nat /\ rejects \in Nat /\ capacity' = capacity /\ rejects' = rejects /\ leases' = leases
          BY <1>t, <2>1 DEF Types
        <5>2. /\ leases + Hashes = MaxConcurrent /\ capacity + Works <= Workers + MaxPending
              /\ rejects + Refusals <= MaxRejects
          BY <1>p, <1>t
        <5>0. ASSUME NEW k \in Nat, NEW m \in Nat, NEW n \in Nat, NEW b \in Nat, n <= m, k + m <= b
              PROVE  k + n <= b
          BY <5>0
        <5>3. capacity' + Works' <= Workers + MaxPending
          BY <1>0, <1>c, <3>2, <5>0, <5>1, <5>2, Zenon
        <5>4. rejects' + Refusals' <= MaxRejects
          BY <1>0, <1>c, <3>3, <5>0, <5>1, <5>2, Zenon
        <5> QED
          BY <3>1, <5>1, <5>2, <5>3, <5>4
      <4>2. phase' # "serving"
        BY <2>1
      <4> QED
        BY <1>p, <4>1, <4>2
  <2>4. Queues'
    <3>1. /\ {c \in Conns : pc'[c] = "queued"} = {c \in Conns : pc[c] = "queued"}
          /\ {c \in Conns : pc'[c] = "rejecting"} = {c \in Conns : pc[c] = "rejecting"}
      BY <2>1
    <3>2. queue' = queue /\ rejectQueue' = rejectQueue
      BY <2>1
    <3> QED
      BY <3>1, <3>2, <1>t, Zenon DEF Queues
  <2> QED
    BY <2>2, <2>3, <2>4
<1>15. ASSUME Stop PROVE IInv'
  <2>1. pc' = pc /\ UNCHANGED <<queue, rejectQueue, capacity, rejects, leases>>
    BY <1>15 DEF Stop, server
  <2>2. Types'
    BY <1>15, <1>t, <2>1 DEF Types, Stop, server
  <2>3. Permits'
    BY <1>15, <1>p, <1>t, <2>1, CountsSame DEF Stop, server
  <2>4. Queues'
    BY <1>t, <2>1 DEF Queues
  <2> QED
    BY <2>2, <2>3, <2>4
<1>16. ASSUME UNCHANGED vars PROVE IInv'
  <2>1. /\ pc' = pc /\ UNCHANGED <<phase, queue, rejectQueue, capacity, rejects, leases>>
        /\ UNCHANGED <<late, socket, deadlines>>
    BY <1>16 DEF vars, server
  <2> QED
    BY <1>p, <1>t, <2>1, CountsSame DEF Types, Queues
<1> QED
  BY <1>1, <1>2, <1>3, <1>4, <1>5, <1>6, <1>7, <1>8, <1>9, <1>10, <1>11, <1>12, <1>13, <1>14,
     <1>15, <1>16 DEF Next, Acceptor, Worker, Watchdog

\* The queues are as short as the semaphores make them.
LEMMA IInvTypes == ServiceAssumption /\ IInv => PermitsBalanced
<1> SUFFICES ASSUME ServiceAssumption, IInv PROVE PermitsBalanced
  OBVIOUS
<1>0. Types /\ Permits /\ Queues /\ Hashes \in Nat /\ Works \in Nat /\ Refusals \in Nat
  BY CountsSame DEF IInv
<1>1. ASSUME NEW S, NEW x \in S, NEW s \in InjSeqs(Conns), ToSet(s) = {c \in Conns : pc[c] = x}
      PROVE  Len(s) \in Nat /\ Len(s) <= Holding(S) /\ s \in [1..Len(s) -> Conns]
  <2>1. ToSet(s) \subseteq {c \in Conns : pc[c] \in S} /\ IsFiniteSet({c \in Conns : pc[c] \in S})
    BY <1>1, FS_Subset DEF ServiceAssumption
  <2>2. s \in InjSeqs({c \in Conns : pc[c] \in S})
    BY <1>1, <2>1 DEF InjSeqs, ToSet
  <2> QED
    BY <2>1, <2>2, InjSeqLength DEF Holding, InjSeqs
<1>2. \A s, n : Len(s) \in Nat /\ n \in Nat /\ Len(s) <= n /\ s \in [1..Len(s) -> Conns] => s \in BoundedSeq(Conns, n)
  BY DEF BoundedSeq, SeqOf
<1>3. queue \in BoundedSeq(Conns, Workers + MaxPending)
  <2>1. Len(queue) \in Nat /\ Len(queue) <= Works /\ queue \in [1..Len(queue) -> Conns]
    BY <1>0, <1>1 DEF Queues, Works, Working
  <2>2. Works <= Workers + MaxPending /\ Workers + MaxPending \in Nat
    BY <1>0 DEF Permits, Works, Types, ServiceAssumption
  <2> QED
    BY <1>0, <1>2, <2>1, <2>2
<1>4. rejectQueue \in BoundedSeq(Conns, MaxRejects)
  <2>1. Len(rejectQueue) \in Nat /\ Len(rejectQueue) <= Refusals /\ rejectQueue \in [1..Len(rejectQueue) -> Conns]
    BY <1>0, <1>1 DEF Queues, Refusals, Refusing
  <2>2. Refusals <= MaxRejects /\ MaxRejects \in Nat
    BY <1>0 DEF Permits, Refusals, Types, ServiceAssumption
  <2> QED
    BY <1>0, <1>2, <2>1, <2>2
<1>5. /\ capacity \in 0..(Workers + MaxPending) /\ rejects \in 0..MaxRejects /\ leases \in 0..MaxConcurrent
      /\ leases = MaxConcurrent - Hashes
      /\ phase = "serving" => /\ capacity = Workers + MaxPending - Works
                              /\ rejects = MaxRejects - Refusals
                              /\ deadlines = {c \in Conns : pc[c] # "none"}
  BY <1>0 DEF Permits, Hashes, Works, Refusals, Types, ServiceAssumption
<1>6. TypeOK
  BY <1>0, <1>3, <1>4, <1>5 DEF TypeOK, Types, States
<1> QED
  BY <1>5, <1>6 DEF PermitsBalanced, Hashes, Works, Refusals, Working, Refusing

-----------------------------------------------------------------------------
(* The theorems.                                                           *)

\* The invariant holds in every state the service reaches: no permit of the two
\* executors or of the PBKDF2 budget is given twice, and the work queues hold each
\* waiting connection once.
THEOREM PermitsInductive == Spec => []IInv
  BY InitIInv, NextIInv, ServiceAssumption, PTL DEF Spec

\* The semaphores of auth_service.py and of the password fallback always balance with
\* the connections that hold a permit, and the watchdog looks after exactly the open
\* connections, for every number of connections, workers and permits.
THEOREM PermitsAlwaysBalanced == Spec => []PermitsBalanced
<1>1. IInv => PermitsBalanced
  BY IInvTypes, ServiceAssumption
<1> QED
  BY <1>1, PermitsInductive, PTL
=============================================================================
