------------------------- MODULE IdempotentRotation -------------------------
(***************************************************************************)
(* What the recoverable rotation promises: a request turns the credential  *)
(* its page was rendered with into exactly one new credential, however     *)
(* often it is sent, and every answer carries that one.                    *)
(***************************************************************************)
CONSTANTS Requests, Credentials, None

VARIABLES current,              \* the credential in force
          base,                 \* the credential a request was rendered with, or None
          issued,               \* the credential a request stands for, or None
          told                  \* <<request, credential>>: answers given

Init == /\ current \in Credentials
        /\ base = [r \in Requests |-> None]
        /\ issued = [r \in Requests |-> None]
        /\ told = {}

Render(r) == /\ base[r] = None
             /\ base' = [base EXCEPT ![r] = current]
             /\ UNCHANGED <<current, issued, told>>

\* The first time a request takes effect ...
Rotate(r, c) == /\ issued[r] = None /\ current = base[r] /\ c # current
                /\ current' = c
                /\ issued' = [issued EXCEPT ![r] = c]
                /\ UNCHANGED <<base, told>>

\* ... and again after a host crash has undone it: the same credential.
Redo(r) == /\ issued[r] # None /\ current = base[r]
           /\ current' = issued[r]
           /\ UNCHANGED <<base, issued, told>>

Answer(r) == /\ issued[r] # None
             /\ told' = told \cup {<<r, issued[r]>>}
             /\ UNCHANGED <<current, base, issued>>

\* A host crash may undo rotations since the last durable save; one that is not in
\* force may be forgotten, at once or when its receipt goes.
Undo == \E q \in Requests :
           /\ issued[q] # None
           /\ current' = base[q]
           /\ \E lost \in SUBSET Requests :
                issued' = [r \in Requests |-> IF r \in lost THEN None ELSE issued[r]]
           /\ UNCHANGED <<base, told>>

Forget(r) == /\ issued[r] # None /\ current # issued[r]
             /\ issued' = [issued EXCEPT ![r] = None]
             /\ UNCHANGED <<current, base, told>>

\* An administrator rotates, to a credential nobody has seen.
Other == /\ \E c \in Credentials :
              /\ c # current /\ \A r \in Requests : c \notin {base[r], issued[r]}
              /\ current' = c
         /\ UNCHANGED <<base, issued, told>>

Next == \/ Other \/ Undo
        \/ \E r \in Requests : \/ Render(r) \/ Redo(r) \/ Answer(r) \/ Forget(r)
                               \/ \E c \in Credentials : Rotate(r, c)

vars == <<current, base, issued, told>>

Spec == Init /\ [][Next]_vars

=============================================================================
