----------------------------- MODULE MemoryCalls -----------------------------
(***************************************************************************)
(* What SupermemoryClient promises its callers (spec 4.8), with the       *)
(* timers, the two awaits and the HTTP status abstracted away.  A call is *)
(* made once, is pending, and settles exactly once: it resolves or it     *)
(* rejects.  A write (an ingest or a profile upsert) resolves only when  *)
(* the service stored it.  A rejection says nothing about the service: a *)
(* write may be stored before its call rejects, or after it (an aborted  *)
(* request the service still handles).  A pending call always settles.   *)
(***************************************************************************)
CONSTANTS
    Calls,  \* the calls callers make
    Ops     \* the client's methods

VARIABLES
    calls,   \* calls[c]: "idle" | "pending" | "resolved" | "rejected"
    op,      \* op[c]: the method call c invoked, or "none"
    stored   \* stored[c]: the service has applied write c

avars == <<calls, op, stored>>

Writes == {"ingest", "upsertProfile"}

Init ==
    /\ calls = [c \in Calls |-> "idle"]
    /\ op = [c \in Calls |-> "none"]
    /\ stored = [c \in Calls |-> FALSE]

Call(c) ==
    /\ calls[c] = "idle"
    /\ calls' = [calls EXCEPT ![c] = "pending"]
    /\ \E o \in Ops : op' = [op EXCEPT ![c] = o]
    /\ UNCHANGED stored

\* The service applies a write, while its call is pending or after the
\* call has rejected; at most once.
Store(c) ==
    /\ op[c] \in Writes /\ ~stored[c]
    /\ calls[c] \in {"pending", "rejected"}
    /\ stored' = [stored EXCEPT ![c] = TRUE]
    /\ UNCHANGED <<calls, op>>

Resolve(c) ==
    /\ calls[c] = "pending"
    /\ op[c] \in Writes => stored[c]
    /\ calls' = [calls EXCEPT ![c] = "resolved"]
    /\ UNCHANGED <<op, stored>>

Reject(c) ==
    /\ calls[c] = "pending"
    /\ calls' = [calls EXCEPT ![c] = "rejected"]
    /\ UNCHANGED <<op, stored>>

Next == \E c \in Calls : Call(c) \/ Store(c) \/ Resolve(c) \/ Reject(c)

\* A pending call is settled by the client itself (rejecting is always
\* possible), so it settles whatever the service does.
Spec == Init /\ [][Next]_avars /\ \A c \in Calls : WF_avars(Resolve(c) \/ Reject(c))
=============================================================================
