----------------------------- MODULE ClientPool -----------------------------
(***************************************************************************)
(* What the smart client promises about the node clients it shares between *)
(* threads, without threads, locks or counters: clients are published,     *)
(* operations hold what was published when they began, a client taken out  *)
(* of circulation is parked, and it is freed (closed) only when no         *)
(* operation holds it.  Shutting down gives that up.                       *)
(***************************************************************************)
CONSTANTS Users         \* the threads that run operations

VARIABLES
    visible,            \* clients offered to new operations
    parked,             \* out of circulation, not freed yet
    freed,              \* closed
    holds,              \* what each operation in progress holds
    down                \* shutdown has begun

vars == <<visible, parked, freed, holds, down>>

InUse == UNION {holds[u] : u \in Users}

Init ==
    /\ visible = {} /\ parked = {} /\ freed = {}
    /\ holds = [u \in Users |-> {}]
    /\ down = FALSE

\* New clients appear, others leave circulation, some of those are freed.
Recycle ==
    LET new  == visible' \ visible
        gone == visible \ visible'
        free == freed' \ freed
    IN
    /\ ~down
    /\ new \cap (parked \cup freed) = {}
    /\ freed \subseteq freed'
    /\ free \subseteq parked \cup gone
    /\ free \cap InUse = {}
    /\ parked' = (parked \cup gone) \ free
    /\ UNCHANGED <<holds, down>>

Acquire(u) ==
    /\ holds' = [holds EXCEPT ![u] = visible]
    /\ UNCHANGED <<visible, parked, freed, down>>

\* An operation ends, and what only it held may be freed with it.
Release(u) ==
    LET free == freed' \ freed IN
    /\ holds' = [holds EXCEPT ![u] = {}]
    /\ freed \subseteq freed'
    /\ free \subseteq parked /\ parked' = parked \ free
    /\ ~down => free \cap UNION {holds'[v] : v \in Users} = {}
    /\ UNCHANGED <<visible, down>>

ShutDown ==
    /\ down' = TRUE
    /\ UNCHANGED <<visible, parked, freed, holds>>

\* After shutdown has begun clients may be freed under the operations, and
\* nobody promises to free what is parked; no client comes back to life.
Dismantle ==
    /\ down
    /\ freed \subseteq freed'
    /\ (visible' \ visible) \cap freed' = {}
    /\ UNCHANGED <<holds, down>>

Next ==
    \/ Recycle \/ ShutDown \/ Dismantle
    \/ \E u \in Users : Acquire(u) \/ Release(u)

Spec == Init /\ [][Next]_vars

-----------------------------------------------------------------------------
\* No operation holds a freed client before shutdown.
NoUseAfterFree == ~down => InUse \cap freed = {}
=============================================================================
