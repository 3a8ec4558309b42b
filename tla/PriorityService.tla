--------------------------- MODULE PriorityService --------------------------
(***************************************************************************)
(* What the scheduler promises its callers, with no workers, tasks or      *)
(* queue: a submission waits, runs and has one outcome; never more than    *)
(* Bound run; the one that starts is the best of those that wait; a        *)
(* submission may be withdrawn while it waits or runs.                     *)
(***************************************************************************)
EXTENDS Integers, FiniteSets

CONSTANTS Job, Bound

VARIABLES
    waiting,   \* accepted, not started, not withdrawn
    running,   \* the submissions that hold one of the Bound places
    rank,      \* <<priority, arrival>>
    outcome    \* none, pending, result, exception or cancelled

svcVars == <<waiting, running, rank, outcome>>

Better(j, k) ==
    \/ rank[j][1] < rank[k][1]
    \/ rank[j][1] = rank[k][1] /\ rank[j][2] < rank[k][2]

SvcInit ==
    /\ waiting = {} /\ running = {}
    /\ rank = [j \in Job |-> <<0, 0>>]
    /\ outcome = [j \in Job |-> "none"]

\* The arrival is later than that of anything accepted before.
Accept(j) ==
    /\ outcome[j] = "none"
    /\ outcome' = [outcome EXCEPT ![j] = "pending"]
    /\ waiting' = waiting \cup {j}
    /\ rank'[j] \in Nat \X Nat
    /\ rank' = [rank EXCEPT ![j] = rank'[j]]
    /\ \A k \in Job : outcome[k] # "none" => rank[k][2] < rank'[j][2]
    /\ UNCHANGED running

\* One place changes hands: at most one submission gives its place up, with an
\* outcome if it was not withdrawn, and at most one takes a place.
Advance(done, next) ==
    /\ done \subseteq running /\ next \subseteq waiting
    /\ \A j \in next : \A k \in waiting \ next : Better(j, k)
    /\ running' = (running \ done) \cup next
    /\ waiting' = waiting \ next
    /\ Cardinality(running') <= Bound
    /\ \E o \in {"result", "exception", "cancelled"} :
          outcome' = [j \in Job |-> IF j \in done /\ outcome[j] = "pending" THEN o
                                    ELSE outcome[j]]
    /\ UNCHANGED rank

\* The submissions of J are withdrawn; those that run keep their places until
\* they have stopped.
Withdraw(J) ==
    /\ \A j \in J : outcome[j] = "pending"
    /\ outcome' = [j \in Job |-> IF j \in J THEN "cancelled" ELSE outcome[j]]
    /\ waiting' = waiting \ J
    /\ UNCHANGED <<running, rank>>

Singles(S) == {{}} \cup {{j} : j \in S}

SvcNext ==
    \/ \E j \in Job : Accept(j)
    \/ \E done \in Singles(running), next \in Singles(waiting) : Advance(done, next)
    \/ \E J \in SUBSET Job : Withdraw(J)

SvcSpec == SvcInit /\ [][SvcNext]_svcVars

============================================================================
