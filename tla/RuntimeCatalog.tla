--------------------------- MODULE RuntimeCatalog ---------------------------
(***************************************************************************)
(* What runtime synchronization promises about the imported agents,        *)
(* independently of locks, requests, failures and restarts: they change    *)
(* only by one complete snapshot at a time.  A snapshot makes every agent  *)
(* it contains fresh, with the status it reports, and makes every other    *)
(* known agent one successful sync older; an agent as old as the threshold *)
(* is stale; a known agent is never forgotten; and a control action may    *)
(* tombstone a known agent.                                                *)
(***************************************************************************)
EXTENDS Naturals

CONSTANTS Agents, RuntimeStatuses, MissingThreshold

VARIABLES
    status,     \* status[a]: what the catalogue says of a, "none" if nothing
    age,        \* age[a]: successful syncs since a was last observed
    successes   \* how many snapshots have been applied

Init ==
    /\ status = [a \in Agents |-> "none"]
    /\ age = [a \in Agents |-> 0]
    /\ successes = 0

ApplySnapshot ==
    \E seen \in SUBSET Agents :
        /\ age' = [a \in Agents |->
                     IF a \in seen \/ status[a] = "none" THEN 0 ELSE age[a] + 1]
        /\ \A a \in seen : status'[a] \in RuntimeStatuses
        /\ \A a \in Agents \ seen :
              status'[a] = IF age'[a] >= MissingThreshold THEN "stale" ELSE status[a]
        /\ DOMAIN status' = Agents
        /\ successes' = successes + 1

Tombstone(a) ==
    /\ status[a] # "none"
    /\ status' = [status EXCEPT ![a] = "disabled"]
    /\ UNCHANGED <<age, successes>>

Next == ApplySnapshot \/ \E a \in Agents : Tombstone(a)

Spec == Init /\ [][Next]_<<status, age, successes>>
=============================================================================
