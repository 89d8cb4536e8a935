------------------------------ MODULE ActionLedger ------------------------------
(***************************************************************************)
(* What control actions promise, independently of requests, duplicates,    *)
(* contexts, crashes and lost answers: a ledger with one entry for each    *)
(* idempotency key.  An action is entered before anything is done about    *)
(* it; the runtime is changed while its entry says "running", once; an     *)
(* entry moves forward only, and never becomes that of another action; an  *)
(* outcome is reported only as the entry then has it, and once it has been *)
(* reported the entry is closed.                                           *)
(***************************************************************************)
EXTENDS Naturals

CONSTANTS Keys, Operations

VARIABLES
    rows,       \* rows[k]: the action entered under k, and its status
    calls,      \* calls[k]: how often the runtime was changed for it
    tombstones, \* the keys whose agent is recorded as deleted
    audit       \* what has been reported: <<key, event>>

Init ==
    /\ rows = [k \in Keys |-> [status |-> "none", op |-> "none", dryRun |-> FALSE]]
    /\ calls = [k \in Keys |-> 0]
    /\ tombstones = {}
    /\ audit = {}

Closed(k) == \E e \in audit : e[1] = k /\ e[2] # "requested"

Enter(k) ==
    /\ rows[k].status = "none"
    /\ \E op \in Operations, dryRun \in BOOLEAN, status \in {"queued", "rejected"} :
          rows' = [rows EXCEPT ![k] = [status |-> status, op |-> op, dryRun |-> dryRun]]
    /\ UNCHANGED <<calls, tombstones, audit>>

Move(k, from, to) ==
    /\ ~Closed(k)
    /\ rows[k].status = from
    /\ rows' = [rows EXCEPT ![k].status = to]
    /\ UNCHANGED <<calls, tombstones, audit>>

FinishDryRun(k) == rows[k].dryRun /\ Move(k, "queued", "succeeded")

Start(k) == ~rows[k].dryRun /\ Move(k, "queued", "running")

Succeed(k) == calls[k] = 1 /\ Move(k, "running", "succeeded")

\* Also of an action whose effect was not acknowledged.
Fail(k) == Move(k, "running", "failed")

\* The runtime is changed.
Apply(k) ==
    /\ ~Closed(k)
    /\ rows[k].status = "running" /\ calls[k] = 0
    /\ calls' = [calls EXCEPT ![k] = 1]
    /\ UNCHANGED <<rows, tombstones, audit>>

Tombstone(k) ==
    /\ ~Closed(k)
    /\ rows[k].status = "running" /\ rows[k].op = "delete_agent" /\ calls[k] = 1
    /\ tombstones' = tombstones \cup {k}
    /\ UNCHANGED <<rows, calls, audit>>

\* What may be reported of an entry; a failure also when it could not be entered.
Reportable(row) ==
    CASE row.status = "queued"    -> {"requested"} \cup {e \in {"dry_run_succeeded"} : row.dryRun}
      [] row.status = "rejected"  -> {"rejected"}
      [] row.status = "running"   -> {"failed"}
      [] row.status = "failed"    -> {"failed"}
      [] row.status = "succeeded" -> IF row.dryRun THEN {"dry_run_succeeded"} ELSE {"succeeded"}

Report(k) ==
    /\ ~Closed(k)
    /\ rows[k].status # "none"
    /\ \E event \in Reportable(rows[k]) : audit' = audit \cup {<<k, event>>}
    /\ UNCHANGED <<rows, calls, tombstones>>

Next ==
    \E k \in Keys :
        \/ Enter(k) \/ FinishDryRun(k) \/ Start(k) \/ Apply(k) \/ Tombstone(k)
        \/ Succeed(k) \/ Fail(k) \/ Report(k)

Spec == Init /\ [][Next]_<<rows, calls, tombstones, audit>>
=============================================================================
