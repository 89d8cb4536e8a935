-------------------------------- MODULE Accounts --------------------------------
(***************************************************************************)
(* What authentication promises, independently of requests, locks, the     *)
(* login limiter and statements that fail: accounts and sessions that each *)
(* operation changes at one instant.  The first account gets the bootstrap *)
(* organization, and every later one an organization of its own; sessions  *)
(* are opened for accounts only; using a session defers its idle expiry,   *)
(* never beyond the expiry it was opened with; and a session that has been *)
(* logged out stays so, with one event of it.                              *)
(***************************************************************************)
EXTENDS Naturals

CONSTANTS Users, Sids, None, Idle, Absolute, Refresh

VARIABLES
    now,        \* the clock
    org,        \* org[u]: the organization of u's account, "none" if there is none
    sessions,   \* the sessions, by id
    logouts     \* logouts[s]: the events of the logout of s

accountVars == <<now, org, sessions, logouts>>

Init ==
    /\ now = 0
    /\ org = [u \in Users |-> "none"]
    /\ sessions = [s \in Sids |-> [user |-> None, revoked |-> FALSE, absolute |-> 0, idle |-> 0,
                                   seen |-> 0]]
    /\ logouts = [s \in Sids |-> 0]

IsOpen(s) == sessions[s].user # None

\* A session of u that was not there.
OpenSession(u, s) ==
    /\ ~IsOpen(s)
    /\ sessions' = [sessions EXCEPT ![s] = [user |-> u, revoked |-> FALSE, seen |-> now,
                                            absolute |-> now + Absolute, idle |-> now + Idle]]

SignUp(u, s) ==
    /\ org[u] = "none"
    /\ org' = [org EXCEPT ![u] = IF \A v \in Users : org[v] # "bootstrap" THEN "bootstrap"
                                 ELSE "own"]
    /\ OpenSession(u, s)
    /\ UNCHANGED <<now, logouts>>

LogIn(u, s) ==
    /\ org[u] # "none"
    /\ OpenSession(u, s)
    /\ UNCHANGED <<now, org, logouts>>

Use(s) ==
    /\ IsOpen(s)
    /\ sessions[s].seen + Refresh < now
    /\ \E idle \in {now + Idle, sessions[s].absolute} :
          /\ idle <= now + Idle /\ idle <= sessions[s].absolute
          /\ sessions' = [sessions EXCEPT ![s].idle = idle, ![s].seen = now]
    /\ UNCHANGED <<now, org, logouts>>

LogOut(s) ==
    /\ IsOpen(s) /\ ~sessions[s].revoked
    /\ sessions' = [sessions EXCEPT ![s].revoked = TRUE]
    /\ logouts' = [logouts EXCEPT ![s] = 1]
    /\ UNCHANGED <<now, org>>

Tick == now' = now + 1 /\ UNCHANGED <<org, sessions, logouts>>

Next ==
    \/ Tick
    \/ \E u \in Users, s \in Sids : SignUp(u, s) \/ LogIn(u, s)
    \/ \E s \in Sids : Use(s) \/ LogOut(s)

Spec == Init /\ [][Next]_accountVars
=============================================================================
