---------------------------------- MODULE Auth ----------------------------------
(***************************************************************************)
(* Accounts, browser sessions and the login limiter: AuthService over      *)
(* AuthRepository, behind the session middleware.                          *)
(*                                                                         *)
(* Requests are concurrent and take one step per transaction, statement or *)
(* call of the limiter.  A signup takes two, because it reads the members  *)
(* of the bootstrap organization before it writes, under a lock.  Tokens,  *)
(* hashes and passwords are left out: a session is named by its token and  *)
(* a password is right or wrong.                                           *)
(***************************************************************************)
EXTENDS Naturals, FiniteSets

CONSTANTS
    Users,      \* normalized email addresses
    Address,    \* the client address, the second key of the limiter
    Sids,       \* session ids, in the order they are given out
    Requests,   \* concurrent requests
    None,       \* no request, no user, no input
    Idle,       \* idle life of a session
    Absolute,   \* life of a session
    Refresh,    \* a session seen that long ago is refreshed
    Block,      \* how long a key is blocked
    Forget,     \* a key without failures for that long is forgotten
    AccountThreshold, AddressThreshold, \* failures that block a key
    Capacity,   \* keys the limiter keeps
    MaxTime,    \* bound: the clock stops there
    Faults      \* the faults the environment may inject

ASSUME SidsAssumption == Sids \subseteq Nat

ASSUME TimesAssumption ==
    /\ Idle \in Nat \ {0} /\ Absolute \in Nat /\ Idle <= Absolute
    /\ Refresh \in Nat /\ Block \in Nat \ {0} /\ Forget \in Nat /\ MaxTime \in Nat

ASSUME LimiterAssumption ==
    /\ AccountThreshold \in Nat \ {0} /\ AddressThreshold \in Nat \ {0}
    /\ Capacity \in Nat \ {0}
    /\ Address \notin Users

ASSUME AuthNoneAssumption == None \notin Users /\ None \notin Requests

\* A process serves finitely many requests at once.
ASSUME RequestsAssumption == IsFiniteSet(Requests) /\ Requests # {}

(***************************************************************************)
(*  abort     a request ends between two steps: its context is done or a   *)
(*            statement fails                                              *)
(***************************************************************************)
ASSUME AuthFaultsAssumption == Faults \subseteq {"abort"}

Keys == Users \cup {Address}

VARIABLES
    now,        \* the clock of server and database
    org,        \* org[u]: the organization that u owns
    sessions,   \* user_sessions
    attempts,   \* loginLimiter.attempts
    lock,       \* the request that holds pg_advisory_xact_lock
    pc,         \* pc[q]: the next step of request q
    req,        \* req[q]: its input, and what it has read so far
    late,       \* history: late[k] is the failures of k told since it is blocked
    logouts     \* history: logouts[s] is the user.logout events of s

authDb == <<org, sessions, logouts>>
limiter == <<attempts, late>>
authVars == <<now, authDb, limiter, lock, pc, req>>

NoSession == [user |-> None, revoked |-> FALSE, absolute |-> 0, idle |-> 0, seen |-> 0]
NoAttempt == [failures |-> 0, blocked |-> 0, updated |-> 0]

Inputs == [op : {"signup"}, user : Users, first : BOOLEAN]
          \cup [op : {"login"}, user : Users]
          \cup [op : {"use", "logout"}, sid : Sids]

AuthSteps == {"idle", "locking", "writing", "askingAddress", "checking", "tellingAccount",
              "tellingAddress", "clearing", "opening", "refreshing", "handling"}

AuthTypeOK ==
    /\ now \in 0..MaxTime
    /\ org \in [Users -> {"none", "bootstrap", "own"}]
    /\ sessions \in [Sids -> [user : Users \cup {None}, revoked : BOOLEAN, absolute : Nat,
                              idle : Nat, seen : Nat]]
    /\ attempts \in [Keys -> [failures : Nat, blocked : Nat, updated : Nat]]
    /\ lock \in Requests \cup {None}
    /\ pc \in [Requests -> AuthSteps]
    /\ req \in [Requests -> Inputs \cup {None}]
    /\ late \in [Keys -> Nat]
    /\ logouts \in [Sids -> Nat]

Init ==
    /\ now = 0
    /\ org = [u \in Users |-> "none"]
    /\ sessions = [s \in Sids |-> NoSession]
    /\ attempts = [k \in Keys |-> NoAttempt]
    /\ lock = None
    /\ pc = [q \in Requests |-> "idle"]
    /\ req = [q \in Requests |-> None]
    /\ late = [k \in Keys |-> 0]
    /\ logouts = [s \in Sids |-> 0]

GoTo(q, step) == pc' = [pc EXCEPT ![q] = step] /\ UNCHANGED req

Return(q) ==
    /\ pc' = [pc EXCEPT ![q] = "idle"]
    /\ req' = [req EXCEPT ![q] = None]

Begin(q, input, step) ==
    /\ pc[q] = "idle"
    /\ req' = [req EXCEPT ![q] = input]
    /\ pc' = [pc EXCEPT ![q] = step]

-----------------------------------------------------------------------------
(***************************************************************************)
(* Sessions.                                                               *)
(***************************************************************************)
Opened(s) == sessions[s].user # None

NextSid(s) == ~Opened(s) /\ \A r \in Sids : ~Opened(r) => s <= r

NewSession(u) == [user |-> u, revoked |-> FALSE, absolute |-> now + Absolute,
                  idle |-> now + Idle, seen |-> now]

\* The WHERE clause of FindSession.
Valid(s) == Opened(s) /\ ~sessions[s].revoked /\ sessions[s].absolute > now /\ sessions[s].idle > now

\* Mutant: the session is written back as the request read it, when it was valid.
Refreshed_Row(row) ==
    IF row.seen + Refresh < now
    THEN [user |-> row.user, revoked |-> FALSE, absolute |-> row.absolute, seen |-> now,
          idle |-> IF now + Idle < row.absolute THEN now + Idle ELSE row.absolute]
    ELSE row

\* The second statement of FindSession: LEAST(absolute_expires_at, now()+12h).
\* It does not ask again whether the session is still valid.
Refreshed(row) ==
    IF row.seen + Refresh < now
    THEN [user |-> row.user, revoked |-> row.revoked, absolute |-> row.absolute, seen |-> now,
          idle |-> IF now + Idle < row.absolute THEN now + Idle ELSE row.absolute]
    ELSE row

\* sessionAuth: a request whose session is not valid is answered 401 and ends.
Authenticate(q) ==
    /\ \E in \in [op : {"use", "logout"}, sid : Sids] :
          Valid(in.sid) /\ Begin(q, in, "refreshing")
    /\ UNCHANGED <<now, authDb, limiter, lock>>

\* A refresh that fails is ignored, as is what the handler of a route does.
RefreshSession(q) ==
    /\ pc[q] = "refreshing"
    /\ \/ sessions' = [sessions EXCEPT ![req[q].sid] = Refreshed(@)]
       \/ "abort" \in Faults /\ UNCHANGED sessions
    /\ IF req[q].op = "logout" THEN GoTo(q, "handling") ELSE Return(q)
    /\ UNCHANGED <<now, org, logouts, limiter, lock>>

RevokedNow(s) == ~sessions[s].revoked

Revoked(row) == [user |-> row.user, revoked |-> TRUE, absolute |-> row.absolute,
                 idle |-> row.idle, seen |-> row.seen]

\* One statement revokes the session and, of the row it revoked, writes the event.
RevokeSession(q) ==
    LET s == req[q].sid
    IN  /\ pc[q] = "handling"
        /\ sessions' = [sessions EXCEPT ![s] = Revoked(@)]
        /\ logouts' = [logouts EXCEPT ![s] = IF RevokedNow(s) THEN @ + 1 ELSE @]
        /\ Return(q)
        /\ UNCHANGED <<now, org, limiter, lock>>

-----------------------------------------------------------------------------
(***************************************************************************)
(* Signup.                                                                 *)
(***************************************************************************)
Signup(q) ==
    /\ \E u \in Users : Begin(q, [op |-> "signup", user |-> u, first |-> FALSE], "locking")
    /\ UNCHANGED <<now, authDb, limiter, lock>>

\* Mutant: signups are not serialized.
LockFree_NoLock(q) == TRUE

LockFree(q) == lock = None

\* The lock, and under it the two reads.
ReadMembers(q) ==
    /\ pc[q] = "locking"
    /\ LockFree(q)
    /\ IF org[req[q].user] # "none"
       THEN Return(q) /\ UNCHANGED lock
       ELSE /\ lock' = q
            /\ pc' = [pc EXCEPT ![q] = "writing"]
            /\ req' = [req EXCEPT ![q] = [op |-> "signup", user |-> req[q].user,
                                           first |-> \A u \in Users : org[u] # "bootstrap"]]
    /\ UNCHANGED <<now, authDb, limiter>>

\* User, credentials, organization, membership, session and event in one commit.
\* The email is unique.
CreateAccount(q) ==
    /\ pc[q] = "writing"
    /\ org[req[q].user] = "none"
    /\ org' = [org EXCEPT ![req[q].user] = IF req[q].first THEN "bootstrap" ELSE "own"]
    /\ \E s \in Sids : NextSid(s) /\ sessions' = [sessions EXCEPT ![s] = NewSession(req[q].user)]
    /\ lock' = None
    /\ Return(q)
    /\ UNCHANGED <<now, logouts, limiter>>

-----------------------------------------------------------------------------
(***************************************************************************)
(* Login.                                                                  *)
(***************************************************************************)
Known(k) == attempts[k] # NoAttempt

Forgotten(k) == Known(k) /\ now >= attempts[k].updated + Forget

\* Mutant: a key is blocked only while its failures are as many as the threshold.
Blocked_Exactly(k) == now < attempts[k].blocked /\ attempts[k].failures = AccountThreshold

Blocked(k) == now < attempts[k].blocked

\* Allow: a key that is forgotten is deleted and allowed.
Allow(k) ==
    /\ attempts' = IF Forgotten(k) THEN [attempts EXCEPT ![k] = NoAttempt] ELSE attempts
    /\ late' = IF Forgotten(k) THEN [late EXCEPT ![k] = 0] ELSE late
    /\ Forgotten(k) \/ ~Blocked(k)

Login(q) ==
    /\ \E u \in Users : Allow(u) /\ Begin(q, [op |-> "login", user |-> u], "askingAddress")
    /\ UNCHANGED <<now, authDb, lock>>

AskAddress(q) ==
    /\ pc[q] = "askingAddress"
    /\ Allow(Address)
    /\ GoTo(q, "checking")
    /\ UNCHANGED <<now, authDb, lock>>

AddressBlocked(q) ==
    /\ pc[q] = "askingAddress"
    /\ ~Forgotten(Address) /\ Blocked(Address)
    /\ Return(q)
    /\ UNCHANGED <<now, authDb, limiter, lock>>

\* FindLoginIdentity and verifyPassword.  An account that is not there and a
\* statement that fails count as a wrong password.
CheckPassword(q) ==
    /\ pc[q] = "checking"
    /\ \/ org[req[q].user] # "none" /\ GoTo(q, "clearing")
       \/ GoTo(q, "tellingAccount")
    /\ UNCHANGED <<now, authDb, limiter, lock>>

Full == Cardinality({k \in Keys : Known(k)}) >= Capacity

\* At capacity the key that failed longest ago gives way, be it the one told.
Oldest(k) == Known(k) /\ \A o \in Keys : Known(o) => attempts[k].updated <= attempts[o].updated

Kept == IF Full
        THEN {[attempts EXCEPT ![old] = NoAttempt] : old \in {k \in Keys : Oldest(k)}}
        ELSE {attempts}

Fail(k, threshold) ==
    \E kept \in Kept :
       LET failures == kept[k].failures + 1
           blocked == IF failures >= threshold THEN now + Block ELSE kept[k].blocked
       IN  /\ attempts' = [kept EXCEPT ![k] = [failures |-> failures, blocked |-> blocked,
                                               updated |-> now]]
           /\ late' = [l \in Keys |-> IF kept[l] = NoAttempt THEN 0
                                      ELSE IF l # k THEN late[l]
                                      ELSE IF now < kept[k].blocked THEN late[k] + 1 ELSE 0]

TellAccount(q) ==
    /\ pc[q] = "tellingAccount"
    /\ Fail(req[q].user, AccountThreshold)
    /\ GoTo(q, "tellingAddress")
    /\ UNCHANGED <<now, authDb, lock>>

TellAddress(q) ==
    /\ pc[q] = "tellingAddress"
    /\ Fail(Address, AddressThreshold)
    /\ Return(q)
    /\ UNCHANGED <<now, authDb, lock>>

\* Success clears the account's key, and with it a block that began meanwhile.
ClearAccount(q) ==
    /\ pc[q] = "clearing"
    /\ attempts' = [attempts EXCEPT ![req[q].user] = NoAttempt]
    /\ late' = [late EXCEPT ![req[q].user] = 0]
    /\ GoTo(q, "opening")
    /\ UNCHANGED <<now, authDb, lock>>

CreateSession(q) ==
    /\ pc[q] = "opening"
    /\ \E s \in Sids : NextSid(s) /\ sessions' = [sessions EXCEPT ![s] = NewSession(req[q].user)]
    /\ Return(q)
    /\ UNCHANGED <<now, org, logouts, limiter, lock>>

-----------------------------------------------------------------------------
\* A statement fails: the request ends and its transaction is rolled back.  A
\* login that was refused has told the limiter before.
Abort(q) ==
    /\ "abort" \in Faults
    /\ pc[q] \in {"locking", "writing", "opening", "handling"}
    /\ Return(q)
    /\ lock' = IF lock = q THEN None ELSE lock
    /\ UNCHANGED <<now, authDb, limiter>>

Tick ==
    /\ now < MaxTime
    /\ now' = now + 1
    /\ UNCHANGED <<authDb, limiter, lock, pc, req>>

Step(q) ==
    \/ Signup(q) \/ ReadMembers(q) \/ CreateAccount(q)
    \/ Login(q) \/ AskAddress(q) \/ AddressBlocked(q) \/ CheckPassword(q)
    \/ TellAccount(q) \/ TellAddress(q) \/ ClearAccount(q) \/ CreateSession(q)
    \/ Authenticate(q) \/ RefreshSession(q) \/ RevokeSession(q)
    \/ Abort(q)

Next == Tick \/ \E q \in Requests : Step(q)

Spec == Init /\ [][Next]_authVars

-----------------------------------------------------------------------------
\* Of concurrent first signups one gets the bootstrap organization, and with it
\* what was imported before there were accounts.
BootstrapClaimedOnce == \A u, v \in Users : org[u] = "bootstrap" /\ org[v] = "bootstrap" => u = v

\* Requests that authenticated before a logout refresh the session after it: none
\* brings it back, and no session outlives the expiry it was opened with.
RevokedIsFinal ==
    [][\A s \in Sids : Opened(s) =>
          /\ sessions[s].revoked => sessions'[s].revoked
          /\ sessions'[s].absolute = sessions[s].absolute
          /\ sessions'[s].idle <= sessions[s].absolute]_authVars

\* Two logouts of a session that both authenticated leave one event of it.
LogoutAuditedOnce == \A s \in Sids : logouts[s] = IF sessions[s].revoked THEN 1 ELSE 0

\* Once a key is blocked only the logins that were under way can still fail on it.
FailuresEndWithBlock == \A k \in Keys : late[k] < Cardinality(Requests)

\* The limiter never keeps more keys than its capacity.
LimiterBounded == Cardinality({k \in Keys : Known(k)}) <= Capacity

Promised == INSTANCE Accounts

\* Whatever requests race and wherever they end, each takes effect at one instant:
\* a signup although it reads the members first and writes later, a login although
\* the account is looked up some steps before its session is opened, and a refresh
\* that comes after the logout (SignUp, Login, FindSession, RevokeSession).
AccountsSpec == Promised!Spec

=============================================================================
