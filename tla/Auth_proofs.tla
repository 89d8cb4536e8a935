------------------------------ MODULE Auth_proofs ------------------------------
(***************************************************************************)
(* Proofs about Auth, for any number of users, sessions and requests and   *)
(* for any lifetimes and thresholds.  The argument: what a signup has read *)
(* stays true while it holds the advisory lock; every statement that       *)
(* writes a session writes one that is open, with a revocation that is     *)
(* never taken back and an idle expiry no later than the absolute one;     *)
(* each failure told of a blocked key uses up a request under way; and     *)
(* what a request read of the accounts is still so when it writes, so that *)
(* every write is an operation of Accounts.                                *)
(***************************************************************************)
EXTENDS Auth, FiniteSetTheorems, TLAPS

\* What a request asks for agrees with the step it is at.
OpAt(q) ==
    /\ pc[q] # "idle" => req[q] \in Inputs
    /\ pc[q] \in {"locking", "writing"} => req[q].op = "signup"
    /\ pc[q] \in {"askingAddress", "checking", "tellingAccount", "tellingAddress", "clearing",
                  "opening"} => req[q].op = "login"
    /\ pc[q] = "refreshing" => req[q].op \in {"use", "logout"}
    /\ pc[q] = "handling" => req[q].op = "logout"

AuthTypeInv == AuthTypeOK /\ \A q \in Requests : OpAt(q)

\* A signup that writes holds the lock, and what it has read is still true.
WriterAt(q) ==
    pc[q] = "writing" =>
        /\ lock = q
        /\ req[q].first => \A u \in Users : org[u] # "bootstrap"

BootstrapInv == BootstrapClaimedOnce /\ \A q \in Requests : WriterAt(q)

\* A session a request has authenticated with is there.
SessionAt(q) == pc[q] \in {"refreshing", "handling"} => Opened(req[q].sid)

\* Sessions expire in time, and only open ones are revoked.
SessionsSound ==
    \A s \in Sids : /\ sessions[s].revoked => Opened(s)
                    /\ sessions[s].idle <= sessions[s].absolute

SessionInv == SessionsSound /\ LogoutAuditedOnce /\ \A q \in Requests : SessionAt(q)

-----------------------------------------------------------------------------
\* The fields of an input, by operation.
LEMMA InputFields ==
    ASSUME NEW in \in Inputs
    PROVE  /\ in.op \in {"signup", "login", "use", "logout"}
           /\ in.op = "signup" => in.user \in Users /\ in.first \in BOOLEAN
           /\ in.op = "login" => in.user \in Users
           /\ in.op \in {"use", "logout"} => in.sid \in Sids
    BY DEF Inputs

\* The initial state satisfies every part of the invariants.
LEMMA AuthInit == Init => AuthTypeInv /\ BootstrapInv /\ SessionInv
<1> SUFFICES ASSUME Init PROVE AuthTypeInv /\ BootstrapInv /\ SessionInv
    OBVIOUS
<1>1. AuthTypeInv
    BY TimesAssumption
    DEF Init, AuthTypeInv, AuthTypeOK, OpAt, AuthSteps, NoSession, NoAttempt
<1>2. BootstrapInv
    BY DEF Init, BootstrapInv, BootstrapClaimedOnce, WriterAt
<1>3. SessionInv
    BY DEF Init, SessionInv, SessionsSound, LogoutAuditedOnce, SessionAt, Opened, NoSession
<1> QED  BY <1>1, <1>2, <1>3

\* The limiter keeps its entries well typed.
LEMMA LimiterType ==
    ASSUME AuthTypeOK, NEW k \in Keys
    PROVE  /\ Allow(k) => /\ attempts' \in [Keys -> [failures : Nat, blocked : Nat, updated : Nat]]
                          /\ late' \in [Keys -> Nat]
           /\ \A threshold \in Nat : Fail(k, threshold) =>
                 /\ attempts' \in [Keys -> [failures : Nat, blocked : Nat, updated : Nat]]
                 /\ late' \in [Keys -> Nat]
<1> USE DEF AuthTypeOK, NoAttempt
<1>1. ASSUME Allow(k)
      PROVE  /\ attempts' \in [Keys -> [failures : Nat, blocked : Nat, updated : Nat]]
             /\ late' \in [Keys -> Nat]
    BY <1>1 DEF Allow
<1>2. ASSUME NEW threshold \in Nat, Fail(k, threshold)
      PROVE  /\ attempts' \in [Keys -> [failures : Nat, blocked : Nat, updated : Nat]]
             /\ late' \in [Keys -> Nat]
    <2>1. \A kept \in Kept : kept \in [Keys -> [failures : Nat, blocked : Nat, updated : Nat]]
        BY DEF Kept
    <2>2. now \in Nat /\ Block \in Nat
        BY TimesAssumption
    <2>3. PICK kept \in Kept :
             /\ attempts' = [kept EXCEPT ![k] =
                   [failures |-> kept[k].failures + 1,
                    blocked |-> IF kept[k].failures + 1 >= threshold THEN now + Block
                                ELSE kept[k].blocked,
                    updated |-> now]]
             /\ late' = [l \in Keys |-> IF kept[l] = NoAttempt THEN 0
                                        ELSE IF l # k THEN late[l]
                                        ELSE IF now < kept[k].blocked THEN late[k] + 1 ELSE 0]
        BY <1>2 DEF Fail
    <2>4. kept[k].failures \in Nat /\ kept[k].blocked \in Nat
        BY <2>1
    <2>5. attempts' \in [Keys -> [failures : Nat, blocked : Nat, updated : Nat]]
        BY <2>1, <2>2, <2>3, <2>4
    <2>6. late' \in [Keys -> Nat]
        BY <2>3
    <2> QED  BY <2>5, <2>6
<1> QED  BY <1>1, <1>2

\* Every step keeps the state well typed, and each request at a step of its
\* operation.
LEMMA AuthTypeStep == AuthTypeInv /\ [Next]_authVars => AuthTypeInv'
<1> SUFFICES ASSUME AuthTypeInv, [Next]_authVars PROVE AuthTypeInv'
    OBVIOUS
<1> USE DEF AuthTypeInv, AuthTypeOK, OpAt, AuthSteps
<1>t. /\ AccountThreshold \in Nat /\ AddressThreshold \in Nat /\ now \in Nat
      /\ Idle \in Nat /\ Absolute \in Nat /\ Address \in Keys /\ Users \subseteq Keys
    BY LimiterAssumption, TimesAssumption DEF Keys
<1>n. ASSUME NEW u \in Users, NEW s \in Sids, sessions' = [sessions EXCEPT ![s] = NewSession(u)]
      PROVE  sessions' \in [Sids -> [user : Users \cup {None}, revoked : BOOLEAN, absolute : Nat,
                                     idle : Nat, seen : Nat]]
    BY <1>n, <1>t DEF NewSession
<1>1. CASE Tick
    BY <1>1, TimesAssumption DEF Tick, authDb, limiter
<1>2. ASSUME NEW q \in Requests, Signup(q) PROVE AuthTypeInv'
    BY <1>2 DEF Signup, Begin, Inputs, authDb, limiter
<1>3. ASSUME NEW q \in Requests, ReadMembers(q) PROVE AuthTypeInv'
    <2>1. req[q].user \in Users
        BY <1>3, InputFields DEF ReadMembers
    <2>2. CASE org[req[q].user] # "none"
        BY <1>3, <2>2 DEF ReadMembers, Return, authDb, limiter
    <2>3. CASE org[req[q].user] = "none"
        <3>1. /\ req' = [req EXCEPT ![q] = [op |-> "signup", user |-> req[q].user,
                                            first |-> \A u \in Users : org[u] # "bootstrap"]]
              /\ pc' = [pc EXCEPT ![q] = "writing"] /\ lock' = q
            BY <1>3, <2>3 DEF ReadMembers
        <3>2. (\A u \in Users : org[u] # "bootstrap") \in BOOLEAN
            OBVIOUS
        <3>3. PICK input \in Inputs : input.op = "signup" /\ req' = [req EXCEPT ![q] = input]
            BY <2>1, <3>1, <3>2 DEF Inputs
        <3>4. UNCHANGED <<now, authDb, limiter>>
            BY <1>3 DEF ReadMembers
        <3>5. req' \in [Requests -> Inputs \cup {None}]
            BY <3>3
        <3>6. lock' = q /\ pc' = [pc EXCEPT ![q] = "writing"]
            BY <3>1
        <3>7. \A p \in Requests : OpAt(p)'
            BY <3>3, <3>6
        <3> QED  BY <3>4, <3>5, <3>6, <3>7 DEF authDb, limiter
    <2> QED  BY <2>2, <2>3
<1>4. ASSUME NEW q \in Requests, CreateAccount(q) PROVE AuthTypeInv'
    <2>1. req[q].user \in Users
        BY <1>4, InputFields DEF CreateAccount
    <2> QED  BY <1>4, <1>n, <2>1 DEF CreateAccount, Return, limiter
<1>5. ASSUME NEW q \in Requests, Login(q) PROVE AuthTypeInv'
    <2>1. PICK u \in Users : Allow(u) /\ Begin(q, [op |-> "login", user |-> u], "askingAddress")
        BY <1>5 DEF Login
    <2>2. /\ attempts' \in [Keys -> [failures : Nat, blocked : Nat, updated : Nat]]
          /\ late' \in [Keys -> Nat]
        BY <1>t, <2>1, LimiterType
    <2> QED  BY <1>5, <2>1, <2>2 DEF Login, Begin, Inputs, authDb
<1>6. ASSUME NEW q \in Requests, AskAddress(q) PROVE AuthTypeInv'
    <2>1. /\ attempts' \in [Keys -> [failures : Nat, blocked : Nat, updated : Nat]]
          /\ late' \in [Keys -> Nat]
        BY <1>6, <1>t, LimiterType DEF AskAddress
    <2> QED  BY <1>6, <2>1 DEF AskAddress, GoTo, authDb
<1>7. ASSUME NEW q \in Requests, AddressBlocked(q) \/ CheckPassword(q) PROVE AuthTypeInv'
    <2>1. CASE AddressBlocked(q)
        BY <2>1 DEF AddressBlocked, Return, authDb, limiter
    <2>2. CASE CheckPassword(q)
        <3>1. PICK step \in {"clearing", "tellingAccount"} : GoTo(q, step)
            BY <2>2 DEF CheckPassword
        <3> QED  BY <2>2, <3>1 DEF CheckPassword, GoTo, authDb, limiter
    <2> QED  BY <1>7, <2>1, <2>2
<1>8. ASSUME NEW q \in Requests, TellAccount(q) \/ TellAddress(q) PROVE AuthTypeInv'
    <2>1. req[q].user \in Users
        BY <1>8, InputFields DEF TellAccount, TellAddress
    <2>2. /\ attempts' \in [Keys -> [failures : Nat, blocked : Nat, updated : Nat]]
          /\ late' \in [Keys -> Nat]
        BY <1>8, <1>t, <2>1, LimiterType DEF TellAccount, TellAddress
    <2> QED  BY <1>8, <2>2 DEF TellAccount, TellAddress, GoTo, Return, authDb
<1>9. ASSUME NEW q \in Requests, ClearAccount(q) PROVE AuthTypeInv'
    BY <1>9 DEF ClearAccount, GoTo, NoAttempt, authDb
<1>10. ASSUME NEW q \in Requests, CreateSession(q) PROVE AuthTypeInv'
    <2>1. req[q].user \in Users
        BY <1>10, InputFields DEF CreateSession
    <2> QED  BY <1>10, <1>n, <2>1 DEF CreateSession, Return, limiter
<1>11. ASSUME NEW q \in Requests, Authenticate(q) PROVE AuthTypeInv'
    BY <1>11 DEF Authenticate, Begin, Inputs, authDb, limiter
<1>12. ASSUME NEW q \in Requests, RefreshSession(q) PROVE AuthTypeInv'
    <2>1. req[q].sid \in Sids
        BY <1>12, InputFields DEF RefreshSession
    <2>2. sessions' \in [Sids -> [user : Users \cup {None}, revoked : BOOLEAN, absolute : Nat,
                                  idle : Nat, seen : Nat]]
        BY <1>12, <1>t, <2>1 DEF RefreshSession, Refreshed
    <2> QED  BY <1>12, <2>2 DEF RefreshSession, GoTo, Return, limiter
<1>13. ASSUME NEW q \in Requests, RevokeSession(q) PROVE AuthTypeInv'
    <2>1. req[q].sid \in Sids
        BY <1>13, InputFields DEF RevokeSession
    <2>2. sessions' \in [Sids -> [user : Users \cup {None}, revoked : BOOLEAN, absolute : Nat,
                                  idle : Nat, seen : Nat]]
        BY <1>13, <2>1 DEF RevokeSession, Revoked
    <2>3. logouts' \in [Sids -> Nat]
        BY <1>13, <2>1 DEF RevokeSession, Revoked
    <2> QED  BY <1>13, <2>2, <2>3 DEF RevokeSession, Return, limiter
<1>14. ASSUME NEW q \in Requests, Abort(q) PROVE AuthTypeInv'
    BY <1>14 DEF Abort, Return, authDb, limiter
<1>15. CASE UNCHANGED authVars
    BY <1>15 DEF authVars, authDb, limiter
<1> QED
    BY <1>1, <1>2, <1>3, <1>4, <1>5, <1>6, <1>7, <1>8, <1>9, <1>10, <1>11, <1>12, <1>13, <1>14,
       <1>15 DEF Next, Step

-----------------------------------------------------------------------------
\* A step of r moves no other request.
LEMMA OthersStay ==
    ASSUME AuthTypeInv, NEW r \in Requests, Step(r), NEW q \in Requests \ {r}
    PROVE  pc'[q] = pc[q] /\ req'[q] = req[q]
    BY DEF AuthTypeInv, AuthTypeOK, Step, Begin, Return, GoTo, Signup, ReadMembers, CreateAccount,
           Login, AskAddress, AddressBlocked, CheckPassword, TellAccount, TellAddress, ClearAccount,
           CreateSession, Authenticate, RefreshSession, RevokeSession, Abort

\* The lock serializes what signups read and write.
LEMMA BootstrapStep == AuthTypeInv /\ BootstrapInv /\ [Next]_authVars => BootstrapInv'
<1> SUFFICES ASSUME AuthTypeInv, BootstrapInv, [Next]_authVars PROVE BootstrapInv'
    OBVIOUS
<1>w. \A q \in Requests : WriterAt(q)
    BY DEF BootstrapInv
<1>1. CASE UNCHANGED <<org, lock, pc, req>>
    BY <1>1 DEF BootstrapInv, BootstrapClaimedOnce, WriterAt
<1>2. ASSUME NEW r \in Requests, ReadMembers(r) PROVE BootstrapInv'
    <2>1. org' = org
        BY <1>2 DEF ReadMembers, authDb
    <2>2. ASSUME NEW q \in Requests, pc'[q] = "writing" PROVE WriterAt(q)'
        <3>1. CASE q = r
            BY <1>2, <2>1, <2>2, <3>1 DEF ReadMembers, Return, WriterAt, AuthTypeInv, AuthTypeOK
        <3>2. CASE q # r
            BY <1>2, <1>w, <2>2, <3>2, OthersStay, AuthNoneAssumption
            DEF ReadMembers, LockFree, WriterAt, Step
        <3> QED  BY <3>1, <3>2
    <2> QED  BY <2>1, <2>2 DEF BootstrapInv, BootstrapClaimedOnce, WriterAt
<1>3. ASSUME NEW r \in Requests, CreateAccount(r) PROVE BootstrapInv'
    <2>1. /\ req[r].user \in Users /\ pc[r] = "writing"
          /\ org' = [org EXCEPT ![req[r].user] = IF req[r].first THEN "bootstrap" ELSE "own"]
        BY <1>3, InputFields DEF CreateAccount, AuthTypeInv, OpAt
    <2>2. BootstrapClaimedOnce'
        BY <1>w, <2>1 DEF BootstrapInv, BootstrapClaimedOnce, WriterAt, AuthTypeInv, AuthTypeOK
    <2>3. ASSUME NEW q \in Requests PROVE pc'[q] # "writing"
        <3>1. CASE q = r
            BY <1>3, <3>1 DEF CreateAccount, Return, AuthTypeInv, AuthTypeOK
        <3>2. CASE q # r
            BY <1>3, <1>w, <2>1, <3>2, OthersStay DEF WriterAt, Step
        <3> QED  BY <3>1, <3>2
    <2> QED  BY <2>2, <2>3 DEF BootstrapInv, WriterAt
<1>4. ASSUME NEW r \in Requests, Abort(r) PROVE BootstrapInv'
    <2>1. org' = org /\ pc'[r] = "idle"
        BY <1>4 DEF Abort, Return, authDb, AuthTypeInv, AuthTypeOK
    <2>2. ASSUME NEW q \in Requests, pc'[q] = "writing" PROVE WriterAt(q)'
        BY <1>4, <1>w, <2>1, <2>2, OthersStay DEF Abort, WriterAt, Step
    <2> QED  BY <2>1, <2>2 DEF BootstrapInv, BootstrapClaimedOnce, WriterAt
<1>5. ASSUME NEW r \in Requests, Step(r), org' = org, lock' = lock, pc'[r] # "writing"
      PROVE  BootstrapInv'
    <2>1. ASSUME NEW q \in Requests, pc'[q] = "writing" PROVE WriterAt(q)'
        BY <1>5, <1>w, <2>1, OthersStay DEF WriterAt
    <2> QED  BY <1>5, <2>1 DEF BootstrapInv, BootstrapClaimedOnce, WriterAt
<1>6. ASSUME NEW r \in Requests, Step(r) PROVE BootstrapInv'
    <2>1. CASE ReadMembers(r) \/ CreateAccount(r) \/ Abort(r)
        BY <1>2, <1>3, <1>4, <2>1
    <2>2. CASE ~(ReadMembers(r) \/ CreateAccount(r) \/ Abort(r))
        <3>1. org' = org /\ lock' = lock /\ pc'[r] # "writing"
            BY <1>6, <2>2
            DEF Step, Begin, Return, GoTo, Signup, Login, AskAddress, AddressBlocked, CheckPassword,
                TellAccount, TellAddress, ClearAccount, CreateSession, Authenticate, RefreshSession,
                RevokeSession, authDb, AuthTypeInv, AuthTypeOK
        <3> QED  BY <1>5, <1>6, <3>1
    <2> QED  BY <2>1, <2>2
<1> QED  BY <1>1, <1>6 DEF Next, Tick, authVars, authDb

-----------------------------------------------------------------------------
\* The ways in which a step changes the row of a session.
Opens(s) == ~Opened(s) /\ \E u \in Users : sessions'[s] = NewSession(u)

Refreshes(s) == Opened(s) /\ sessions'[s] = Refreshed(sessions[s])

Revokes(s) == Opened(s) /\ sessions'[s] = Revoked(sessions[s])

\* Every other step leaves it alone; the event is written with the revocation.
LEMMA SessionRow ==
    ASSUME AuthTypeInv, SessionInv, [Next]_authVars, NEW s \in Sids
    PROVE  \/ sessions'[s] = sessions[s] /\ logouts'[s] = logouts[s]
           \/ (Opens(s) \/ Refreshes(s)) /\ logouts'[s] = logouts[s]
           \/ Revokes(s) /\ logouts'[s] = IF RevokedNow(s) THEN logouts[s] + 1 ELSE logouts[s]
<1> USE DEF AuthTypeInv, AuthTypeOK, OpAt
<1>1. ASSUME NEW q \in Requests, RefreshSession(q)
      PROVE  (sessions'[s] = sessions[s] \/ Refreshes(s)) /\ logouts'[s] = logouts[s]
    BY <1>1 DEF RefreshSession, Refreshes, SessionInv, SessionAt
<1>2. ASSUME NEW q \in Requests, RevokeSession(q)
      PROVE  \/ sessions'[s] = sessions[s] /\ logouts'[s] = logouts[s]
             \/ Revokes(s) /\ logouts'[s] = IF RevokedNow(s) THEN logouts[s] + 1 ELSE logouts[s]
    <2>1. /\ req[q].sid \in Sids /\ Opened(req[q].sid)
          /\ sessions' = [sessions EXCEPT ![req[q].sid] = Revoked(@)]
          /\ logouts' = [logouts EXCEPT ![req[q].sid] =
                            IF RevokedNow(req[q].sid) THEN @ + 1 ELSE @]
        BY <1>2, InputFields DEF RevokeSession, SessionInv, SessionAt
    <2> QED  BY <2>1 DEF Revokes
<1>3. ASSUME NEW q \in Requests, CreateAccount(q) \/ CreateSession(q)
      PROVE  (sessions'[s] = sessions[s] \/ Opens(s)) /\ logouts'[s] = logouts[s]
    <2>1. req[q].user \in Users
        BY <1>3, InputFields DEF CreateAccount, CreateSession
    <2> QED  BY <1>3, <2>1 DEF CreateAccount, CreateSession, NextSid, Opens
<1> QED
    BY <1>1, <1>2, <1>3
    DEF Next, Tick, Step, Signup, ReadMembers, Login, AskAddress, AddressBlocked, CheckPassword,
        TellAccount, TellAddress, ClearAccount, Authenticate, Abort, authVars, authDb

\* A row stays sound; a revocation stays, and so does the absolute expiry.
LEMMA RowSound ==
    ASSUME AuthTypeInv, SessionInv, [Next]_authVars, NEW s \in Sids
    PROVE  /\ Opened(s) => /\ Opened(s)'
                           /\ sessions[s].revoked => sessions'[s].revoked
                           /\ sessions'[s].absolute = sessions[s].absolute
           /\ sessions'[s].revoked => Opened(s)'
           /\ sessions'[s].idle <= sessions'[s].absolute
           /\ logouts'[s] = IF sessions'[s].revoked THEN 1 ELSE 0
<1>1. /\ sessions[s].revoked => Opened(s)
      /\ sessions[s].idle <= sessions[s].absolute
      /\ logouts[s] = IF sessions[s].revoked THEN 1 ELSE 0
    BY DEF SessionInv, SessionsSound, LogoutAuditedOnce
<1>2. /\ now \in Nat /\ Idle \in Nat /\ Absolute \in Nat /\ Idle <= Absolute
      /\ sessions[s].absolute \in Nat /\ sessions[s].idle \in Nat
      /\ sessions[s].revoked \in BOOLEAN
    BY TimesAssumption DEF AuthTypeInv, AuthTypeOK
<1>3. CASE sessions'[s] = sessions[s] /\ logouts'[s] = logouts[s]
    BY <1>1, <1>3 DEF Opened
<1>4. CASE Opens(s) /\ logouts'[s] = logouts[s]
    BY <1>1, <1>2, <1>4, AuthNoneAssumption DEF Opens, NewSession, Opened
<1>5. CASE Refreshes(s) /\ logouts'[s] = logouts[s]
    BY <1>1, <1>2, <1>5 DEF Refreshes, Refreshed, Opened
<1>6. CASE Revokes(s) /\ logouts'[s] = IF RevokedNow(s) THEN logouts[s] + 1 ELSE logouts[s]
    BY <1>1, <1>2, <1>6 DEF Revokes, Revoked, RevokedNow, Opened
<1> QED  BY <1>3, <1>4, <1>5, <1>6, SessionRow

\* Every step preserves what is known of sessions.
LEMMA SessionStep == AuthTypeInv /\ SessionInv /\ [Next]_authVars => SessionInv'
<1> SUFFICES ASSUME AuthTypeInv, SessionInv, [Next]_authVars PROVE SessionInv'
    OBVIOUS
<1>1. SessionsSound' /\ LogoutAuditedOnce'
    BY RowSound DEF SessionsSound, LogoutAuditedOnce
<1>2. ASSUME NEW q \in Requests, pc'[q] \in {"refreshing", "handling"}
      PROVE  sessions'[req'[q].sid].user # None
    <2>k. \A s \in Sids : Opened(s) => sessions'[s].user # None
        BY RowSound DEF Opened
    <2>1. CASE pc'[q] = pc[q] /\ req'[q] = req[q]
        <3>1. req[q].sid \in Sids /\ Opened(req[q].sid)
            BY <1>2, <2>1, InputFields DEF SessionInv, SessionAt, AuthTypeInv, OpAt
        <3> QED  BY <2>1, <2>k, <3>1 DEF Opened
    <2>2. CASE Authenticate(q)
        <3>1. PICK in \in [op : {"use", "logout"}, sid : Sids] : Valid(in.sid) /\ req'[q] = in
            BY <2>2 DEF Authenticate, Begin, AuthTypeInv, AuthTypeOK
        <3> QED  BY <2>k, <3>1 DEF Valid, Opened
    <2>3. CASE RefreshSession(q)
        <3>1. req[q].sid \in Sids /\ Opened(req[q].sid) /\ req'[q] = req[q]
            BY <1>2, <2>3, InputFields
            DEF RefreshSession, GoTo, Return, SessionInv, SessionAt, AuthTypeInv, AuthTypeOK, OpAt
        <3> QED  BY <2>k, <3>1 DEF Opened
    <2>4. CASE Step(q) /\ ~Authenticate(q) /\ ~RefreshSession(q)
        BY <1>2, <2>4
        DEF Step, Begin, Return, GoTo, Signup, ReadMembers, CreateAccount, Login, AskAddress,
            AddressBlocked, CheckPassword, TellAccount, TellAddress, ClearAccount, CreateSession,
            RevokeSession, Abort, AuthTypeInv, AuthTypeOK
    <2>5. ASSUME NEW r \in Requests \ {q}, Step(r) PROVE pc'[q] = pc[q] /\ req'[q] = req[q]
        BY <2>5, OthersStay
    <2> QED  BY <2>1, <2>2, <2>3, <2>4, <2>5 DEF Next, Tick, authVars
<1> QED  BY <1>1, <1>2 DEF SessionInv, SessionAt, Opened

-----------------------------------------------------------------------------
KnownKeys == {k \in Keys : Known(k)}

LimiterInv == IsFiniteSet(KnownKeys) /\ LimiterBounded

\* A failure that is told adds its key after it has made room for it.
LEMMA FailBounded ==
    ASSUME LimiterInv, NEW k \in Keys, NEW threshold, Fail(k, threshold),
           DOMAIN attempts = Keys
    PROVE  LimiterInv'
<1>c. Capacity \in Nat \ {0}
    BY LimiterAssumption
<1>k. /\ IsFiniteSet(KnownKeys) /\ Cardinality(KnownKeys) \in Nat
      /\ Cardinality(KnownKeys) <= Capacity
    BY FS_CardinalityType DEF LimiterInv, LimiterBounded, KnownKeys
<1>1. PICK kept \in Kept : \E row : attempts' = [kept EXCEPT ![k] = row]
    BY DEF Fail
<1>2. CASE Full
    <2>1. PICK old \in Keys : Known(old) /\ kept = [attempts EXCEPT ![old] = NoAttempt]
        BY <1>1, <1>2 DEF Kept, Oldest
    <2> DEFINE Left == KnownKeys \ {old}
    <2>2. IsFiniteSet(Left) /\ Cardinality(Left) = Cardinality(KnownKeys) - 1
        BY <1>k, <2>1, FS_RemoveElement DEF KnownKeys
    <2>3. KnownKeys' \subseteq Left \cup {k}
        BY <1>1, <2>1 DEF KnownKeys, Known
    <2> HIDE DEF Left
    <2>4. IsFiniteSet(Left \cup {k}) /\ Cardinality(Left \cup {k}) <= Capacity
        BY <1>c, <1>k, <2>2, FS_AddElement
    <2>5. /\ IsFiniteSet(KnownKeys') /\ Cardinality(KnownKeys') <= Cardinality(Left \cup {k})
          /\ Cardinality(KnownKeys') \in Nat /\ Cardinality(Left \cup {k}) \in Nat
        BY <2>3, <2>4, FS_Subset, FS_CardinalityType
    <2> QED  BY <1>c, <2>4, <2>5 DEF LimiterInv, LimiterBounded, KnownKeys
<1>3. CASE ~Full
    <2>1. kept = attempts
        BY <1>1, <1>3 DEF Kept
    <2>2. KnownKeys' \subseteq KnownKeys \cup {k}
        BY <1>1, <2>1 DEF KnownKeys, Known
    <2>3. Cardinality(KnownKeys) < Capacity
        BY <1>3, <1>c, <1>k DEF Full, KnownKeys
    <2>4. IsFiniteSet(KnownKeys \cup {k}) /\ Cardinality(KnownKeys \cup {k}) <= Capacity
        <3>1. /\ IsFiniteSet(KnownKeys \cup {k})
              /\ \/ Cardinality(KnownKeys \cup {k}) = Cardinality(KnownKeys)
                 \/ Cardinality(KnownKeys \cup {k}) = Cardinality(KnownKeys) + 1
            BY <1>k, FS_AddElement
        <3> QED  BY <1>c, <1>k, <2>3, <3>1
    <2>5. /\ IsFiniteSet(KnownKeys') /\ Cardinality(KnownKeys') <= Cardinality(KnownKeys \cup {k})
          /\ Cardinality(KnownKeys') \in Nat /\ Cardinality(KnownKeys \cup {k}) \in Nat
        BY <2>2, <2>4, FS_Subset, FS_CardinalityType
    <2> QED  BY <1>c, <2>4, <2>5 DEF LimiterInv, LimiterBounded, KnownKeys
<1> QED  BY <1>2, <1>3

\* Every other step keeps the keys or drops some.
LEMMA LimiterStep == AuthTypeInv /\ LimiterInv /\ [Next]_authVars => LimiterInv'
<1> SUFFICES ASSUME AuthTypeInv, LimiterInv, [Next]_authVars PROVE LimiterInv'
    OBVIOUS
<1>y. DOMAIN attempts = Keys
    BY DEF AuthTypeInv, AuthTypeOK
<1>c. Capacity \in Nat
    BY LimiterAssumption
<1>1. ASSUME KnownKeys' \subseteq KnownKeys PROVE LimiterInv'
    <2>1. /\ IsFiniteSet(KnownKeys') /\ Cardinality(KnownKeys') <= Cardinality(KnownKeys)
          /\ Cardinality(KnownKeys') \in Nat /\ Cardinality(KnownKeys) \in Nat
        BY <1>1, FS_Subset, FS_CardinalityType DEF LimiterInv
    <2> QED  BY <1>c, <2>1 DEF LimiterInv, LimiterBounded, KnownKeys
<1>2. ASSUME NEW k \in Keys, attempts' = [attempts EXCEPT ![k] = NoAttempt] \/ attempts' = attempts
      PROVE  LimiterInv'
    BY <1>1, <1>2, <1>y DEF KnownKeys, Known
<1>3. ASSUME NEW k \in Keys, Allow(k) PROVE LimiterInv'
    BY <1>2, <1>3 DEF Allow
<1>4. ASSUME NEW q \in Requests, Login(q) \/ AskAddress(q) PROVE LimiterInv'
    BY <1>3, <1>4 DEF Login, AskAddress, Keys
<1>5. ASSUME NEW q \in Requests, TellAccount(q) \/ TellAddress(q) PROVE LimiterInv'
    <2>1. req[q].user \in Users \/ TellAddress(q)
        BY <1>5, InputFields DEF TellAccount, AuthTypeInv, OpAt
    <2> QED  BY <1>5, <2>1, <1>y, FailBounded DEF TellAccount, TellAddress, Keys
<1>6. ASSUME NEW q \in Requests, ClearAccount(q) PROVE LimiterInv'
    <2>1. req[q].user \in Users
        BY <1>6, InputFields DEF ClearAccount, AuthTypeInv, OpAt
    <2> QED  BY <1>2, <1>6, <2>1 DEF ClearAccount, Keys
<1>7. ASSUME UNCHANGED attempts PROVE LimiterInv'
    BY <1>1, <1>7 DEF KnownKeys, Known
<1> QED
    BY <1>4, <1>5, <1>6, <1>7
    DEF Next, Tick, Step, Signup, ReadMembers, CreateAccount, AddressBlocked, CheckPassword,
        CreateSession, Authenticate, RefreshSession, RevokeSession, Abort, authVars, limiter

-----------------------------------------------------------------------------
\* The invariants hold for ever.
LEMMA AuthInvariant == Spec => [](AuthTypeInv /\ BootstrapInv /\ SessionInv)
    BY AuthInit, AuthTypeStep, BootstrapStep, SessionStep, PTL DEF Spec

\* Every reachable state is well typed.
THEOREM AuthTypeCorrect == Spec => []AuthTypeOK
<1>1. AuthTypeInv => AuthTypeOK
    BY DEF AuthTypeInv
<1> QED  BY <1>1, AuthInvariant, PTL

\* However many sign up at once, the bootstrap organization is claimed by one
\* (CreateAccount).
THEOREM BootstrapCorrect == Spec => []BootstrapClaimedOnce
<1>1. BootstrapInv => BootstrapClaimedOnce
    BY DEF BootstrapInv
<1> QED  BY <1>1, AuthInvariant, PTL

\* However many requests log one session out, one event says so (RevokeSession).
THEOREM LogoutCorrect == Spec => []LogoutAuditedOnce
<1>1. SessionInv => LogoutAuditedOnce
    BY DEF SessionInv
<1> QED  BY <1>1, AuthInvariant, PTL

\* A logout is final and the absolute expiry is kept, whatever requests are
\* refreshing the session at the time (FindSession, RevokeSession).
THEOREM RevokedCorrect == Spec => RevokedIsFinal
<1>1. AuthTypeInv /\ SessionInv /\ [Next]_authVars =>
          [\A s \in Sids : Opened(s) =>
              /\ sessions[s].revoked => sessions'[s].revoked
              /\ sessions'[s].absolute = sessions[s].absolute
              /\ sessions'[s].idle <= sessions[s].absolute]_authVars
    BY RowSound
<1> QED  BY <1>1, AuthInvariant, PTL DEF Spec, RevokedIsFinal

\* The limiter keeps no more keys than its capacity, whoever fails on whatever.
THEOREM LimiterCorrect == Spec => []LimiterBounded
<1>1. Init => LimiterInv
    <2> SUFFICES ASSUME Init PROVE LimiterInv
        OBVIOUS
    <2>1. KnownKeys = {}
        BY DEF Init, KnownKeys, Known
    <2> QED  BY <2>1, FS_EmptySet, LimiterAssumption DEF LimiterInv, LimiterBounded, KnownKeys
<1>2. LimiterInv => LimiterBounded
    BY DEF LimiterInv
<1> QED  BY <1>1, <1>2, AuthInvariant, LimiterStep, PTL DEF Spec

-----------------------------------------------------------------------------
\* The requests that Allow has let pass on k and that may still fail on it.
UnderWay(k) ==
    {q \in Requests :
        IF k = Address THEN pc[q] \in {"checking", "tellingAccount", "tellingAddress"}
        ELSE pc[q] \in {"askingAddress", "checking", "tellingAccount"} /\ req[q].user = k}

\* The failures told of a blocked key and those still to come have each a request,
\* and there is another one: that which told the failure that blocked it.
LateInv ==
    \A k \in Keys :
        /\ late[k] < Cardinality(Requests)
        /\ Blocked(k) => late[k] + Cardinality(UnderWay(k)) < Cardinality(Requests)

\* The ways in which a step changes what is known of a key.
Unblocks(k) == ~Blocked(k)' /\ (late'[k] = 0 \/ late'[k] = late[k])

Leaves(k) == late'[k] = late[k] /\ (Blocked(k)' => Blocked(k)) /\ UnderWay(k)' \subseteq UnderWay(k)

FailsOn(k) ==
    \E q \in UnderWay(k) :
        /\ UnderWay(k)' \subseteq UnderWay(k) \ {q}
        /\ late'[k] = 0 \/ (Blocked(k) /\ late'[k] = late[k] + 1)

\* A key that Allow lets pass is not blocked; of the others it changes nothing.
LEMMA AllowKey ==
    ASSUME AuthTypeInv, NEW k \in Keys, Allow(k), now' = now, NEW l \in Keys
    PROVE  IF l = k THEN Unblocks(l)
           ELSE attempts'[l] = attempts[l] /\ late'[l] = late[l]
    BY DEF Allow, Unblocks, Blocked, NoAttempt, AuthTypeInv, AuthTypeOK

\* A failure told of k either makes room and forgets a key, or counts.
LEMMA FailKey ==
    ASSUME AuthTypeInv, NEW k \in Keys, NEW threshold, Fail(k, threshold), now' = now,
           NEW l \in Keys
    PROVE  IF l = k THEN late'[l] = 0 \/ (Blocked(l) /\ late'[l] = late[l] + 1)
           ELSE Unblocks(l) \/ (attempts'[l] = attempts[l] /\ late'[l] = late[l])
<1>y. attempts \in [Keys -> [failures : Nat, blocked : Nat, updated : Nat]] /\ now \in Nat
    BY DEF AuthTypeInv, AuthTypeOK
<1>1. PICK kept \in Kept :
         /\ \E row : attempts' = [kept EXCEPT ![k] = row]
         /\ late' = [m \in Keys |-> IF kept[m] = NoAttempt THEN 0
                                    ELSE IF m # k THEN late[m]
                                    ELSE IF now < kept[k].blocked THEN late[k] + 1 ELSE 0]
    BY DEF Fail
<1>2. \A m \in Keys : kept[m] = NoAttempt \/ kept[m] = attempts[m]
    BY <1>y DEF Kept
<1>3. DOMAIN kept = Keys
    BY <1>y DEF Kept
<1>n. late'[l] = IF kept[l] = NoAttempt THEN 0
                 ELSE IF l # k THEN late[l]
                 ELSE IF now < kept[k].blocked THEN late[k] + 1 ELSE 0
    BY <1>1
<1>4. CASE l = k
    BY <1>2, <1>4, <1>n DEF Blocked
<1>5. CASE l # k
    <2>1. attempts'[l] = kept[l]
        BY <1>1, <1>3, <1>5
    <2>2. CASE kept[l] = NoAttempt
        <3>1. attempts'[l].blocked = 0 /\ late'[l] = 0
            BY <1>n, <2>1, <2>2 DEF NoAttempt
        <3> QED  BY <1>y, <3>1 DEF Unblocks, Blocked
    <2>3. CASE kept[l] # NoAttempt
        BY <1>2, <1>5, <1>n, <2>1, <2>3
    <2> QED  BY <2>2, <2>3
<1> QED  BY <1>4, <1>5

\* A step that does not move requests past Allow adds none to those under way.
LEMMA UnderWayShrinks ==
    ASSUME AuthTypeInv, NEW r \in Requests, Step(r), NEW k \in Keys,
           r \in UnderWay(k)' => r \in UnderWay(k)
    PROVE  UnderWay(k)' \subseteq UnderWay(k)
<1>1. \A q \in Requests \ {r} : pc'[q] = pc[q] /\ req'[q] = req[q]
    BY OthersStay
<1> QED  BY <1>1 DEF UnderWay

\* What any step does to a key.
LEMMA KeyStep ==
    ASSUME AuthTypeInv, [Next]_authVars, NEW k \in Keys
    PROVE  Unblocks(k) \/ Leaves(k) \/ FailsOn(k)
<1> USE DEF AuthTypeInv, AuthTypeOK
<1>1. CASE Tick \/ UNCHANGED authVars
    <2>1. attempts' = attempts /\ late' = late /\ pc' = pc /\ req' = req /\ now <= now'
        BY <1>1 DEF Tick, limiter, authVars
    <2>2. now \in Nat /\ now' \in Nat /\ attempts[k].blocked \in Nat
        BY <1>1, TimesAssumption DEF Tick, authVars
    <2> QED  BY <2>1, <2>2 DEF Leaves, Blocked, UnderWay
<1>2. ASSUME NEW q \in Requests, Step(q), UNCHANGED <<now, limiter>>,
             q \in UnderWay(k)' => q \in UnderWay(k)
      PROVE  Leaves(k)
    BY <1>2, UnderWayShrinks DEF Leaves, Blocked, limiter
<1>3. ASSUME NEW q \in Requests, Login(q) PROVE Unblocks(k) \/ Leaves(k)
    <2>1. PICK u \in Users : /\ Allow(u) /\ now' = now
                             /\ Begin(q, [op |-> "login", user |-> u], "askingAddress")
        BY <1>3 DEF Login
    <2>2. u \in Keys /\ u # Address
        BY LimiterAssumption DEF Keys
    <2>3. CASE k = u
        BY <2>1, <2>2, <2>3, AllowKey
    <2>4. CASE k # u
        <3>1. attempts'[k] = attempts[k] /\ late'[k] = late[k]
            BY <2>1, <2>2, <2>4, AllowKey
        <3>2. q \notin UnderWay(k)'
            BY <2>1, <2>4 DEF Begin, UnderWay
        <3> QED  BY <1>3, <2>1, <3>1, <3>2, UnderWayShrinks DEF Step, Leaves, Blocked
    <2> QED  BY <2>3, <2>4
<1>4. ASSUME NEW q \in Requests, AskAddress(q) PROVE Unblocks(k) \/ Leaves(k)
    <2>1. Address \in Keys /\ Allow(Address) /\ now' = now
        BY <1>4 DEF AskAddress, Keys
    <2>2. CASE k = Address
        BY <2>1, <2>2, AllowKey
    <2>3. CASE k # Address
        <3>1. attempts'[k] = attempts[k] /\ late'[k] = late[k]
            BY <2>1, <2>3, AllowKey
        <3>2. q \in UnderWay(k)' => q \in UnderWay(k)
            BY <1>4, <2>3 DEF AskAddress, GoTo, UnderWay
        <3> QED  BY <1>4, <2>1, <3>1, <3>2, UnderWayShrinks DEF Step, Leaves, Blocked
    <2> QED  BY <2>2, <2>3
<1>5. ASSUME NEW q \in Requests, TellAccount(q) PROVE Unblocks(k) \/ Leaves(k) \/ FailsOn(k)
    <2> DEFINE u == req[q].user
    <2>1. /\ u \in Users /\ u \in Keys /\ u # Address
          /\ Fail(u, AccountThreshold) /\ now' = now
          /\ pc[q] = "tellingAccount" /\ pc'[q] = "tellingAddress" /\ req' = req
        BY <1>5, InputFields, LimiterAssumption DEF TellAccount, GoTo, OpAt, Keys
    <2> HIDE DEF u
    <2>2. UnderWay(k)' \subseteq UnderWay(k)
        <3>1. q \in UnderWay(k)' => q \in UnderWay(k)
            BY <2>1 DEF UnderWay
        <3> QED  BY <1>5, <3>1, UnderWayShrinks DEF Step
    <2>3. CASE k = u
        <3>1. late'[k] = 0 \/ (Blocked(k) /\ late'[k] = late[k] + 1)
            BY <2>1, <2>3, FailKey
        <3>2. q \in UnderWay(k) /\ q \notin UnderWay(k)'
            BY <2>1, <2>3 DEF UnderWay, u
        <3> QED  BY <2>2, <3>1, <3>2 DEF FailsOn
    <2>4. CASE k # u
        <3>1. Unblocks(k) \/ (attempts'[k] = attempts[k] /\ late'[k] = late[k])
            BY <2>1, <2>4, FailKey
        <3> QED  BY <2>1, <2>2, <3>1 DEF Leaves, Blocked
    <2> QED  BY <2>3, <2>4
<1>6. ASSUME NEW q \in Requests, TellAddress(q) PROVE Unblocks(k) \/ Leaves(k) \/ FailsOn(k)
    <2>1. /\ Address \in Keys /\ Fail(Address, AddressThreshold) /\ now' = now
          /\ pc[q] = "tellingAddress" /\ pc'[q] = "idle"
        BY <1>6 DEF TellAddress, Return, Keys
    <2>2. q \notin UnderWay(k)'
        BY <2>1 DEF UnderWay
    <2>3. UnderWay(k)' \subseteq UnderWay(k)
        BY <1>6, <2>2, UnderWayShrinks DEF Step
    <2>4. CASE k = Address
        <3>1. late'[k] = 0 \/ (Blocked(k) /\ late'[k] = late[k] + 1)
            BY <2>1, <2>4, FailKey
        <3>2. q \in UnderWay(k)
            BY <2>1, <2>4 DEF UnderWay
        <3> QED  BY <2>2, <2>3, <3>1, <3>2 DEF FailsOn
    <2>5. CASE k # Address
        <3>1. Unblocks(k) \/ (attempts'[k] = attempts[k] /\ late'[k] = late[k])
            BY <2>1, <2>5, FailKey
        <3> QED  BY <2>1, <2>3, <3>1 DEF Leaves, Blocked
    <2> QED  BY <2>4, <2>5
<1>7. ASSUME NEW q \in Requests, ClearAccount(q) PROVE Unblocks(k) \/ Leaves(k)
    <2>1. /\ now' = now /\ q \notin UnderWay(k)'
          /\ attempts' = [attempts EXCEPT ![req[q].user] = NoAttempt]
          /\ late' = [late EXCEPT ![req[q].user] = 0]
        BY <1>7 DEF ClearAccount, GoTo, UnderWay
    <2>2. UnderWay(k)' \subseteq UnderWay(k)
        BY <1>7, <2>1, UnderWayShrinks DEF Step
    <2>3. CASE k = req[q].user
        BY <2>1, <2>3 DEF Unblocks, Blocked, NoAttempt
    <2>4. CASE k # req[q].user
        BY <2>1, <2>2, <2>4 DEF Leaves, Blocked
    <2> QED  BY <2>3, <2>4
<1>8. ASSUME NEW q \in Requests, CheckPassword(q) PROVE Leaves(k)
    <2>1. q \in UnderWay(k)' => q \in UnderWay(k)
        BY <1>8 DEF CheckPassword, GoTo, UnderWay
    <2> QED  BY <1>2, <1>8, <2>1 DEF CheckPassword, Step
<1>9. ASSUME NEW q \in Requests, Step(q),
             ~(Login(q) \/ AskAddress(q) \/ TellAccount(q) \/ TellAddress(q) \/ ClearAccount(q)
               \/ CheckPassword(q))
      PROVE  Leaves(k)
    <2>1. UNCHANGED <<now, limiter>>
        BY <1>9 DEF Step, Signup, ReadMembers, CreateAccount, AddressBlocked, CreateSession,
           Authenticate, RefreshSession, RevokeSession, Abort
    <2>2. pc'[q] \notin {"askingAddress", "checking", "tellingAccount", "tellingAddress"}
        BY <1>9 DEF Step, Signup, ReadMembers, CreateAccount, AddressBlocked, CreateSession,
           Authenticate, RefreshSession, RevokeSession, Abort, Begin, Return, GoTo
    <2> QED  BY <1>2, <1>9, <2>1, <2>2 DEF UnderWay
<1> QED
    BY <1>1, <1>3, <1>4, <1>5, <1>6, <1>7, <1>8, <1>9 DEF Next

\* Without one of the requests there are fewer.
LEMMA FewerRequests ==
    ASSUME NEW q \in Requests, NEW S \in SUBSET (Requests \ {q})
    PROVE  /\ IsFiniteSet(S) /\ Cardinality(S) \in Nat /\ Cardinality(Requests) \in Nat
           /\ Cardinality(S) < Cardinality(Requests)
<1>1. /\ IsFiniteSet(Requests \ {q}) /\ Cardinality(Requests) \in Nat
      /\ Cardinality(Requests \ {q}) = Cardinality(Requests) - 1
    BY RequestsAssumption, FS_RemoveElement, FS_CardinalityType
<1>2. IsFiniteSet(S) /\ Cardinality(S) <= Cardinality(Requests \ {q}) /\ Cardinality(S) \in Nat
    BY <1>1, FS_Subset, FS_CardinalityType
<1> QED  BY <1>1, <1>2

\* Each failure told of a blocked key uses up one of the requests under way.
LEMMA LateStep == AuthTypeInv /\ LateInv /\ [Next]_authVars => LateInv'
<1> SUFFICES ASSUME AuthTypeInv, LateInv, [Next]_authVars, NEW k \in Keys
             PROVE  /\ late'[k] < Cardinality(Requests)
                    /\ Blocked(k)' => late'[k] + Cardinality(UnderWay(k)') < Cardinality(Requests)
    BY DEF LateInv
<1>y. late[k] \in Nat /\ Cardinality(Requests) \in Nat /\ Cardinality(Requests) > 0
    <2>1. PICK q \in Requests : TRUE
        BY RequestsAssumption
    <2> QED  BY <2>1, FewerRequests, FS_EmptySet DEF AuthTypeInv, AuthTypeOK
<1>i. /\ late[k] < Cardinality(Requests)
      /\ Blocked(k) => late[k] + Cardinality(UnderWay(k)) < Cardinality(Requests)
    BY DEF LateInv
<1>f. UnderWay(k) \subseteq Requests /\ IsFiniteSet(UnderWay(k)) /\ Cardinality(UnderWay(k)) \in Nat
    BY RequestsAssumption, FS_Subset, FS_CardinalityType DEF UnderWay
<1>1. CASE Unblocks(k)
    BY <1>1, <1>i, <1>y DEF Unblocks
<1>2. CASE Leaves(k)
    <2>1. /\ Cardinality(UnderWay(k)') <= Cardinality(UnderWay(k))
          /\ Cardinality(UnderWay(k)') \in Nat
        BY <1>2, <1>f, FS_Subset, FS_CardinalityType DEF Leaves
    <2> QED  BY <1>2, <1>f, <1>i, <1>y, <2>1 DEF Leaves
<1>3. CASE FailsOn(k)
    <2>1. PICK q \in UnderWay(k) :
             /\ UnderWay(k)' \subseteq UnderWay(k) \ {q}
             /\ late'[k] = 0 \/ (Blocked(k) /\ late'[k] = late[k] + 1)
        BY <1>3 DEF FailsOn
    <2>2. /\ Cardinality(UnderWay(k)') <= Cardinality(UnderWay(k)) - 1
          /\ Cardinality(UnderWay(k)') \in Nat
        <3>1. /\ IsFiniteSet(UnderWay(k) \ {q})
              /\ Cardinality(UnderWay(k) \ {q}) = Cardinality(UnderWay(k)) - 1
            BY <1>f, FS_RemoveElement
        <3> QED  BY <2>1, <3>1, FS_Subset, FS_CardinalityType
    <2>3. Cardinality(UnderWay(k)') < Cardinality(Requests)
        <3>1. q \in Requests /\ UnderWay(k)' \in SUBSET (Requests \ {q})
            BY <1>f, <2>1
        <3> QED  BY <3>1, FewerRequests
    <2> QED  BY <1>f, <1>i, <1>y, <2>1, <2>2, <2>3
<1> QED  BY <1>1, <1>2, <1>3, KeyStep

\* Whatever requests do at once, once a key is blocked only those that were under
\* way can still fail on it (loginLimiter.Allow and Fail around the password check).
THEOREM FailuresEndCorrect == Spec => []FailuresEndWithBlock
<1>1. Init => LateInv
    <2> SUFFICES ASSUME Init, NEW k \in Keys
                 PROVE  late[k] < Cardinality(Requests) /\ ~Blocked(k)
        BY DEF LateInv
    <2>1. PICK q \in Requests : TRUE
        BY RequestsAssumption
    <2>2. Cardinality(Requests) \in Nat /\ 0 < Cardinality(Requests)
        BY <2>1, FewerRequests, FS_EmptySet
    <2> QED  BY <2>2 DEF Init, Blocked, NoAttempt
<1>2. LateInv => FailuresEndWithBlock
    BY DEF LateInv, FailuresEndWithBlock
<1> QED  BY <1>1, <1>2, AuthInvariant, LateStep, PTL DEF Spec

-----------------------------------------------------------------------------
\* What a request has read of the accounts is still so: there was a bootstrap
\* organization, or there was the account whose password was right.
FoundAt(q) ==
    /\ pc[q] = "writing" /\ ~req[q].first => \E u \in Users : org[u] = "bootstrap"
    /\ pc[q] \in {"clearing", "opening"} => org[req[q].user] # "none"

Found == \A q \in Requests : FoundAt(q)

\* No account ever goes, nor changes its organization.
LEMMA OrgKept ==
    ASSUME AuthTypeInv, [Next]_authVars, NEW u \in Users, org[u] # "none"
    PROVE  org'[u] = org[u]
<1>1. ASSUME NEW q \in Requests, CreateAccount(q) PROVE org'[u] = org[u]
    BY <1>1 DEF CreateAccount, AuthTypeInv, AuthTypeOK
<1> QED
    BY <1>1
    DEF Next, Tick, Step, Signup, ReadMembers, Login, AskAddress, AddressBlocked, CheckPassword,
        TellAccount, TellAddress, ClearAccount, CreateSession, Authenticate, RefreshSession,
        RevokeSession, Abort, authVars, authDb

\* So what was read stays true, and what a step reads is true.
LEMMA FoundStep == AuthTypeInv /\ Found /\ [Next]_authVars => Found'
<1> SUFFICES ASSUME AuthTypeInv, Found, [Next]_authVars, NEW q \in Requests PROVE FoundAt(q)'
    BY DEF Found
<1>f. FoundAt(q)
    BY DEF Found
<1>k. \A u \in Users : org[u] # "none" => org'[u] = org[u]
    BY OrgKept
<1>1. CASE pc'[q] = pc[q] /\ req'[q] = req[q]
    <2>1. pc[q] \in {"clearing", "opening"} => req[q].user \in Users
        BY InputFields DEF AuthTypeInv, OpAt
    <2> QED  BY <1>1, <1>f, <1>k, <2>1 DEF FoundAt
<1>2. CASE ReadMembers(q)
    <2>1. org' = org
        BY <1>2 DEF ReadMembers, authDb
    <2>2. pc'[q] = "idle" \/ (pc'[q] = "writing" /\ (req'[q].first <=> \A u \in Users : org[u] # "bootstrap"))
        BY <1>2 DEF ReadMembers, Return, AuthTypeInv, AuthTypeOK
    <2> QED  BY <2>1, <2>2 DEF FoundAt
<1>3. CASE CheckPassword(q)
    <2>1. /\ org' = org /\ req' = req /\ pc'[q] \in {"clearing", "tellingAccount"}
          /\ pc'[q] = "clearing" => org[req[q].user] # "none"
        BY <1>3 DEF CheckPassword, GoTo, authDb, AuthTypeInv, AuthTypeOK
    <2> QED  BY <2>1 DEF FoundAt
<1>4. CASE ClearAccount(q)
    <2>1. org' = org /\ req' = req /\ pc[q] = "clearing" /\ pc'[q] = "opening"
        BY <1>4 DEF ClearAccount, GoTo, authDb, AuthTypeInv, AuthTypeOK
    <2> QED  BY <1>f, <2>1 DEF FoundAt
<1>5. CASE Step(q) /\ ~ReadMembers(q) /\ ~CheckPassword(q) /\ ~ClearAccount(q)
    <2>1. pc'[q] \notin {"writing", "clearing", "opening"}
        BY <1>5
        DEF Step, Begin, Return, GoTo, Signup, CreateAccount, Login, AskAddress, AddressBlocked,
            TellAccount, TellAddress, CreateSession, Authenticate, RefreshSession, RevokeSession,
            Abort, AuthTypeInv, AuthTypeOK
    <2> QED  BY <2>1 DEF FoundAt
<1>6. ASSUME NEW r \in Requests \ {q}, Step(r) PROVE pc'[q] = pc[q] /\ req'[q] = req[q]
    BY <1>6, OthersStay
<1> QED  BY <1>1, <1>2, <1>3, <1>4, <1>5, <1>6 DEF Next, Tick, authVars

-----------------------------------------------------------------------------
\* The new session is the one that opens.
LEMMA SessionOpens ==
    ASSUME AuthTypeInv, NEW u \in Users, NEW s \in Sids, NextSid(s),
           sessions' = [sessions EXCEPT ![s] = NewSession(u)]
    PROVE  Promised!OpenSession(u, s)
<1>1. NewSession(u) = [user |-> u, revoked |-> FALSE, seen |-> now,
                       absolute |-> now + Absolute, idle |-> now + Idle]
    BY DEF NewSession
<1> QED  BY <1>1 DEF NextSid, Opened, Promised!OpenSession, Promised!IsOpen

\* A signup takes effect when it commits: what it read before still decides which
\* organization it gets.
LEMMA SignsUp ==
    ASSUME AuthTypeInv, BootstrapInv, Found, NEW q \in Requests, CreateAccount(q)
    PROVE  \E u \in Users, s \in Sids : Promised!SignUp(u, s)
<1> DEFINE u == req[q].user
<1>1. pc[q] = "writing" /\ u \in Users /\ req[q].first \in BOOLEAN
    BY InputFields DEF CreateAccount, AuthTypeInv, OpAt
<1>2. req[q].first <=> \A v \in Users : org[v] # "bootstrap"
    BY <1>1 DEF BootstrapInv, WriterAt, Found, FoundAt
<1>3. PICK s \in Sids : NextSid(s) /\ sessions' = [sessions EXCEPT ![s] = NewSession(u)]
    BY DEF CreateAccount
<1>4. /\ org[u] = "none" /\ UNCHANGED <<now, logouts>>
      /\ org' = [org EXCEPT ![u] = IF req[q].first THEN "bootstrap" ELSE "own"]
    BY DEF CreateAccount
<1> HIDE DEF u
<1>5. Promised!OpenSession(u, s)
    BY <1>1, <1>3, SessionOpens
<1>6. org' = [org EXCEPT ![u] = IF \A v \in Users : org[v] # "bootstrap" THEN "bootstrap"
                                ELSE "own"]
    BY <1>2, <1>4
<1>7. Promised!SignUp(u, s)
    BY <1>4, <1>5, <1>6 DEF Promised!SignUp
<1> QED  BY <1>1, <1>7

\* A login takes effect when it opens the session: the account is still there.
LEMMA LogsIn ==
    ASSUME AuthTypeInv, Found, NEW q \in Requests, CreateSession(q)
    PROVE  \E u \in Users, s \in Sids : Promised!LogIn(u, s)
<1>1. pc[q] = "opening" /\ req[q].user \in Users
    BY InputFields DEF CreateSession, AuthTypeInv, OpAt
<1>2. PICK s \in Sids : NextSid(s) /\ sessions' = [sessions EXCEPT ![s] = NewSession(req[q].user)]
    BY DEF CreateSession
<1>3. org[req[q].user] # "none" /\ UNCHANGED <<now, org, logouts>>
    BY <1>1 DEF CreateSession, Found, FoundAt
<1>4. Promised!LogIn(req[q].user, s)
    BY <1>1, <1>2, <1>3, SessionOpens DEF Promised!LogIn
<1> QED  BY <1>1, <1>4

SessionType ==
    [user : Users \cup {None}, revoked : BOOLEAN, absolute : Nat, idle : Nat, seen : Nat]

\* A row with one field changed, field by field.
LEMMA RowFields ==
    ASSUME NEW row \in SessionType, NEW v
    PROVE  /\ [row EXCEPT !.revoked = v] =
                 [user |-> row.user, revoked |-> v, absolute |-> row.absolute,
                  idle |-> row.idle, seen |-> row.seen]
           /\ [row EXCEPT !.idle = v] =
                 [user |-> row.user, revoked |-> row.revoked, absolute |-> row.absolute,
                  idle |-> v, seen |-> row.seen]
           /\ [row EXCEPT !.seen = v] =
                 [user |-> row.user, revoked |-> row.revoked, absolute |-> row.absolute,
                  idle |-> row.idle, seen |-> v]
    BY DEF SessionType

\* What the two writes make of a row.
LEMMA RowRevoked ==
    ASSUME NEW row \in SessionType
    PROVE  /\ Revoked(row) = [row EXCEPT !.revoked = TRUE]
           /\ row.revoked => Revoked(row) = row
<1>1. Revoked(row) = [row EXCEPT !.revoked = TRUE]
    BY RowFields DEF Revoked
<1>2. row.revoked => Revoked(row) = row
    BY DEF Revoked, SessionType
<1> QED  BY <1>1, <1>2

LEMMA RowRefreshed ==
    ASSUME NEW row \in SessionType, now \in Nat
    PROVE  IF row.seen + Refresh < now
           THEN \E idle \in {now + Idle, row.absolute} :
                   /\ idle <= now + Idle /\ idle <= row.absolute
                   /\ Refreshed(row) = [row EXCEPT !.idle = idle, !.seen = now]
           ELSE Refreshed(row) = row
<1>1. CASE row.seen + Refresh < now
    <2> DEFINE idle == IF now + Idle < row.absolute THEN now + Idle ELSE row.absolute
    <2> DEFINE mid == [row EXCEPT !.idle = idle]
    <2>1. /\ idle \in {now + Idle, row.absolute} /\ idle \in Nat
          /\ idle <= now + Idle /\ idle <= row.absolute
        BY TimesAssumption DEF SessionType
    <2>2. Refreshed(row) = [user |-> row.user, revoked |-> row.revoked,
                            absolute |-> row.absolute, idle |-> idle, seen |-> now]
        BY <1>1 DEF Refreshed
    <2> HIDE DEF idle
    <2>3. mid = [user |-> row.user, revoked |-> row.revoked, absolute |-> row.absolute,
                 idle |-> idle, seen |-> row.seen]
        BY RowFields
    <2>4. /\ mid \in SessionType /\ mid.user = row.user /\ mid.revoked = row.revoked
          /\ mid.absolute = row.absolute /\ mid.idle = idle
        BY <2>1, <2>3 DEF SessionType
    <2>5. [row EXCEPT !.idle = idle, !.seen = now] = [mid EXCEPT !.seen = now]
        OBVIOUS
    <2> HIDE DEF mid
    <2>6. [mid EXCEPT !.seen = now] = [user |-> mid.user, revoked |-> mid.revoked,
              absolute |-> mid.absolute, idle |-> mid.idle, seen |-> now]
        BY <2>4, RowFields
    <2>7. Refreshed(row) = [row EXCEPT !.idle = idle, !.seen = now]
        BY <2>2, <2>4, <2>5, <2>6
    <2> QED  BY <1>1, <2>1, <2>7
<1>2. CASE ~(row.seen + Refresh < now)
    BY <1>2 DEF Refreshed
<1> QED  BY <1>1, <1>2

\* A refresh uses the session if it is due, whether or not it is still valid.
LEMMA Uses ==
    ASSUME AuthTypeInv, SessionInv, NEW q \in Requests, RefreshSession(q)
    PROVE  (\E s \in Sids : Promised!Use(s)) \/ UNCHANGED <<now, org, sessions, logouts>>
<1> DEFINE s == req[q].sid
<1> DEFINE row == sessions[s]
<1>1. s \in Sids /\ Opened(s) /\ UNCHANGED <<now, org, logouts>>
    BY InputFields DEF RefreshSession, SessionInv, SessionAt, AuthTypeInv, OpAt
<1>2. row \in SessionType /\ now \in Nat /\ sessions \in [Sids -> SessionType]
    BY <1>1 DEF AuthTypeInv, AuthTypeOK, SessionType
<1>3. sessions' = sessions \/ sessions' = [sessions EXCEPT ![s] = Refreshed(row)]
    BY DEF RefreshSession
<1> HIDE DEF s
<1>4. CASE row.seen + Refresh < now /\ sessions' = [sessions EXCEPT ![s] = Refreshed(row)]
    <2>1. PICK idle \in {now + Idle, row.absolute} :
             /\ idle <= now + Idle /\ idle <= row.absolute
             /\ Refreshed(row) = [row EXCEPT !.idle = idle, !.seen = now]
        BY <1>2, <1>4, RowRefreshed
    <2>2. Refreshed(row) = [row EXCEPT !.idle = idle, !.seen = now]
        BY <2>1
    <2>3. sessions' = [sessions EXCEPT ![s].idle = idle, ![s].seen = now]
        BY <1>1, <1>2, <1>4, <2>2
    <2>4. Promised!Use(s)
        BY <1>1, <1>4, <2>1, <2>3 DEF Opened, Promised!Use, Promised!IsOpen
    <2> QED  BY <1>1, <2>4
<1>5. CASE ~(row.seen + Refresh < now) \/ sessions' = sessions
    <2>1. ~(row.seen + Refresh < now) => Refreshed(row) = row
        BY <1>2, RowRefreshed
    <2>2. sessions' = sessions
        BY <1>1, <1>2, <1>3, <1>5, <2>1
    <2> QED  BY <1>1, <2>2
<1> QED  BY <1>3, <1>4, <1>5

\* The first of the logouts of a session takes effect, the others change nothing.
LEMMA LogsOut ==
    ASSUME AuthTypeInv, SessionInv, NEW q \in Requests, RevokeSession(q)
    PROVE  (\E s \in Sids : Promised!LogOut(s)) \/ UNCHANGED <<now, org, sessions, logouts>>
<1> DEFINE s == req[q].sid
<1> DEFINE row == sessions[s]
<1>1. s \in Sids /\ Opened(s) /\ UNCHANGED <<now, org>>
    BY InputFields DEF RevokeSession, SessionInv, SessionAt, AuthTypeInv, OpAt
<1>2. row \in SessionType /\ sessions \in [Sids -> SessionType] /\ logouts \in [Sids -> Nat]
    BY <1>1 DEF AuthTypeInv, AuthTypeOK, SessionType
<1>3. /\ sessions' = [sessions EXCEPT ![s] = Revoked(row)]
      /\ logouts' = [logouts EXCEPT ![s] = IF RevokedNow(s) THEN @ + 1 ELSE @]
      /\ RevokedNow(s) <=> ~row.revoked
    BY DEF RevokeSession, RevokedNow
<1>4. logouts[s] = IF row.revoked THEN 1 ELSE 0
    BY <1>1 DEF SessionInv, LogoutAuditedOnce
<1> HIDE DEF s
<1>5. Revoked(row) = [row EXCEPT !.revoked = TRUE]
    BY <1>2, RowRevoked
<1>6. sessions' = [sessions EXCEPT ![s].revoked = TRUE]
    BY <1>1, <1>2, <1>3, <1>5
<1>7. CASE ~row.revoked
    <2>1. logouts[s] = 0 /\ RevokedNow(s)
        BY <1>3, <1>4, <1>7
    <2>2. logouts' = [logouts EXCEPT ![s] = 1]
        BY <1>1, <1>2, <1>3, <2>1
    <2>3. Promised!LogOut(s)
        BY <1>1, <1>6, <1>7, <2>2 DEF Opened, Promised!LogOut, Promised!IsOpen
    <2> QED  BY <1>1, <2>3
<1>8. CASE row.revoked
    <2>1. logouts' = logouts
        BY <1>2, <1>3, <1>8
    <2>2. Revoked(row) = row
        BY <1>2, <1>8, RowRevoked
    <2>3. sessions' = sessions
        BY <1>1, <1>2, <1>3, <2>2
    <2> QED  BY <1>1, <2>1, <2>3
<1> QED  BY <1>7, <1>8

\* Every step is an operation on accounts and sessions, or leaves them alone.
LEMMA AccountsStep ==
    AuthTypeInv /\ BootstrapInv /\ SessionInv /\ Found /\ [Next]_authVars
        => [Promised!Next]_<<now, org, sessions, logouts>>
<1> SUFFICES ASSUME AuthTypeInv, BootstrapInv, SessionInv, Found, [Next]_authVars
             PROVE  Promised!Next \/ UNCHANGED <<now, org, sessions, logouts>>
    OBVIOUS
<1>1. CASE Tick
    BY <1>1 DEF Tick, authDb, Promised!Tick, Promised!Next
<1>2. ASSUME NEW q \in Requests, CreateAccount(q) PROVE Promised!Next
    BY <1>2, SignsUp DEF Promised!Next
<1>3. ASSUME NEW q \in Requests, CreateSession(q) PROVE Promised!Next
    BY <1>3, LogsIn DEF Promised!Next
<1>4. ASSUME NEW q \in Requests, RefreshSession(q)
      PROVE  Promised!Next \/ UNCHANGED <<now, org, sessions, logouts>>
    BY <1>4, Uses DEF Promised!Next
<1>5. ASSUME NEW q \in Requests, RevokeSession(q)
      PROVE  Promised!Next \/ UNCHANGED <<now, org, sessions, logouts>>
    BY <1>5, LogsOut DEF Promised!Next
<1> QED
    BY <1>1, <1>2, <1>3, <1>4, <1>5
    DEF Next, Step, Signup, ReadMembers, Login, AskAddress, AddressBlocked, CheckPassword,
        TellAccount, TellAddress, ClearAccount, Authenticate, Abort, authVars, authDb

\* Whatever requests race and wherever they end, accounts and sessions are those of
\* operations that each take effect at one instant: a signup although it reads the
\* members before it writes, a login although the account is looked up some steps
\* before its session is opened, a refresh that comes after the logout, and a logout
\* of a session that another request has logged out (Signup, Login, FindSession,
\* RevokeSession).
THEOREM AccountsImplemented == Spec => AccountsSpec
<1>1. Init => Promised!Init
    BY DEF Init, NoSession, Promised!Init
<1>2. Init => Found
    BY DEF Init, Found, FoundAt
<1> QED
    BY AuthInvariant, FoundStep, AccountsStep, <1>1, <1>2, PTL
    DEF Spec, AccountsSpec, Promised!Spec, Promised!accountVars
=============================================================================
