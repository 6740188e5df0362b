------------------------------ MODULE Accounts ------------------------------
(***************************************************************************)
(* api/auth.py and api/deps.py: registration as one transaction over two   *)
(* tables, and the two kinds of token a login hands out.  A request is     *)
(* authorised by its access token alone, a WebSocket by the one it was     *)
(* opened with; only a refresh looks at the users table again.  A user's   *)
(* row may go away (auth.py:344): nothing in this code removes it, so      *)
(* RemoveUser is the environment's.                                        *)
(***************************************************************************)
EXTENDS Naturals, FiniteSets

CONSTANTS
    Signups,      \* registration requests; each brings its own fresh ids
    EmailOf,      \* the email each of them asks for
    AccessTTL,    \* auth.access_ttl_min
    RefreshTTL,   \* auth.refresh_ttl_days
    MaxLogin,     \* how long a login takes from reading the row to its tokens
    MaxNow,       \* bound of the clock
    MaxIssued,    \* bound: pairs of tokens issued
    MaxSockets    \* bound: sockets open at once

ASSUME AccountsAssumption ==
    /\ AccessTTL \in Nat /\ RefreshTTL \in Nat /\ MaxLogin \in Nat
    /\ MaxNow \in Nat /\ MaxIssued \in Nat /\ MaxSockets \in Nat

VARIABLES
    signup,       \* where each request is in register
    tenants,      \* committed tenants, by the request that made them
    users,        \* committed users, by the request that made them
    login,        \* logins that have read a row: user -> since when, or Idle
    tokens,       \* tokens handed out
    issued,       \* how many pairs
    clock,        \* seconds
    removedAt,    \* when a user's row went away, or Never
    servedAt,     \* history: the last time a request of the user was served
    sockets       \* open sockets: whose, and since when

accountVars ==
    <<signup, tenants, users, login, tokens, issued, clock, removedAt, servedAt,
      sockets>>

NeverAt == MaxNow + 1
Idle == MaxNow + 1
SignupSteps == {"new", "tenant", "user", "insert", "commit", "created", "lost",
                "conflict", "failed"}

AccountsInit ==
    /\ signup = [r \in Signups |-> "new"]
    /\ tenants = {} /\ users = {}
    /\ login = [u \in Signups |-> Idle]
    /\ tokens = {} /\ issued = 0 /\ clock = 0
    /\ removedAt = [u \in Signups |-> NeverAt]
    /\ servedAt = [u \in Signups |-> 0]
    /\ sockets = {}

-----------------------------------------------------------------------------
(* register: hash, insert the tenant, insert the user, commit. *)
SignupAt(r, from, to) == signup[r] = from /\ signup' = [signup EXCEPT ![r] = to]
Inserted(r) == signup[r] = "commit"
Made(r) == signup[r] \in {"created", "lost"}

\* The password is hashed off the event loop before the transaction begins.
HashPassword(r) ==
    /\ SignupAt(r, "new", "tenant")
    /\ UNCHANGED <<tenants, users, login, tokens, issued, clock, removedAt, servedAt, sockets>>

\* Mutant: the tenant is committed before its user is inserted.
InsertTenantCommits(r) ==
    /\ SignupAt(r, "tenant", "user")
    /\ tenants' = tenants \cup {r}
    /\ UNCHANGED <<users, login, tokens, issued, clock, removedAt, servedAt, sockets>>

InsertTenant(r) ==
    /\ SignupAt(r, "tenant", "user")
    /\ UNCHANGED <<tenants, users, login, tokens, issued, clock, removedAt, servedAt, sockets>>

\* The unique index on email makes the insert wait for another transaction
\* that holds the same email, and fail when that one has committed.
InsertUser(r) ==
    /\ ~\E q \in Signups \ {r} : Inserted(q) /\ EmailOf[q] = EmailOf[r]
    /\ IF \E u \in users : EmailOf[u] = EmailOf[r]
       THEN SignupAt(r, "user", "conflict")
       ELSE SignupAt(r, "user", "commit")
    /\ UNCHANGED <<tenants, users, login, tokens, issued, clock, removedAt, servedAt, sockets>>

CommitSignup(r) ==
    /\ SignupAt(r, "commit", "created")
    /\ tenants' = tenants \cup {r}
    /\ users' = users \cup {r}
    /\ UNCHANGED <<login, tokens, issued, clock, removedAt, servedAt, sockets>>

\* The commit takes effect and its answer does not come back (the connection
\* to the database or to the caller breaks): an account nobody was told of.
CommitAnswerLost(r) ==
    /\ SignupAt(r, "commit", "lost")
    /\ tenants' = tenants \cup {r}
    /\ users' = users \cup {r}
    /\ UNCHANGED <<login, tokens, issued, clock, removedAt, servedAt, sockets>>

\* The request ends before its commit took effect: the transaction is rolled back.
SignupFails(r) ==
    /\ signup[r] \in {"tenant", "user", "commit"}
    /\ signup' = [signup EXCEPT ![r] = "failed"]
    /\ UNCHANGED <<tenants, users, login, tokens, issued, clock, removedAt, servedAt, sockets>>

-----------------------------------------------------------------------------
_issue_tokens(u) ==
    /\ issued < MaxIssued
    /\ issued' = issued + 1
    /\ tokens' = tokens \cup {[sub |-> u, type |-> "access", exp |-> clock + AccessTTL],
                              [sub |-> u, type |-> "refresh", exp |-> clock + RefreshTTL]}

\* login reads the row, then checks the password off the event loop.
ReadUser(u) ==
    /\ u \in users /\ login[u] = Idle /\ issued < MaxIssued
    /\ login' = [login EXCEPT ![u] = clock]
    /\ UNCHANGED <<signup, tenants, users, tokens, issued, clock, removedAt, servedAt, sockets>>

VerifyPassword(u) ==
    /\ login[u] # Idle
    /\ login' = [login EXCEPT ![u] = Idle]
    /\ \/ _issue_tokens(u)
       \/ UNCHANGED <<tokens, issued>>
    /\ UNCHANGED <<signup, tenants, users, clock, removedAt, servedAt, sockets>>

\* Mutant: a token of either kind is accepted.
DecodesAnyType(token, expected_type) == clock <= token.exp

\* decode_token: the signature holds, `exp` has not passed, the type fits.
decode_token(token, expected_type) == clock <= token.exp /\ token.type = expected_type

refresh(token) ==
    /\ decode_token(token, "refresh")
    /\ token.sub \in users
    /\ _issue_tokens(token.sub)
    /\ UNCHANGED <<signup, tenants, users, login, clock, removedAt, servedAt, sockets>>

\* current_principal: any route behind the access token.
ServeRequest(token) ==
    /\ decode_token(token, "access")
    /\ servedAt' = [servedAt EXCEPT ![token.sub] = clock]
    /\ UNCHANGED <<signup, tenants, users, login, tokens, issued, clock, removedAt, sockets>>

\* verify_ws_token: the token is looked at in the handshake and never again.
OpenSocket(token) ==
    /\ decode_token(token, "access")
    /\ Cardinality(sockets) < MaxSockets
    /\ servedAt' = [servedAt EXCEPT ![token.sub] = clock]
    /\ sockets' = sockets \cup {[sub |-> token.sub, since |-> clock]}
    /\ UNCHANGED <<signup, tenants, users, login, tokens, issued, clock, removedAt>>

\* The peer leaves, or answers no ping (Fanout): nothing else ends a socket.
CloseSocket(socket) ==
    /\ sockets' = sockets \ {socket}
    /\ UNCHANGED <<signup, tenants, users, login, tokens, issued, clock, removedAt, servedAt>>

-----------------------------------------------------------------------------
RemoveUser(u) ==
    /\ u \in users
    /\ users' = users \ {u}
    /\ removedAt' = [removedAt EXCEPT ![u] = clock]
    /\ UNCHANGED <<signup, tenants, login, tokens, issued, clock, servedAt, sockets>>

\* A login is answered within MaxLogin seconds of reading its row.
TickClock ==
    /\ clock < MaxNow
    /\ \A u \in Signups : login[u] # Idle => clock < login[u] + MaxLogin
    /\ clock' = clock + 1
    /\ UNCHANGED <<signup, tenants, users, login, tokens, issued, removedAt, servedAt, sockets>>

AccountsNext ==
    \/ \E r \in Signups :
          \/ HashPassword(r) \/ InsertTenant(r) \/ InsertUser(r)
          \/ CommitSignup(r) \/ CommitAnswerLost(r) \/ SignupFails(r)
          \/ ReadUser(r) \/ VerifyPassword(r) \/ RemoveUser(r)
    \/ \E token \in tokens : refresh(token) \/ ServeRequest(token) \/ OpenSocket(token)
    \/ \E socket \in sockets : CloseSocket(socket)
    \/ TickClock

AccountsSpec == AccountsInit /\ [][AccountsNext]_accountVars

-----------------------------------------------------------------------------
(* Registration leaves no halves (auth.py:289, "one transaction, so the    *)
(* rollback takes the orphan tenant with it"): a committed tenant has its  *)
(* user unless that was removed, and no email has two users however        *)
(* requests race.  A 201 is told of an account that is there and a 409     *)
(* only when another account took the email; but an account may be there   *)
(* without a 201, when the answer of its commit is lost, and whoever then  *)
(* registers again is told 409.                                            *)
AccountsAreWhole ==
    /\ \A r \in Signups :
          /\ r \in tenants <=> Made(r)
          /\ r \in users <=> r \in tenants /\ removedAt[r] = NeverAt
          /\ signup[r] = "conflict" => \E q \in tenants \ {r} : EmailOf[q] = EmailOf[r]
    /\ \A u, v \in users : EmailOf[u] = EmailOf[v] => u = v

\* How long after the row of u went a login that had read it, and the access
\* token it obtained, can last.
AccessEnds(u) == removedAt[u] + MaxLogin + AccessTTL

(* A user whose row is gone makes requests and opens sockets for the life  *)
(* of one access token, counted from the last login that had read the row: *)
(* no chain of refreshes prolongs it, and no refresh token stands in for   *)
(* an access token (auth.py:169-170 and 343-345).  That is no bound on     *)
(* what a socket is sent: deps.py:75-76 gives it the "same expiry", but    *)
(* ws.py:343-356 looks at the token in the handshake only, so a socket     *)
(* opened in time is served until its peer goes, long after the token.     *)
RemovedUserLosesAccess ==
    /\ \A u \in Signups : removedAt[u] # NeverAt => servedAt[u] <= AccessEnds(u)
    /\ \A socket \in sockets :
          removedAt[socket.sub] # NeverAt => socket.since <= AccessEnds(socket.sub)

(* Registration and revocation, for requests that race.                    *)
AccountsAreSound == AccountsAreWhole /\ RemovedUserLosesAccess
=============================================================================
