------------------------------ MODULE Accounts ------------------------------
(***************************************************************************)
(* One account: its row of users, its sessions, its Google connection and  *)
(* an API key of its user.  Sign-in and lockout, password change, sign-in  *)
(* with Google and linking (internal/auth/handler.go), administration      *)
(* (internal/api/users.go, --reset-admin in cmd/server/main.go), and the   *)
(* middleware that authenticates a request (internal/api/middleware.go).   *)
(* No handler opens a transaction: every statement is a step of its own,   *)
(* and most errors of the later ones are ignored.  Every UPDATE of users   *)
(* sets updated_at; only UserStore.Update compares it.                     *)
(***************************************************************************)
EXTENDS Naturals, FiniteSets

CONSTANTS Clients,        \* goroutines that serve a request
          Passwords,
          NoPassword,     \* password_hash = ''
          NoUser,         \* nobody has the username and the e-mail address
          Threshold,      \* failures that lock an account: 5 in the code
          MaxRequests,    \* bound: requests made
          MaxFaults       \* bound: statements that fail, interruptions

VARIABLES user,       \* the row of users, or NoUser
          linked,     \* oauth_connections has the row of its Google account
          key,        \* the API key: "none", "active" or "revoked"
          sessions,   \* rows of sessions: id -> [idle, grade]
          req,        \* req[c]: the request c serves
          requests,   \* number of requests made
          faults,     \* number of faults
          excused     \* history: what a fault or a conflict left undone, of "lock", "link"

vars == <<user, linked, key, sessions, req, requests, faults, excused>>

User == [method : {"password", "google"}, pw : Passwords \cup {NoPassword},
         must : BOOLEAN, active : BOOLEAN, failed : Nat,
         lock : {"none", "until", "past"}]   \* locked_until: NULL, to come, over

ASSUME AccountsAssumption ==
  /\ IsFiniteSet(Clients) /\ Clients # {}
  /\ Threshold \in Nat \ {0} /\ MaxRequests \in Nat /\ MaxFaults \in Nat
  /\ NoPassword \notin Passwords /\ NoUser \notin User

SessionIds == 1..MaxRequests

\* grade is history: has the session been opened with the credentials of the
\* account ("current"), before a password change ("old"), before a write that
\* revokes no session ("spared"), by a sign-in that had read the credentials
\* before they changed ("late"), or did it change them itself ("kept")?
Session == [idle : BOOLEAN, grade : {"current", "old", "spared", "late", "kept"}]

\* pc names the next statement of the request.  copy is the row it read; fresh
\* says that updated_at is still what it was when the row (for a PUT, the one
\* its client had read) was read; old, that the credentials changed since; via
\* is its session, pw the password it sends, and new the one it sets; alive is
\* is_active of the row a Google sign-in found.
Idle == [pc |-> "idle", op |-> "none", via |-> 0, copy |-> NoUser, fresh |-> FALSE,
         old |-> FALSE, pw |-> NoPassword, new |-> NoPassword, alive |-> FALSE]

NewUser(m, p, must) == [method |-> m, pw |-> p, must |-> must, active |-> TRUE,
                        failed |-> 0, lock |-> "none"]

Init == /\ user \in {NoUser} \cup {NewUser("password", p, FALSE) : p \in Passwords}
        /\ linked = FALSE
        /\ key = "none"
        /\ sessions = [s \in {} |-> 0]
        /\ req = [c \in Clients |-> Idle]
        /\ requests = 0 /\ faults = 0
        /\ excused = {}

-----------------------------------------------------------------------------
(* Requests come in.  The browser of one sends the cookie of any session. *)

Accept(c, r) ==
  /\ req[c].pc = "idle" /\ requests < MaxRequests
  /\ req' = [req EXCEPT ![c] = r]
  /\ requests' = requests + 1
  /\ UNCHANGED <<user, linked, key, sessions, faults, excused>>

RequestLogin(c) ==
  \E p \in Passwords : Accept(c, [Idle EXCEPT !.pc = "byname", !.op = "login", !.pw = p])

RequestGoogle(c) == Accept(c, [Idle EXCEPT !.pc = "byuid", !.op = "google"])

\* Requests with a cookie; a key too may change the password, and mint a key.
RequestOfUser(c) ==
  \/ \E s \in DOMAIN sessions :
       \/ \E op \in {"logout", "mint", "revoke"} :
            Accept(c, [Idle EXCEPT !.pc = "session", !.op = op, !.via = s])
       \/ \E p, n \in Passwords :
            Accept(c, [Idle EXCEPT !.pc = "session", !.op = "change", !.via = s,
                                   !.pw = p, !.new = n])
  \/ /\ key # "none"
     /\ \E p, n \in Passwords :
          Accept(c, [Idle EXCEPT !.pc = "key", !.op = "change", !.pw = p, !.new = n])

\* Requests of an administrator about this account.  A PUT carries as If-Match
\* the updated_at its client has read.
RequestOfAdmin(c) ==
  \/ \E p \in Passwords : Accept(c, [Idle EXCEPT !.pc = "insert", !.op = "create", !.new = p])
  \/ /\ user # NoUser
     /\ \E op \in {"edit", "deactivate"} :
          Accept(c, [Idle EXCEPT !.pc = "load", !.op = op, !.fresh = TRUE])
  \/ \E p \in Passwords : Accept(c, [Idle EXCEPT !.pc = "load", !.op = "reset", !.new = p])

-----------------------------------------------------------------------------
(* Steps. *)

Goto(c, r) == /\ req' = [req EXCEPT ![c] = r]
              /\ UNCHANGED <<user, linked, key, sessions, requests, faults, excused>>

\* The handler reads the row; what it does next depends on it.
Read(c, pc) == [req[c] EXCEPT !.pc = pc, !.copy = user, !.old = FALSE]

\* A write of the row by c, which goes on as r: the updated_at others read is
\* no longer the row's.
Written(c, r) ==
  [d \in Clients |-> IF d = c THEN r
                     ELSE IF req[d].pc = "idle" THEN Idle ELSE [req[d] EXCEPT !.fresh = FALSE]]

\* The same of a write that replaces the credentials.
Replaced(c, r) ==
  [d \in Clients |-> IF d = c THEN r
                     ELSE IF req[d].pc = "idle" THEN Idle
                     ELSE [req[d] EXCEPT !.fresh = FALSE, !.old = TRUE]]

Regraded(g) == [s \in DOMAIN sessions |-> [sessions[s] EXCEPT !.grade = g]]

Only(S) == [s \in DOMAIN sessions \cap S |-> sessions[s]]

\* GetByUsername and the checks made on the copy.
GetByUsername(c) ==
  /\ req[c].pc = "byname"
  /\ Goto(c, IF user = NoUser \/ user.lock = "until" \/ ~user.active \/ user.method # "password"
             THEN Idle
             ELSE Read(c, IF user.pw = req[c].pw THEN "forgive" ELSE "count"))

\* Fault: the lock comes one failure late.
AfterCountLate(c) ==
  IF req[c].copy.failed >= Threshold THEN [req[c] EXCEPT !.pc = "lock"] ELSE Idle

\* IncrementFailedLogins; the decision to lock is made on the copy.
AfterCount(c) ==
  IF req[c].copy.failed + 1 >= Threshold THEN [req[c] EXCEPT !.pc = "lock"] ELSE Idle

IncrementFailedLogins(c) ==
  /\ req[c].pc = "count"
  /\ user' = [user EXCEPT !.failed = @ + 1]
  /\ req' = Written(c, AfterCount(c))
  /\ UNCHANGED <<linked, key, sessions, requests, faults, excused>>

LockAccount(c) ==
  /\ req[c].pc = "lock"
  /\ user' = [user EXCEPT !.lock = "until"]
  /\ req' = Written(c, Idle)
  /\ UNCHANGED <<linked, key, sessions, requests, faults, excused>>

ResetFailedLogins(c) ==
  /\ req[c].pc = "forgive"
  /\ user' = [user EXCEPT !.failed = 0, !.lock = "none"]
  /\ req' = Written(c, [req[c] EXCEPT !.pc = "open"])
  /\ excused' = excused \ {"lock"}
  /\ UNCHANGED <<linked, key, sessions, requests, faults>>

\* sessions.Create, the last statement of a sign-in of either kind.  The id is
\* random: none that any request still holds.
CreateSession(c) ==
  /\ req[c].pc = "open"
  /\ LET free == SessionIds \ (DOMAIN sessions \cup {req[d].via : d \in Clients})
         s == CHOOSE i \in free : TRUE
     IN  /\ free # {}
         /\ sessions' = [i \in DOMAIN sessions \cup {s} |->
                           IF i = s THEN [idle |-> FALSE,
                                          grade |-> IF req[c].old THEN "late" ELSE "current"]
                           ELSE sessions[i]]
  /\ req' = [req EXCEPT ![c] = Idle]
  /\ UNCHANGED <<user, linked, key, requests, faults, excused>>

-----------------------------------------------------------------------------
(* The middleware. *)

\* What an authenticated request does first.
Enter(op) == CASE op = "logout" -> "drop" [] op = "change" -> "verify" [] OTHER -> "must"

\* GetSessionUser: a session that is idle, or gone, is refused.
GetSession(c) ==
  /\ req[c].pc = "session"
  /\ Goto(c, IF req[c].via \in DOMAIN sessions /\ ~sessions[req[c].via].idle
             THEN [req[c] EXCEPT !.pc = "touch"] ELSE Idle)

\* TouchSession: also a session that went idle since it was found.
Touch(c) ==
  /\ req[c].pc = "touch"
  /\ sessions' = [s \in DOMAIN sessions |->
                    IF s = req[c].via THEN [sessions[s] EXCEPT !.idle = FALSE] ELSE sessions[s]]
  /\ req' = [req EXCEPT ![c].pc = Enter(req[c].op)]
  /\ UNCHANGED <<user, linked, key, requests, faults, excused>>

\* ValidateAPIKey: the key, then its user, who must be active.
GetByHash(c) ==
  /\ req[c].pc = "key"
  /\ Goto(c, IF key = "active" THEN [req[c] EXCEPT !.pc = "owner"] ELSE Idle)

GetOwner(c) ==
  /\ req[c].pc = "owner"
  /\ Goto(c, IF user.active THEN [req[c] EXCEPT !.pc = Enter(req[c].op)] ELSE Idle)

\* MustChangePassMiddleware, in front of /api/v1 and not of /auth.
GetMustChangePass(c) ==
  /\ req[c].pc = "must"
  /\ Goto(c, IF user.must THEN Idle ELSE [req[c] EXCEPT !.pc = "apikey"])

\* Create and Revoke of API keys; a key is never made active again.
WriteKey(c) ==
  /\ req[c].pc = "apikey"
  /\ key' = IF key = "none" /\ req[c].op = "mint" THEN "active"
            ELSE IF key = "active" /\ req[c].op = "revoke" THEN "revoked"
            ELSE key
  /\ req' = [req EXCEPT ![c] = Idle]
  /\ UNCHANGED <<user, linked, sessions, requests, faults, excused>>

Logout(c) ==
  /\ req[c].pc = "drop"
  /\ sessions' = Only(SessionIds \ {req[c].via})
  /\ req' = [req EXCEPT ![c] = Idle]
  /\ UNCHANGED <<user, linked, key, requests, faults, excused>>

-----------------------------------------------------------------------------
(* The row: password change, administration, the linking of a Google account. *)

\* HandleChangePassword reads the row and verifies the password sent.
VerifyPassword(c) ==
  /\ req[c].pc = "verify"
  /\ Goto(c, IF user.pw = req[c].pw THEN [req[c] EXCEPT !.pc = "load"] ELSE Idle)

\* The GetByID whose row Update will write: that of the adapters' UpdatePassword
\* and UpdateAuthMethod, and of the handlers of an administrator's requests.
GetByID(c) ==
  /\ req[c].pc = "load"
  /\ Goto(c, IF user = NoUser THEN Idle
             ELSE [req[c] EXCEPT !.pc = "update", !.copy = user,
                                 !.fresh = IF req[c].op = "edit" THEN @ ELSE TRUE])

\* What the request makes of the row it read; a is the is_active of a PUT.
Draft(c, a) ==
  CASE req[c].op = "change"     -> [req[c].copy EXCEPT !.pw = req[c].new, !.must = FALSE]
    [] req[c].op = "reset"      -> [req[c].copy EXCEPT !.pw = req[c].new, !.must = TRUE,
                                                       !.method = "password"]
    [] req[c].op = "google"     -> [req[c].copy EXCEPT !.pw = NoPassword, !.method = "google"]
    [] req[c].op = "edit"       -> [req[c].copy EXCEPT !.active = a]
    [] req[c].op = "deactivate" -> [req[c].copy EXCEPT !.active = FALSE]

\* Fault: the UPDATE forgets auth_method.
ColumnsButMethod(r) == [user EXCEPT !.pw = r.pw, !.must = r.must, !.active = r.active]

\* UserStore.Update: every column but failed_logins and locked_until.
Columns(r) == [r EXCEPT !.failed = user.failed, !.lock = user.lock]

\* Where an Update that succeeds leads.  Only a password change revokes sessions.
AfterUpdate(c) ==
  CASE req[c].op = "change" -> [req[c] EXCEPT !.pc = "revoke"]
    [] req[c].op = "reset"  -> [req[c] EXCEPT !.pc = "disconnect"]
    [] req[c].op = "google" -> IF req[c].alive THEN [req[c] EXCEPT !.pc = "forgive", !.old = FALSE]
                               ELSE Idle
    [] OTHER                -> Idle

Credentials(r) == <<r.method, r.pw>>

\* Fault: updated_at is not compared.
MatchesById(c) == TRUE

\* WHERE id = $1 AND updated_at = $10.
Matches(c) == req[c].fresh

Update(c) ==
  /\ req[c].pc = "update" /\ Matches(c)
  /\ \E a \in BOOLEAN : user' = Columns(Draft(c, a))
  /\ IF req[c].op \in {"change", "reset", "google"}
     THEN /\ req' = Replaced(c, AfterUpdate(c))
          /\ sessions' = Regraded(IF req[c].op = "change" THEN "old" ELSE "spared")
     ELSE /\ req' = Written(c, AfterUpdate(c))
          /\ UNCHANGED sessions
  /\ UNCHANGED <<linked, key, requests, faults, excused>>

\* What is left undone when the requests of S go no further.
Undone(S) ==
  {u \in {"lock", "link"} : \E c \in S :
     \/ u = "lock" /\ req[c].pc = "lock"
     \/ u = "link" /\ linked /\ \/ req[c].op = "google" /\ req[c].pc \in {"load", "update"}
                                \/ req[c].pc = "disconnect"}

\* 409 to a PUT, 500 to the others; a linking has made its connection already.
Conflict(c) ==
  /\ req[c].pc = "update" /\ ~Matches(c)
  /\ req' = [req EXCEPT ![c] = Idle]
  /\ excused' = excused \cup Undone({c})
  /\ UNCHANGED <<user, linked, key, sessions, requests, faults>>

\* Fault: the session kept is the only one deleted.
RevokeOwn(c) ==
  /\ req[c].pc = "revoke"
  /\ sessions' = Only(SessionIds \ {req[c].via})
  /\ req' = [req EXCEPT ![c] = Idle]
  /\ UNCHANGED <<user, linked, key, requests, faults, excused>>

\* DeleteOthersByUserID, or DeleteByUserID if the request came with a key.
Revoke(c) ==
  /\ req[c].pc = "revoke"
  /\ sessions' = [s \in DOMAIN sessions \cap {req[c].via} |-> [sessions[s] EXCEPT !.grade = "kept"]]
  /\ req' = [req EXCEPT ![c] = Idle]
  /\ UNCHANGED <<user, linked, key, requests, faults, excused>>

\* Fault: ResetAuth leaves the connection.
DisconnectNothing(c) ==
  /\ req[c].pc = "disconnect"
  /\ Goto(c, Idle)

\* The DELETE on oauth_connections that follows a reset.
Disconnect(c) ==
  /\ req[c].pc = "disconnect"
  /\ linked' = FALSE
  /\ excused' = excused \ {"link"}
  /\ req' = [req EXCEPT ![c] = Idle]
  /\ UNCHANGED <<user, key, sessions, requests, faults>>

\* INSERT INTO users; username and e-mail are UNIQUE.
CreateUser(c) ==
  /\ req[c].pc \in {"insert", "register"}
  /\ IF user = NoUser
     THEN /\ user' = IF req[c].op = "create" THEN NewUser("password", req[c].new, FALSE)
                     ELSE NewUser("google", NoPassword, FALSE)
          /\ req' = [req EXCEPT ![c] = IF req[c].op = "create" THEN Idle
                                       ELSE [@ EXCEPT !.pc = "attach", !.alive = TRUE]]
     ELSE req' = [req EXCEPT ![c] = Idle] /\ UNCHANGED user
  /\ UNCHANGED <<linked, key, sessions, requests, faults, excused>>

\* linkAccount: the connection, then the user it belongs to.
GetByProviderUID(c) ==
  /\ req[c].pc = "byuid"
  /\ Goto(c, [req[c] EXCEPT !.pc = IF linked THEN "byid" ELSE "byemail"])

GetLinkedUser(c) ==
  /\ req[c].pc = "byid"
  /\ Goto(c, IF user.active THEN Read(c, "forgive") ELSE Idle)

GetByEmail(c) ==
  /\ req[c].pc = "byemail"
  /\ Goto(c, IF user = NoUser THEN [req[c] EXCEPT !.pc = "register"]
             ELSE [Read(c, "connect") EXCEPT !.alive = user.active])

\* INSERT INTO oauth_connections; UNIQUE(provider, provider_uid).  An existing
\* user is then to be updated; a new one only signed in, even if it has been
\* reset to a password since it was made.
Connect(c) ==
  /\ req[c].pc \in {"connect", "attach"}
  /\ linked' = TRUE
  /\ excused' = IF req[c].pc = "attach" /\ user.method = "password"
                THEN excused \cup {"link"} ELSE excused
  /\ req' = [req EXCEPT ![c] =
                IF linked THEN Idle
                ELSE [req[c] EXCEPT !.pc = IF req[c].pc = "connect" THEN "load" ELSE "forgive"]]
  /\ UNCHANGED <<user, key, sessions, requests, faults>>

-----------------------------------------------------------------------------
(* Time and faults. *)

\* locked_until passes.
LockElapses ==
  /\ user # NoUser /\ user.lock = "until"
  /\ user' = [user EXCEPT !.lock = "past"]
  /\ UNCHANGED <<linked, key, sessions, req, requests, faults, excused>>

\* 30 minutes without a request of the session.
GoIdle(s) ==
  /\ ~sessions[s].idle
  /\ sessions' = [sessions EXCEPT ![s].idle = TRUE]
  /\ UNCHANGED <<user, linked, key, req, requests, faults, excused>>

\* DeleteExpired, every ten minutes: sessions that are idle, and those of S,
\* opened 8 hours ago and invisible to GetByID since.
DeleteExpired ==
  \E S \in SUBSET DOMAIN sessions :
    /\ sessions' = Only({s \in SessionIds \ S : s \in DOMAIN sessions /\ ~sessions[s].idle})
    /\ sessions' # sessions
    /\ UNCHANGED <<user, linked, key, req, requests, faults, excused>>

\* What a request does when its statement fails: most errors end it, these not.
\* linkAccount takes any error of a lookup for "not found".
Ignoring(c) ==
  CASE req[c].pc = "count"   -> AfterCount(c)
    [] req[c].pc = "byuid"   -> [req[c] EXCEPT !.pc = "byemail"]
    [] req[c].pc = "byemail" -> [req[c] EXCEPT !.pc = "register"]
    [] req[c].pc = "forgive" -> [req[c] EXCEPT !.pc = "open"]
    [] req[c].pc = "touch"   -> [req[c] EXCEPT !.pc = Enter(req[c].op)]
    [] req[c].pc = "must"    -> [req[c] EXCEPT !.pc = "apikey"]
    [] OTHER                 -> Idle

Faulty(S) ==
  /\ faults < MaxFaults
  /\ faults' = faults + 1
  /\ excused' = excused \cup Undone(S)
  /\ sessions' = IF \E c \in S : req[c].pc = "revoke" THEN Regraded("spared") ELSE sessions
  /\ UNCHANGED <<user, linked, key, requests>>

StatementFails(c) ==
  /\ req[c].pc # "idle"
  /\ req' = [req EXCEPT ![c] = Ignoring(c)]
  /\ Faulty({c})

\* The process dies, or the clients of S go away and take their contexts along.
Interrupt(S) ==
  /\ \A c \in S : req[c].pc # "idle"
  /\ req' = [c \in Clients |-> IF c \in S THEN Idle ELSE req[c]]
  /\ Faulty(S)

Next ==
  \/ \E c \in Clients :
       \/ RequestLogin(c) \/ RequestGoogle(c) \/ RequestOfUser(c) \/ RequestOfAdmin(c)
       \/ GetByUsername(c) \/ IncrementFailedLogins(c) \/ LockAccount(c)
       \/ ResetFailedLogins(c) \/ CreateSession(c)
       \/ GetSession(c) \/ Touch(c) \/ GetByHash(c) \/ GetOwner(c) \/ GetMustChangePass(c)
       \/ WriteKey(c) \/ Logout(c)
       \/ VerifyPassword(c) \/ GetByID(c) \/ Update(c) \/ Conflict(c)
       \/ Revoke(c) \/ Disconnect(c) \/ CreateUser(c)
       \/ GetByProviderUID(c) \/ GetLinkedUser(c) \/ GetByEmail(c) \/ Connect(c)
       \/ StatementFails(c)
  \/ \E S \in SUBSET Clients \ {{}} : Interrupt(S)
  \/ LockElapses
  \/ \E s \in DOMAIN sessions : GoIdle(s)
  \/ DeleteExpired

Spec == Init /\ [][Next]_vars

-----------------------------------------------------------------------------
(***************************************************************************)
(* Properties.                                                             *)
(***************************************************************************)

Request ==
  [pc : {"idle", "byname", "count", "lock", "forgive", "open", "session", "touch", "key", "owner",
         "must", "apikey", "drop", "verify", "load", "update", "revoke", "disconnect", "insert",
         "register", "attach", "connect", "byuid", "byid", "byemail"},
   op : {"none", "login", "google", "logout", "mint", "revoke", "change", "create", "edit",
         "deactivate", "reset"},
   via : {0} \cup SessionIds, copy : User \cup {NoUser}, fresh : BOOLEAN, old : BOOLEAN,
   pw : Passwords \cup {NoPassword}, new : Passwords \cup {NoPassword}, alive : BOOLEAN]

\* The type invariant: an account whose method is its password has one (not the
\* converse: a change that overlaps a linking gives a Google account a password),
\* and nothing belongs to a user that is not there.
TypeOK ==
  /\ user \in User \cup {NoUser}
  /\ user # NoUser /\ user.method = "password" => user.pw # NoPassword
  /\ linked \in BOOLEAN /\ key \in {"none", "active", "revoked"}
  /\ DOMAIN sessions \subseteq SessionIds
  /\ \A s \in DOMAIN sessions : sessions[s] \in Session
  /\ user = NoUser => ~linked /\ key = "none" /\ sessions = << >>
  /\ req \in [Clients -> Request]
  /\ requests \in 0..MaxRequests /\ faults \in 0..MaxFaults
  /\ excused \subseteq {"lock", "link"}

\* docs/authentication.md:41, as far as it goes: an account is locked, or was,
\* once Threshold attempts in a row have failed.  The lock is decided on a copy
\* of the counter, so attempts side by side may each find it too low; but each
\* of the other clients can hide one failure only, and then the lock is there,
\* on its way, or lost with the error nobody looks at.
LockedInTime ==
  user # NoUser /\ user.failed >= Threshold + Cardinality(Clients) - 1
    => \/ user.lock # "none" \/ "lock" \in excused
       \/ \E c \in Clients : req[c].pc = "lock"

\* An account's method and password change, and the duty to change the password
\* ends, only by a request meant to: no edit or deactivation prepared before a
\* change, a reset or a linking brings back what it replaced, and each of those
\* is made of the row as it is when it writes.
CredentialsKept ==
  [][user # NoUser /\ (Credentials(user') # Credentials(user) \/ (user.must /\ ~user'.must)) =>
       \E c \in Clients :
         /\ req[c].pc = "update" /\ req[c].copy.must = user.must
         /\ req[c].op \in {"change", "reset", "google"}
         /\ Credentials(req[c].copy) = Credentials(user)
         /\ (user.must /\ ~user'.must) => req[c].op = "change" /\ user'.pw = req[c].new]_vars

\* handler.go:377: a password change ends all other sessions.  Those that outlive
\* it are the one it came with, and those of sign-ins that had verified the
\* former password when it changed, unless the revocation itself failed.
OldSessionsEnd ==
  (\E s \in DOMAIN sessions : sessions[s].grade = "old")
    => \E c \in Clients : req[c].pc = "revoke"

\* An account with a Google connection signs in with Google only, and a reset
\* one with its password only: the two writes of each are both made, but for an
\* interruption between them or a write of the row that gets in between.
LinkComplete ==
  linked /\ user.method = "password"
    => \/ "link" \in excused
       \/ \E c \in Clients : \/ req[c].pc = "disconnect"
                             \/ req[c].op = "google" /\ req[c].pc \in {"load", "update"}
=============================================================================
