--------------------------- MODULE Accounts_proof ---------------------------
(***************************************************************************)
(* Proofs about Accounts, for any number of clients, passwords, requests   *)
(* and faults, and any threshold.  No statement holds a lock: what the     *)
(* invariant says of a request is what no other one can undo, or what is   *)
(* true as long as updated_at is what the request has read.                *)
(***************************************************************************)
EXTENDS Accounts, FiniteSetTheorems, TLAPS

\* The type of what is not a request.
RowsType ==
  /\ user \in User \cup {NoUser}
  /\ user # NoUser /\ user.method = "password" => user.pw # NoPassword
  /\ linked \in BOOLEAN /\ key \in {"none", "active", "revoked"}
  /\ DOMAIN sessions \subseteq SessionIds
  /\ \A s \in DOMAIN sessions : sessions[s] \in Session
  /\ user = NoUser => ~linked /\ key = "none" /\ sessions = << >>
  /\ requests \in 0..MaxRequests /\ faults \in 0..MaxFaults
  /\ excused \subseteq {"lock", "link"}

\* What a request is at each pc: whose handler runs, and what its body set.
Route(q) ==
  /\ q.pc = "idle" => q = Idle
  /\ q.pc \in {"byname", "count", "lock"} => q.op = "login"
  /\ q.pc \in {"forgive", "open"} => q.op \in {"login", "google"}
  /\ q.pc \in {"session", "touch"} => q.op \in {"logout", "mint", "revoke", "change"}
  /\ q.pc \in {"key", "owner", "verify", "revoke"} => q.op = "change"
  /\ q.pc \in {"must", "apikey"} => q.op \in {"mint", "revoke"}
  /\ q.pc = "drop" => q.op = "logout"
  /\ q.pc \in {"load", "update"} =>
       q.op \in {"change", "reset", "google", "edit", "deactivate"}
  /\ q.pc = "disconnect" => q.op = "reset"
  /\ q.pc = "insert" => q.op = "create"
  /\ q.pc \in {"byuid", "byid", "byemail", "register", "attach", "connect"} => q.op = "google"
  /\ q.op \in {"change", "reset", "create"} => q.new \in Passwords

\* A request that has found the user, a session or a key: the user is there, and
\* no code removes it.
Found(q) ==
  \/ q.pc \in {"idle", "byname", "byuid", "byemail", "register", "insert"}
  \/ q.pc = "load" /\ q.op \in {"reset", "edit", "deactivate"}
  \/ user # NoUser

\* Whoever is about to write the row with an updated_at that is the row's has read
\* the credentials as they are.
Current(q) ==
  /\ q.pc = "update" =>
       /\ q.copy \in User
       /\ q.copy.method = "password" => q.copy.pw # NoPassword
       /\ q.fresh => /\ Credentials(q.copy) = Credentials(user)
                     /\ q.copy.must = user.must
  /\ q.pc = "count" => q.copy \in User

RequestsOK == \A c \in Clients : Route(req[c]) /\ Found(req[c]) /\ Current(req[c])

\* The failed sign-ins that will not lock: each was decided on a count below the
\* threshold.  Together with those counted they are one short of the threshold and
\* of one for each other client.
Hidden == {c \in Clients : req[c].pc = "count" /\ req[c].copy.failed + 1 < Threshold}

Unlocked ==
  /\ user # NoUser /\ user.lock = "none" /\ "lock" \notin excused
  /\ \A c \in Clients : req[c].pc # "lock"

FewHidden ==
  Unlocked => user.failed + Cardinality(Hidden) + 2 <= Threshold + Cardinality(Clients)

IInv == TypeOK /\ RequestsOK /\ FewHidden /\ OldSessionsEnd /\ LinkComplete

-----------------------------------------------------------------------------
(***************************************************************************)
(* Steps, by the requests they move.                                       *)
(***************************************************************************)

\* The step leaves the credentials as they are.
RowKept == user # NoUser => Credentials(user') = Credentials(user) /\ user'.must = user.must

\* The requests of C move; of the others, only the history changes, and fresh
\* where the row is written.
Rest(C) ==
  /\ req' \in [Clients -> Request]
  /\ \A d \in Clients \ C :
       /\ req'[d].pc = req[d].pc /\ req'[d].op = req[d].op
       /\ req'[d].copy = req[d].copy /\ req'[d].new = req[d].new
       /\ req[d].pc = "idle" => req'[d] = req[d]
       /\ req'[d].fresh => req[d].fresh /\ RowKept

\* The type invariant, as that of the rows and that of the requests.
LEMMA Types == TypeOK <=> RowsType /\ req \in [Clients -> Request]
  BY DEF TypeOK, RowsType

\* A client without a request.
LEMMA IdleType == Idle \in Request /\ Route(Idle) /\ Found(Idle) /\ Current(Idle)
  BY DEF Idle, Request, Route, Found, Current

\* A step of one request, which the others do not notice.
LEMMA OneMoves ==
  ASSUME IInv, NEW c \in Clients, NEW r \in Request, req' = [req EXCEPT ![c] = r], RowKept
  PROVE  Rest({c}) /\ req'[c] = r
  BY DEF IInv, TypeOK, Rest

\* What a write leaves of the request of another client.
LEMMA Overtaken ==
  ASSUME NEW q \in Request, NEW w,
         w = [q EXCEPT !.fresh = FALSE] \/ w = [q EXCEPT !.fresh = FALSE, !.old = TRUE]
  PROVE  /\ w \in Request /\ ~w.fresh
         /\ w.pc = q.pc /\ w.op = q.op /\ w.copy = q.copy /\ w.new = q.new
<1>1. CASE w = [q EXCEPT !.fresh = FALSE]
  BY <1>1 DEF Request
<1>2. CASE w = [q EXCEPT !.fresh = FALSE, !.old = TRUE]
  BY <1>2 DEF Request
<1> QED
  BY <1>1, <1>2

\* A write of the row by the request of c.
LEMMA WriterMoves ==
  ASSUME IInv, NEW c \in Clients, NEW r \in Request,
         req' = Written(c, r) \/ req' = Replaced(c, r)
  PROVE  Rest({c}) /\ req'[c] = r
<1>1. req \in [Clients -> Request] /\ Idle \in Request /\ ~Idle.fresh
  BY IdleType DEF IInv, TypeOK, Idle
<1>2. \A d \in Clients : req[d].pc = "idle" => req[d] = Idle
  BY DEF IInv, RequestsOK, Route
<1>3. ASSUME NEW d \in Clients, d # c
      PROVE  /\ Written(c, r)[d] \in Request /\ Replaced(c, r)[d] \in Request
             /\ \A w \in {Written(c, r)[d], Replaced(c, r)[d]} :
                  /\ w.pc = req[d].pc /\ w.op = req[d].op
                  /\ w.copy = req[d].copy /\ w.new = req[d].new
                  /\ ~w.fresh /\ (req[d].pc = "idle" => w = req[d])
  <2>1. req[d] \in Request
    BY <1>1
  <2>2. CASE req[d].pc = "idle"
    BY <1>1, <1>2, <1>3, <2>2 DEF Written, Replaced
  <2>3. CASE req[d].pc # "idle"
    <3>1. /\ Written(c, r)[d] = [req[d] EXCEPT !.fresh = FALSE]
          /\ Replaced(c, r)[d] = [req[d] EXCEPT !.fresh = FALSE, !.old = TRUE]
      BY <1>3, <2>3 DEF Written, Replaced
    <3> QED
      BY <2>1, <2>3, <3>1, Overtaken
  <2> QED
    BY <2>2, <2>3
<1>4. Written(c, r)[c] = r /\ Replaced(c, r)[c] = r
  BY DEF Written, Replaced
<1>5. Written(c, r) \in [Clients -> Request] /\ Replaced(c, r) \in [Clients -> Request]
  <2>1. \A d \in Clients : Written(c, r)[d] \in Request /\ Replaced(c, r)[d] \in Request
    BY <1>3, <1>4
  <2>2. /\ Written(c, r) = [d \in Clients |-> Written(c, r)[d]]
        /\ Replaced(c, r) = [d \in Clients |-> Replaced(c, r)[d]]
    BY DEF Written, Replaced
  <2> QED
    BY <2>1, <2>2
<1> QED
  BY <1>3, <1>4, <1>5 DEF Rest

\* The requests keep their part of the invariant if those that move do.
LEMMA RequestsKept ==
  ASSUME IInv, NEW C \in SUBSET Clients, Rest(C), user # NoUser => user' # NoUser,
         \A c \in C : Route(req'[c]) /\ Found(req[c])' /\ Current(req[c])'
  PROVE  RequestsOK'
<1> SUFFICES ASSUME NEW d \in Clients \ C
             PROVE  Route(req[d])' /\ Found(req[d])' /\ Current(req[d])'
  BY DEF RequestsOK, Route
<1>1. Route(req[d]) /\ Found(req[d]) /\ Current(req[d])
  BY DEF IInv, RequestsOK
<1>2. Route(req[d])'
  BY <1>1 DEF Rest, Route, Idle
<1>3. Found(req[d])'
  BY <1>1 DEF Rest, Found
<1>4. Current(req[d])'
  BY <1>1 DEF Rest, Current, RowKept, Found
<1> QED
  BY <1>2, <1>3, <1>4

\* Nobody fails to sign in, or is about to lock, because of it.
LEMMA HiddenKept ==
  ASSUME IInv, NEW C \in SUBSET Clients, Rest(C), \A c \in C : req'[c].pc # "count",
         Unlocked' => Unlocked /\ user'.failed = user.failed
  PROVE  FewHidden'
<1> SUFFICES ASSUME Unlocked'
             PROVE  user'.failed + Cardinality(Hidden') + 2 <= Threshold + Cardinality(Clients)
  BY DEF FewHidden
<1>1. Hidden' \subseteq Hidden
  BY DEF Hidden, Rest
<1>2. IsFiniteSet(Hidden)
  BY FS_Subset, AccountsAssumption DEF Hidden
<1>3. Cardinality(Hidden') <= Cardinality(Hidden)
  BY <1>1, <1>2, FS_Subset
<1>4. IsFiniteSet(Hidden') /\ Cardinality(Hidden) \in Nat /\ Cardinality(Hidden') \in Nat
      /\ Cardinality(Clients) \in Nat
  BY <1>1, <1>2, FS_Subset, FS_CardinalityType, AccountsAssumption
<1>5. user.failed \in Nat
  BY DEF IInv, TypeOK, Unlocked, User
<1>6. user.failed + Cardinality(Hidden) + 2 <= Threshold + Cardinality(Clients)
  BY DEF IInv, FewHidden
<1> QED
  BY <1>3, <1>4, <1>5, <1>6, AccountsAssumption

\* Sessions of before a password change have their revocation to come.
LEMMA OldKept ==
  ASSUME IInv, NEW C \in SUBSET Clients, Rest(C), \A c \in C : req[c].pc # "revoke",
         \A s \in DOMAIN sessions' :
           sessions'[s].grade = "old" => s \in DOMAIN sessions /\ sessions[s].grade = "old"
  PROVE  OldSessionsEnd'
  BY DEF IInv, OldSessionsEnd, Rest

\* c is between the two writes of a linking or a reset.
Halfway(c) ==
  \/ req[c].pc = "disconnect"
  \/ req[c].op = "google" /\ req[c].pc \in {"load", "update"}

\* The second write of a linking, or of a reset, is still to come.
LEMMA LinkKept ==
  ASSUME IInv, NEW C \in SUBSET Clients, Rest(C), \A c \in C : Halfway(c) => Halfway(c)',
         linked' /\ user'.method = "password" =>
           linked /\ user.method = "password" /\ ("link" \in excused => "link" \in excused')
  PROVE  LinkComplete'
  BY DEF IInv, LinkComplete, Rest, Halfway

-----------------------------------------------------------------------------
(***************************************************************************)
(* Steps of one request that leave the account alone.                      *)
(***************************************************************************)

\* A step of c, which goes on as r, that changes neither the row nor what is
\* excused, and opens no former session.
LEMMA Quiet ==
  ASSUME IInv, NEW c \in Clients, NEW r \in Request, req' = [req EXCEPT ![c] = r],
         UNCHANGED <<user, linked, excused>>, RowsType',
         \A s \in DOMAIN sessions' :
           sessions'[s].grade = "old" => s \in DOMAIN sessions /\ sessions[s].grade = "old",
         Route(r), Found(r), Current(r), r.pc # "count", req[c].pc \notin {"revoke", "lock"},
         Halfway(c) => r.pc = "disconnect" \/ (r.op = "google" /\ r.pc \in {"load", "update"})
  PROVE  IInv'
<1>1. Rest({c}) /\ req'[c] = r
  BY OneMoves DEF RowKept
<1>2. TypeOK'
  BY <1>1, Types DEF Rest, TypeOK, RowsType
<1>3. RequestsOK'
  <2>1. Route(req'[c]) /\ Found(req[c])' /\ Current(req[c])'
    BY <1>1 DEF Found, Current
  <2> QED
    BY <1>1, <2>1, RequestsKept
<1>4. FewHidden'
  <2>1. Unlocked' => Unlocked
    BY <1>1 DEF Rest, Unlocked
  <2> QED
    BY <1>1, <2>1, HiddenKept
<1>5. OldSessionsEnd'
  BY <1>1, OldKept
<1>6. LinkComplete'
  BY <1>1, LinkKept DEF Halfway
<1> QED
  BY <1>2, <1>3, <1>4, <1>5, <1>6 DEF IInv

\* The same, for a step that changes only the request.
LEMMA Moved ==
  ASSUME IInv, NEW c \in Clients, NEW r \in Request, Goto(c, r),
         Route(r), Found(r), Current(r), r.pc # "count", req[c].pc \notin {"revoke", "lock"},
         Halfway(c) => r.pc = "disconnect" \/ (r.op = "google" /\ r.pc \in {"load", "update"})
  PROVE  IInv'
<1>1. RowsType'
  BY DEF Goto, IInv, TypeOK, RowsType
<1> QED
  BY <1>1, Quiet DEF Goto

\* A new request.
LEMMA Accepted ==
  ASSUME IInv, NEW c \in Clients, NEW r \in Request, Accept(c, r),
         Route(r), Found(r), Current(r), r.pc # "count"
  PROVE  IInv'
<1>1. RowsType'
  BY AccountsAssumption DEF Accept, IInv, TypeOK, RowsType
<1>2. req[c].pc = "idle" /\ ~Halfway(c)
  BY DEF Accept, Halfway
<1> QED
  BY <1>1, <1>2, Quiet DEF Accept

\* Requests come in.
LEMMA RequestStep ==
  ASSUME IInv, NEW c \in Clients,
         RequestLogin(c) \/ RequestGoogle(c) \/ RequestOfUser(c) \/ RequestOfAdmin(c)
  PROVE  IInv'
<1>u. user = NoUser => key = "none" /\ sessions = << >>
  BY DEF IInv, TypeOK
<1> DEFINE Good(r) == r \in Request /\ Route(r) /\ Found(r) /\ Current(r) /\ r.pc # "count"
<1>a. ASSUME NEW r, Accept(c, r), Good(r) PROVE IInv'
  BY <1>a, Accepted
<1>1. CASE RequestLogin(c)
  <2>1. PICK p \in Passwords : Accept(c, [Idle EXCEPT !.pc = "byname", !.op = "login", !.pw = p])
    BY <1>1 DEF RequestLogin
  <2>2. Good([Idle EXCEPT !.pc = "byname", !.op = "login", !.pw = p])
    BY IdleType DEF Idle, Request, Route, Found, Current
  <2> QED
    BY <1>a, <2>1, <2>2
<1>2. CASE RequestGoogle(c)
  <2>1. Good([Idle EXCEPT !.pc = "byuid", !.op = "google"])
    BY IdleType DEF Idle, Request, Route, Found, Current
  <2> QED
    BY <1>2, <1>a, <2>1 DEF RequestGoogle
<1>3. CASE RequestOfUser(c)
  <2>1. ASSUME NEW s \in DOMAIN sessions, NEW op \in {"logout", "mint", "revoke"},
               Accept(c, [Idle EXCEPT !.pc = "session", !.op = op, !.via = s])
        PROVE  IInv'
    <3>1. user # NoUser /\ s \in SessionIds
      BY <1>u DEF IInv, TypeOK
    <3>2. Good([Idle EXCEPT !.pc = "session", !.op = op, !.via = s])
      BY <3>1, IdleType DEF Idle, Request, Route, Found, Current
    <3> QED
      BY <1>a, <2>1, <3>2
  <2>2. ASSUME NEW s \in DOMAIN sessions, NEW p \in Passwords, NEW n \in Passwords,
               Accept(c, [Idle EXCEPT !.pc = "session", !.op = "change", !.via = s,
                                      !.pw = p, !.new = n])
        PROVE  IInv'
    <3>1. user # NoUser /\ s \in SessionIds
      BY <1>u DEF IInv, TypeOK
    <3>2. Good([Idle EXCEPT !.pc = "session", !.op = "change", !.via = s, !.pw = p, !.new = n])
      BY <3>1, IdleType DEF Idle, Request, Route, Found, Current
    <3> QED
      BY <1>a, <2>2, <3>2
  <2>3. ASSUME key # "none", NEW p \in Passwords, NEW n \in Passwords,
               Accept(c, [Idle EXCEPT !.pc = "key", !.op = "change", !.pw = p, !.new = n])
        PROVE  IInv'
    <3>1. user # NoUser
      BY <1>u, <2>3
    <3>2. Good([Idle EXCEPT !.pc = "key", !.op = "change", !.pw = p, !.new = n])
      BY <3>1, IdleType DEF Idle, Request, Route, Found, Current
    <3> QED
      BY <1>a, <2>3, <3>2
  <2> QED
    BY <1>3, <2>1, <2>2, <2>3 DEF RequestOfUser
<1>4. CASE RequestOfAdmin(c)
  <2>1. ASSUME NEW p \in Passwords,
               Accept(c, [Idle EXCEPT !.pc = "insert", !.op = "create", !.new = p])
        PROVE  IInv'
    <3>1. Good([Idle EXCEPT !.pc = "insert", !.op = "create", !.new = p])
      BY IdleType DEF Idle, Request, Route, Found, Current
    <3> QED
      BY <1>a, <2>1, <3>1
  <2>2. ASSUME NEW op \in {"edit", "deactivate"},
               Accept(c, [Idle EXCEPT !.pc = "load", !.op = op, !.fresh = TRUE])
        PROVE  IInv'
    <3>1. Good([Idle EXCEPT !.pc = "load", !.op = op, !.fresh = TRUE])
      BY IdleType DEF Idle, Request, Route, Found, Current
    <3> QED
      BY <1>a, <2>2, <3>1
  <2>3. ASSUME NEW p \in Passwords,
               Accept(c, [Idle EXCEPT !.pc = "load", !.op = "reset", !.new = p])
        PROVE  IInv'
    <3>1. Good([Idle EXCEPT !.pc = "load", !.op = "reset", !.new = p])
      BY IdleType DEF Idle, Request, Route, Found, Current
    <3> QED
      BY <1>a, <2>3, <3>1
  <2> QED
    BY <1>4, <2>1, <2>2, <2>3 DEF RequestOfAdmin
<1> QED
  BY <1>1, <1>2, <1>3, <1>4

\* A request that only changes its pc.
LEMMA Onward ==
  ASSUME NEW q \in Request, NEW w, NEW p, w = [q EXCEPT !.pc = p],
         p \in {"lock", "forgive", "open", "touch", "owner", "must", "apikey", "drop", "verify",
                "load", "revoke", "disconnect", "register", "attach", "byid", "byemail"}
  PROVE  /\ w \in Request /\ w.pc = p /\ w.op = q.op /\ w.new = q.new
         /\ Current(w)
  BY DEF Request, Current

\* A request goes on after the middleware.
LEMMA Entered ==
  ASSUME NEW q \in Request, Route(q), NEW w, w = [q EXCEPT !.pc = Enter(q.op)],
         q.pc \in {"touch", "owner"}
  PROVE  /\ w \in Request /\ Route(w) /\ Current(w)
         /\ w.pc \in {"drop", "verify", "must"} /\ w.op = q.op
<1>1. \/ q.op = "logout" /\ Enter(q.op) = "drop"
      \/ q.op = "change" /\ Enter(q.op) = "verify"
      \/ q.op \in {"mint", "revoke"} /\ Enter(q.op) = "must"
  BY DEF Route, Enter
<1>2. /\ w \in Request /\ w.pc = Enter(q.op) /\ w.op = q.op /\ w.new = q.new /\ Current(w)
  BY <1>1, Onward
<1> QED
  BY <1>1, <1>2 DEF Route

\* The middleware refuses a request or lets it through.
LEMMA MiddlewareStep ==
  ASSUME IInv, NEW c \in Clients,
         GetSession(c) \/ GetByHash(c) \/ GetOwner(c) \/ GetMustChangePass(c)
  PROVE  IInv'
<1>1. req[c] \in Request /\ Route(req[c]) /\ Found(req[c])
  BY DEF IInv, TypeOK, RequestsOK
<1>2. ~Halfway(c) /\ req[c].pc \in {"session", "key", "owner", "must"} /\ user # NoUser
  BY <1>1 DEF Halfway, GetSession, GetByHash, GetOwner, GetMustChangePass, Found
<1>3. CASE Goto(c, Idle)
  BY <1>2, <1>3, IdleType, Moved DEF Idle
<1>4. CASE \E p \in {"touch", "owner", "apikey"} :
             /\ Goto(c, [req[c] EXCEPT !.pc = p])
             /\ p = "touch" => req[c].pc = "session"
             /\ p = "owner" => req[c].pc = "key"
             /\ p = "apikey" => req[c].pc = "must"
  <2>1. PICK p \in {"touch", "owner", "apikey"} :
             /\ Goto(c, [req[c] EXCEPT !.pc = p])
             /\ p = "touch" => req[c].pc = "session"
             /\ p = "owner" => req[c].pc = "key"
             /\ p = "apikey" => req[c].pc = "must"
    BY <1>4
  <2> DEFINE w == [req[c] EXCEPT !.pc = p]
  <2>2. w \in Request /\ w.pc = p /\ w.op = req[c].op /\ w.new = req[c].new /\ Current(w)
    BY <1>1, Onward
  <2>3. Route(w) /\ Found(w)
    BY <1>1, <1>2, <2>1, <2>2 DEF Route, Found
  <2> QED
    BY <1>2, <2>1, <2>2, <2>3, Moved
<1>5. CASE Goto(c, [req[c] EXCEPT !.pc = Enter(req[c].op)]) /\ req[c].pc = "owner"
  <2> DEFINE w == [req[c] EXCEPT !.pc = Enter(req[c].op)]
  <2>1. w \in Request /\ Route(w) /\ Current(w) /\ w.pc \in {"drop", "verify", "must"}
    BY <1>1, <1>5, Entered
  <2>2. Found(w)
    BY <1>2 DEF Found
  <2> QED
    BY <1>2, <1>5, <2>1, <2>2, Moved
<1> QED
  BY <1>3, <1>4, <1>5 DEF GetSession, GetByHash, GetOwner, GetMustChangePass

\* A password change goes on if the password sent is that of the row.
LEMMA VerifyStep ==
  ASSUME IInv, NEW c \in Clients, VerifyPassword(c)
  PROVE  IInv'
<1>1. req[c] \in Request /\ Route(req[c]) /\ Found(req[c])
  BY DEF IInv, TypeOK, RequestsOK
<1>2. ~Halfway(c) /\ req[c].pc = "verify" /\ user # NoUser /\ req[c].op = "change"
  BY <1>1 DEF Halfway, VerifyPassword, Found, Route
<1>3. CASE Goto(c, Idle)
  BY <1>2, <1>3, IdleType, Moved DEF Idle
<1>4. CASE Goto(c, [req[c] EXCEPT !.pc = "load"])
  <2> DEFINE w == [req[c] EXCEPT !.pc = "load"]
  <2>1. w \in Request /\ w.pc = "load" /\ w.op = req[c].op /\ w.new = req[c].new /\ Current(w)
    BY <1>1, Onward
  <2>2. Route(w) /\ Found(w)
    BY <1>1, <1>2, <2>1 DEF Route, Found
  <2> QED
    BY <1>2, <1>4, <2>1, <2>2, Moved
<1> QED
  BY <1>3, <1>4 DEF VerifyPassword

\* The row read is as good as the row.
LEMMA GetByIDStep ==
  ASSUME IInv, NEW c \in Clients, GetByID(c)
  PROVE  IInv'
<1>1. req[c] \in Request /\ Route(req[c]) /\ Found(req[c]) /\ req[c].pc = "load"
  BY DEF IInv, TypeOK, RequestsOK, GetByID
<1>2. CASE Goto(c, Idle) /\ user = NoUser
  <2>1. ~Halfway(c)
    BY <1>1, <1>2 DEF Halfway, Found
  <2> QED
    BY <1>1, <1>2, <2>1, IdleType, Moved DEF Idle
<1>3. CASE user # NoUser
  <2>1. PICK f \in BOOLEAN : f = IF req[c].op = "edit" THEN req[c].fresh ELSE TRUE
    BY <1>1 DEF Request
  <2> DEFINE w == [req[c] EXCEPT !.pc = "update", !.copy = user, !.fresh = f]
  <2>2. Goto(c, w)
    BY <1>3, <2>1 DEF GetByID
  <2>3. user \in User /\ (user.method = "password" => user.pw # NoPassword)
    BY <1>3 DEF IInv, TypeOK
  <2>4. /\ w \in Request /\ w.pc = "update" /\ w.op = req[c].op /\ w.new = req[c].new
        /\ w.copy = user
    BY <1>1, <2>3 DEF Request
  <2>5. Route(w) /\ Found(w) /\ Current(w)
    BY <1>1, <1>3, <2>3, <2>4 DEF Route, Found, Current
  <2> QED
    BY <1>1, <2>2, <2>4, <2>5, Moved DEF Halfway
<1> QED
  BY <1>2, <1>3 DEF GetByID

\* A sign-in with Google looks for the account.
LEMMA GoogleStep ==
  ASSUME IInv, NEW c \in Clients, GetByProviderUID(c) \/ GetLinkedUser(c) \/ GetByEmail(c)
  PROVE  IInv'
<1>1. /\ req[c] \in Request /\ Route(req[c]) /\ Found(req[c])
      /\ req[c].pc \in {"byuid", "byid", "byemail"} /\ req[c].op = "google"
  BY DEF IInv, TypeOK, RequestsOK, GetByProviderUID, GetLinkedUser, GetByEmail, Route
<1>2. ~Halfway(c) /\ (linked => user # NoUser)
  BY <1>1 DEF Halfway, IInv, TypeOK
<1>3. CASE Goto(c, Idle)
  BY <1>1, <1>2, <1>3, IdleType, Moved DEF Idle
<1>4. CASE \E p \in {"byid", "byemail", "register"} :
             Goto(c, [req[c] EXCEPT !.pc = p]) /\ (p = "byid" => linked)
  <2>1. PICK p \in {"byid", "byemail", "register"} :
             Goto(c, [req[c] EXCEPT !.pc = p]) /\ (p = "byid" => linked)
    BY <1>4
  <2> DEFINE w == [req[c] EXCEPT !.pc = p]
  <2>2. w \in Request /\ w.pc = p /\ w.op = req[c].op /\ w.new = req[c].new /\ Current(w)
    BY <1>1, Onward
  <2>3. Route(w) /\ Found(w)
    BY <1>1, <1>2, <2>1, <2>2 DEF Route, Found
  <2> QED
    BY <1>1, <1>2, <2>1, <2>2, <2>3, Moved
<1>5. CASE Goto(c, Read(c, "forgive")) /\ req[c].pc = "byid"
  <2> DEFINE w == Read(c, "forgive")
  <2>1. user \in User
    BY <1>1, <1>5 DEF Found, IInv, TypeOK
  <2>2. w \in Request /\ w.pc = "forgive" /\ w.op = "google" /\ w.new = req[c].new
    BY <1>1, <2>1 DEF Read, Request
  <2>3. Route(w) /\ Found(w) /\ Current(w)
    BY <1>1, <1>5, <2>2 DEF Route, Found, Current
  <2> QED
    BY <1>1, <1>2, <1>5, <2>2, <2>3, Moved
<1>6. CASE user # NoUser /\ Goto(c, [Read(c, "connect") EXCEPT !.alive = user.active])
  <2> DEFINE w == [Read(c, "connect") EXCEPT !.alive = user.active]
  <2>1. user \in User /\ user.active \in BOOLEAN
    BY <1>6 DEF IInv, TypeOK, User
  <2>2. w \in Request /\ w.pc = "connect" /\ w.op = "google" /\ w.new = req[c].new
    <3>1. PICK a \in BOOLEAN : a = user.active
      BY <2>1
    <3>2. Read(c, "connect") = [req[c] EXCEPT !.pc = "connect", !.copy = user, !.old = FALSE]
      BY DEF Read
    <3>3. w = [[req[c] EXCEPT !.pc = "connect", !.copy = user, !.old = FALSE] EXCEPT !.alive = a]
      BY <3>1, <3>2, Zenon
    <3> HIDE DEF w
    <3> QED
      BY <1>1, <2>1, <3>3 DEF Request
  <2>3. Route(w) /\ Found(w) /\ Current(w)
    BY <1>1, <1>6, <2>2 DEF Route, Found, Current
  <2> QED
    BY <1>1, <1>2, <1>6, <2>2, <2>3, Moved
<1> QED
  BY <1>3, <1>4, <1>5, <1>6 DEF GetByProviderUID, GetLinkedUser, GetByEmail

\* Steps of requests that write sessions, or the key.
LEMMA SessionStep ==
  ASSUME IInv, NEW c \in Clients,
         CreateSession(c) \/ Touch(c) \/ WriteKey(c) \/ Logout(c)
  PROVE  IInv'
<1>1. req[c] \in Request /\ Route(req[c]) /\ Found(req[c])
  BY DEF IInv, TypeOK, RequestsOK
<1>2. /\ ~Halfway(c) /\ req[c].pc \in {"open", "touch", "apikey", "drop"} /\ user # NoUser
      /\ UNCHANGED <<user, linked, excused, requests, faults>>
  BY <1>1 DEF Halfway, CreateSession, Touch, WriteKey, Logout, Found
<1>3. RowsType
  BY Types DEF IInv
<1> DEFINE OldOnes == \A s \in DOMAIN sessions' :
              sessions'[s].grade = "old" => s \in DOMAIN sessions /\ sessions[s].grade = "old"
<1>4. CASE CreateSession(c)
  <2> DEFINE free == SessionIds \ (DOMAIN sessions \cup {req[d].via : d \in Clients})
             s == CHOOSE i \in free : TRUE
             o == [idle |-> FALSE, grade |-> IF req[c].old THEN "late" ELSE "current"]
  <2>1. s \in SessionIds
    BY <1>4 DEF CreateSession
  <2>2. o \in Session /\ o.grade # "old"
    BY DEF Session
  <2>3. sessions' = [i \in DOMAIN sessions \cup {s} |-> IF i = s THEN o ELSE sessions[i]]
    BY <1>4 DEF CreateSession
  <2> HIDE DEF s, o
  <2>4. RowsType' /\ OldOnes
    BY <1>2, <1>3, <1>4, <2>1, <2>2, <2>3 DEF RowsType, CreateSession
  <2> QED
    BY <1>2, <1>4, <2>4, IdleType, Quiet DEF CreateSession, Idle
<1>5. CASE Touch(c)
  <2> DEFINE w == [req[c] EXCEPT !.pc = Enter(req[c].op)]
  <2>1. req' = [req EXCEPT ![c] = w]
    BY <1>5 DEF Touch
  <2>2. w \in Request /\ Route(w) /\ Current(w) /\ w.pc \in {"drop", "verify", "must"}
    BY <1>1, <1>5, Entered DEF Touch
  <2>3. Found(w)
    BY <1>2 DEF Found
  <2>4. \A s \in DOMAIN sessions :
          /\ [sessions[s] EXCEPT !.idle = FALSE] \in Session
          /\ [sessions[s] EXCEPT !.idle = FALSE].grade = sessions[s].grade
    BY <1>3 DEF RowsType, Session
  <2>5. DOMAIN sessions' = DOMAIN sessions
        /\ \A s \in DOMAIN sessions :
             sessions'[s] \in {sessions[s], [sessions[s] EXCEPT !.idle = FALSE]}
    BY <1>5 DEF Touch
  <2>6. RowsType' /\ OldOnes
    BY <1>2, <1>3, <1>5, <2>4, <2>5 DEF RowsType, Touch
  <2> QED
    BY <1>2, <2>1, <2>2, <2>3, <2>6, Quiet
<1>6. CASE WriteKey(c)
  <2>1. RowsType' /\ OldOnes
    BY <1>2, <1>3, <1>6 DEF RowsType, WriteKey
  <2> QED
    BY <1>2, <1>6, <2>1, IdleType, Quiet DEF WriteKey, Idle
<1>7. CASE Logout(c)
  <2>1. RowsType' /\ OldOnes
    BY <1>2, <1>3, <1>7 DEF RowsType, Logout, Only
  <2> QED
    BY <1>2, <1>7, <2>1, IdleType, Quiet DEF Logout, Idle
<1> QED
  BY <1>2, <1>4, <1>5, <1>6, <1>7

-----------------------------------------------------------------------------
(***************************************************************************)
(* Signing in with a password.                                             *)
(***************************************************************************)

\* There are clients, and finitely many.
LEMMA Finite ==
  /\ IsFiniteSet(Hidden) /\ Cardinality(Hidden) \in Nat
  /\ Cardinality(Hidden) <= Cardinality(Clients)
  /\ Cardinality(Clients) \in Nat \ {0}
<1>1. IsFiniteSet(Clients) /\ Hidden \subseteq Clients /\ Clients # {}
  BY AccountsAssumption DEF Hidden
<1>2. IsFiniteSet(Hidden) /\ Cardinality(Hidden) <= Cardinality(Clients)
  BY <1>1, FS_Subset
<1>3. Cardinality(Clients) \in Nat /\ Cardinality(Hidden) \in Nat
  BY <1>1, <1>2, FS_CardinalityType
<1>4. Cardinality(Clients) # 0
  BY <1>1, FS_EmptySet
<1> QED
  BY <1>2, <1>3, <1>4

\* A write by c, which goes on as r, that leaves the credentials as they are.
LEMMA RowWritten ==
  ASSUME IInv, NEW c \in Clients, NEW r \in Request, req' = Written(c, r),
         UNCHANGED <<linked, key, sessions, requests, faults>>,
         user # NoUser, user' \in User, Credentials(user') = Credentials(user),
         user'.must = user.must, excused' \subseteq {"lock", "link"},
         "link" \in excused => "link" \in excused',
         Route(r), r.pc \notin {"update", "count"}, req[c].pc # "revoke", ~Halfway(c)
  PROVE  TypeOK' /\ RequestsOK' /\ OldSessionsEnd' /\ LinkComplete' /\ Rest({c}) /\ req'[c] = r
<1>1. Rest({c}) /\ req'[c] = r
  BY WriterMoves
<1>2. user'.method = user.method /\ user'.pw = user.pw /\ user' # NoUser
  BY AccountsAssumption DEF Credentials
<1>3. TypeOK'
  <2>1. RowsType'
    BY <1>2 DEF IInv, TypeOK, RowsType
  <2> QED
    BY <1>1, <2>1 DEF Rest, TypeOK, RowsType
<1>4. RequestsOK'
  <2>1. Route(req'[c]) /\ Found(req[c])' /\ Current(req[c])'
    BY <1>1, <1>2 DEF Found, Current
  <2> QED
    BY <1>1, <1>2, <2>1, RequestsKept
<1>5. OldSessionsEnd'
  BY <1>1, OldKept
<1>6. LinkComplete'
  BY <1>1, <1>2, LinkKept
<1> QED
  BY <1>1, <1>3, <1>4, <1>5, <1>6

\* The copy of a request that will count a failure is the row: if it is below the
\* threshold, the row is.
LEMMA GetByUsernameStep ==
  ASSUME IInv, NEW c \in Clients, GetByUsername(c)
  PROVE  IInv'
<1>1. req[c] \in Request /\ Route(req[c]) /\ req[c].pc = "byname" /\ req[c].op = "login"
  BY DEF IInv, TypeOK, RequestsOK, GetByUsername, Route
<1>2. ~Halfway(c)
  BY <1>1 DEF Halfway
<1>3. CASE Goto(c, Idle)
  BY <1>1, <1>2, <1>3, IdleType, Moved DEF Idle
<1>4. ASSUME user # NoUser, NEW p \in {"forgive", "count"}, Goto(c, Read(c, p))
      PROVE  IInv'
  <2> DEFINE w == Read(c, p)
  <2>1. user \in User
    BY <1>4 DEF IInv, TypeOK
  <2>2. w \in Request /\ w.pc = p /\ w.op = "login" /\ w.new = req[c].new /\ w.copy = user
    BY <1>1, <2>1 DEF Read, Request
  <2>3. Route(w) /\ Found(w) /\ Current(w)
    BY <1>1, <1>4, <2>1, <2>2 DEF Route, Found, Current
  <2>4. CASE p = "forgive"
    BY <1>1, <1>2, <1>4, <2>2, <2>3, <2>4, Moved
  <2>5. CASE p = "count"
    <3> HIDE DEF w
    <3>1. /\ req' = [req EXCEPT ![c] = w]
          /\ UNCHANGED <<user, linked, key, sessions, requests, faults, excused>>
      BY <1>4 DEF Goto, w
    <3>2. Rest({c}) /\ req'[c] = w
      BY <2>2, <3>1, OneMoves DEF RowKept
    <3>3. TypeOK'
      BY <3>1, <3>2 DEF Rest, TypeOK, IInv
    <3>4. RequestsOK'
      <4>1. Route(req'[c]) /\ Found(req[c])' /\ Current(req[c])'
        BY <2>3, <3>1, <3>2 DEF Found, Current
      <4> QED
        BY <3>1, <3>2, <4>1, RequestsKept
    <3>5. FewHidden'
      <4> SUFFICES ASSUME Unlocked'
                   PROVE  user.failed + Cardinality(Hidden') + 2 <= Threshold + Cardinality(Clients)
        BY <3>1 DEF FewHidden
      <4>1. user.failed \in Nat
        BY <2>1 DEF User
      <4>2. CASE user.failed + 1 < Threshold
        <5>1. Cardinality(Hidden') \in Nat /\ Cardinality(Hidden') <= Cardinality(Clients)
          <6>1. IsFiniteSet(Clients) /\ Hidden' \subseteq Clients
            BY AccountsAssumption DEF Hidden
          <6> QED
            BY <6>1, FS_Subset, FS_CardinalityType
        <5> QED
          BY <4>1, <4>2, <5>1, Finite, AccountsAssumption
      <4>3. CASE ~(user.failed + 1 < Threshold)
        <5>1. Hidden' \subseteq Hidden
          BY <2>2, <3>2, <4>3 DEF Hidden, Rest
        <5>2. Cardinality(Hidden') \in Nat /\ Cardinality(Hidden') <= Cardinality(Hidden)
          BY <5>1, Finite, FS_Subset, FS_CardinalityType
        <5>3. Unlocked
          BY <1>1, <3>1, <3>2 DEF Unlocked, Rest
        <5>4. user.failed + Cardinality(Hidden) + 2 <= Threshold + Cardinality(Clients)
          BY <5>3 DEF IInv, FewHidden
        <5> QED
          BY <4>1, <5>2, <5>4, Finite, AccountsAssumption
      <4> QED
        BY <4>2, <4>3
    <3>6. OldSessionsEnd'
      BY <1>1, <3>1, <3>2, OldKept
    <3>7. LinkComplete'
      BY <1>2, <3>1, <3>2, LinkKept
    <3> QED
      BY <3>3, <3>4, <3>5, <3>6, <3>7 DEF IInv
  <2> QED
    BY <2>4, <2>5
<1> QED
  BY <1>3, <1>4 DEF GetByUsername

\* A hidden failure that is counted is hidden no more; any other locks.
LEMMA IncrementStep ==
  ASSUME IInv, NEW c \in Clients, IncrementFailedLogins(c)
  PROVE  IInv'
<1>1. /\ req[c] \in Request /\ Route(req[c]) /\ req[c].pc = "count" /\ req[c].op = "login"
      /\ Found(req[c]) /\ Current(req[c])
  BY DEF IInv, TypeOK, RequestsOK, IncrementFailedLogins, Route
<1>2. ~Halfway(c) /\ user \in User /\ user # NoUser /\ req[c].copy \in User
  BY <1>1 DEF Halfway, Found, Current, IInv, TypeOK
<1>3. user.failed \in Nat /\ req[c].copy.failed \in Nat
  BY <1>2 DEF User
<1>4. /\ user' \in User /\ user'.failed = user.failed + 1 /\ user'.lock = user.lock
      /\ Credentials(user') = Credentials(user) /\ user'.must = user.must
  BY <1>2, <1>3 DEF IncrementFailedLogins, User, Credentials
<1> DEFINE r == AfterCount(c)
           w == [req[c] EXCEPT !.pc = "lock"]
<1>5. w \in Request /\ w.pc = "lock" /\ w.op = "login" /\ w.new = req[c].new
  BY <1>1, Onward
<1>6. Route(w)
  BY <1>1, <1>5 DEF Route
<1>7. \/ r = w /\ req[c].copy.failed + 1 >= Threshold
      \/ r = Idle /\ ~(req[c].copy.failed + 1 >= Threshold)
  BY DEF AfterCount
<1> HIDE DEF r, w
<1>8. r \in Request /\ Route(r) /\ r.pc \in {"lock", "idle"}
  <2>1. Idle.pc = "idle"
    BY DEF Idle
  <2> QED
    BY <1>5, <1>6, <1>7, <2>1, IdleType
<1>9. req' = Written(c, r) /\ UNCHANGED <<linked, key, sessions, requests, faults, excused>>
  BY DEF IncrementFailedLogins, r
<1>10. TypeOK' /\ RequestsOK' /\ OldSessionsEnd' /\ LinkComplete' /\ Rest({c}) /\ req'[c] = r
  <2>1. excused' \subseteq {"lock", "link"}
    BY <1>9 DEF IInv, TypeOK
  <2> QED
    BY <1>1, <1>2, <1>4, <1>8, <1>9, <2>1, RowWritten
<1>11. FewHidden'
  <2> SUFFICES ASSUME Unlocked'
               PROVE  user'.failed + Cardinality(Hidden') + 2 <= Threshold + Cardinality(Clients)
    BY DEF FewHidden
  <2>1. r = Idle /\ ~(req[c].copy.failed + 1 >= Threshold)
    BY <1>5, <1>7, <1>10 DEF Unlocked
  <2>2. c \in Hidden
    BY <1>1, <1>3, <2>1, AccountsAssumption DEF Hidden
  <2>3. Hidden' \subseteq Hidden \ {c}
    BY <1>10, <2>1 DEF Hidden, Rest, Idle
  <2>4. IsFiniteSet(Hidden \ {c}) /\ Cardinality(Hidden \ {c}) = Cardinality(Hidden) - 1
    BY <2>2, Finite, FS_RemoveElement
  <2>5. Cardinality(Hidden') \in Nat /\ Cardinality(Hidden') <= Cardinality(Hidden) - 1
    BY <2>3, <2>4, FS_Subset, FS_CardinalityType
  <2>6. Unlocked
    BY <1>1, <1>2, <1>4, <1>9, <1>10 DEF Unlocked, Rest
  <2>7. user.failed + Cardinality(Hidden) + 2 <= Threshold + Cardinality(Clients)
    BY <2>6 DEF IInv, FewHidden
  <2> QED
    BY <1>3, <1>4, <2>5, <2>7, Finite, AccountsAssumption
<1> QED
  BY <1>10, <1>11 DEF IInv

\* An account that has just been locked owes nothing.
LEMMA LockStep ==
  ASSUME IInv, NEW c \in Clients, LockAccount(c)
  PROVE  IInv'
<1>1. req[c] \in Request /\ Route(req[c]) /\ req[c].pc = "lock" /\ Found(req[c])
  BY DEF IInv, TypeOK, RequestsOK, LockAccount
<1>2. ~Halfway(c) /\ user \in User /\ user # NoUser
  BY <1>1, AccountsAssumption DEF Halfway, Route, Found, IInv, TypeOK
<1>3. /\ user' \in User /\ user'.lock = "until"
      /\ Credentials(user') = Credentials(user) /\ user'.must = user.must
  BY <1>2 DEF LockAccount, User, Credentials
<1>4. TypeOK' /\ RequestsOK' /\ OldSessionsEnd' /\ LinkComplete'
  <2>1. excused' \subseteq {"lock", "link"} /\ Idle.pc = "idle"
    BY DEF LockAccount, IInv, TypeOK, Idle
  <2> QED
    BY <1>1, <1>2, <1>3, <2>1, IdleType, RowWritten DEF LockAccount
<1>5. FewHidden'
  BY <1>3 DEF FewHidden, Unlocked
<1> QED
  BY <1>4, <1>5 DEF IInv

\* A success starts the count again, whatever the failures under way.
LEMMA ResetStep ==
  ASSUME IInv, NEW c \in Clients, ResetFailedLogins(c)
  PROVE  IInv'
<1>1. req[c] \in Request /\ Route(req[c]) /\ req[c].pc = "forgive" /\ Found(req[c])
  BY DEF IInv, TypeOK, RequestsOK, ResetFailedLogins
<1>2. ~Halfway(c) /\ user \in User /\ user # NoUser
  BY <1>1, AccountsAssumption DEF Halfway, Found, IInv, TypeOK
<1>3. /\ user' \in User /\ user'.failed = 0
      /\ Credentials(user') = Credentials(user) /\ user'.must = user.must
  BY <1>2 DEF ResetFailedLogins, User, Credentials
<1> DEFINE w == [req[c] EXCEPT !.pc = "open"]
<1>4. w \in Request /\ w.pc = "open" /\ w.op = req[c].op /\ w.new = req[c].new
  BY <1>1, Onward
<1>5. Route(w)
  BY <1>1, <1>4 DEF Route
<1>6. TypeOK' /\ RequestsOK' /\ OldSessionsEnd' /\ LinkComplete'
  <2>1. /\ req' = Written(c, w) /\ UNCHANGED <<linked, key, sessions, requests, faults>>
        /\ excused' = excused \ {"lock"}
    BY DEF ResetFailedLogins
  <2>2. excused' \subseteq {"lock", "link"} /\ ("link" \in excused => "link" \in excused')
    BY <2>1 DEF IInv, TypeOK
  <2> HIDE DEF w
  <2> QED
    BY <1>1, <1>2, <1>3, <1>4, <1>5, <2>1, <2>2, RowWritten
<1>7. FewHidden'
  <2>1. Hidden' \subseteq Clients
    BY DEF Hidden
  <2>2. Cardinality(Hidden') \in Nat /\ Cardinality(Hidden') <= Cardinality(Clients)
    BY <2>1, AccountsAssumption, FS_Subset, FS_CardinalityType
  <2>3. CASE Threshold = 1
    <3>1. \A d \in Clients : req'[d].pc = "count" => req'[d].copy.failed \in Nat
      BY <1>6 DEF RequestsOK, Current, User
    <3>2. Hidden' = {}
      BY <2>3, <3>1 DEF Hidden
    <3>3. Cardinality(Hidden') = 0
      BY <3>2, FS_EmptySet
    <3> QED
      BY <1>3, <2>3, <3>3, Finite DEF FewHidden
  <2>4. CASE Threshold # 1
    BY <1>3, <2>2, <2>4, Finite, AccountsAssumption DEF FewHidden
  <2> QED
    BY <2>3, <2>4
<1> QED
  BY <1>6, <1>7 DEF IInv

-----------------------------------------------------------------------------
(***************************************************************************)
(* Writing the row.                                                        *)
(***************************************************************************)

\* An update that compares updated_at writes a draft made of the row as it is.
LEMMA Drafted ==
  ASSUME IInv, NEW c \in Clients, Update(c)
  PROVE  /\ req[c] \in Request /\ Route(req[c]) /\ req[c].pc = "update"
         /\ user \in User /\ user # NoUser
         /\ req[c].copy.method = user.method /\ req[c].copy.pw = user.pw
         /\ req[c].copy.must = user.must
         /\ user' \in User /\ user' # NoUser
         /\ user'.failed = user.failed /\ user'.lock = user.lock
         /\ user'.method = "password" => user'.pw # NoPassword
         /\ req[c].op \in {"edit", "deactivate"} =>
              Credentials(user') = Credentials(user) /\ user'.must = user.must
         /\ req[c].op = "change" =>
              user'.method = user.method /\ user'.pw = req[c].new /\ user'.must = FALSE
         /\ req[c].op = "reset" => user'.must = TRUE
         /\ req[c].op = "google" => user'.method = "google" /\ user'.must = user.must
<1>1. /\ req[c] \in Request /\ Route(req[c]) /\ Found(req[c]) /\ Current(req[c])
      /\ req[c].pc = "update" /\ req[c].fresh
  BY DEF IInv, TypeOK, RequestsOK, Update, Matches
<1>2. /\ user # NoUser /\ user \in User /\ req[c].copy \in User
      /\ user.method = "password" => user.pw # NoPassword
  BY <1>1 DEF Found, Current, IInv, TypeOK
<1>3. /\ req[c].copy.method = user.method /\ req[c].copy.pw = user.pw
      /\ req[c].copy.must = user.must
  BY <1>1 DEF Current, Credentials
<1>4. /\ req[c].op \in {"change", "reset", "google", "edit", "deactivate"}
      /\ req[c].op \in {"change", "reset"} => req[c].new \in Passwords
  BY <1>1 DEF Route
<1>5. PICK a \in BOOLEAN : user' = [Draft(c, a) EXCEPT !.failed = user.failed, !.lock = user.lock]
  BY DEF Update, Columns
<1>6. user.failed \in Nat /\ user.lock \in {"none", "until", "past"}
  BY <1>2 DEF User
<1> DEFINE u == req[c].copy
           d == Draft(c, a)
<1>7. CASE req[c].op = "change"
  <2>1. d = [u EXCEPT !.pw = req[c].new, !.must = FALSE]
    BY <1>7 DEF Draft
  <2>2. user' = [[u EXCEPT !.pw = req[c].new, !.must = FALSE]
                   EXCEPT !.failed = user.failed, !.lock = user.lock]
    BY <1>5, <2>1
  <2> HIDE DEF u, d
  <2>3. u \in User /\ u.method = user.method
    BY <1>2, <1>3 DEF u
  <2>4. /\ user' \in User /\ user'.failed = user.failed /\ user'.lock = user.lock
        /\ user'.method = user.method /\ user'.pw = req[c].new /\ user'.must = FALSE
    BY <1>4, <1>6, <1>7, <2>2, <2>3 DEF User
  <2> QED
    BY <1>1, <1>2, <1>3, <1>4, <1>7, <2>4, AccountsAssumption
<1>8. CASE req[c].op = "reset"
  <2>1. d = [u EXCEPT !.pw = req[c].new, !.must = TRUE, !.method = "password"]
    BY <1>8 DEF Draft
  <2>2. user' = [[u EXCEPT !.pw = req[c].new, !.must = TRUE, !.method = "password"]
                   EXCEPT !.failed = user.failed, !.lock = user.lock]
    BY <1>5, <2>1
  <2> HIDE DEF u, d
  <2>3. u \in User
    BY <1>2 DEF u
  <2>4. /\ user' \in User /\ user'.failed = user.failed /\ user'.lock = user.lock
        /\ user'.pw = req[c].new /\ user'.must = TRUE
    BY <1>4, <1>6, <1>8, <2>2, <2>3 DEF User
  <2> QED
    BY <1>1, <1>2, <1>3, <1>4, <1>8, <2>4, AccountsAssumption
<1>9. CASE req[c].op = "google"
  <2>1. d = [u EXCEPT !.pw = NoPassword, !.method = "google"]
    BY <1>9 DEF Draft
  <2>2. user' = [[u EXCEPT !.pw = NoPassword, !.method = "google"]
                   EXCEPT !.failed = user.failed, !.lock = user.lock]
    BY <1>5, <2>1
  <2> HIDE DEF u, d
  <2>3. u \in User /\ u.must = user.must
    BY <1>2, <1>3 DEF u
  <2>4. /\ user' \in User /\ user'.failed = user.failed /\ user'.lock = user.lock
        /\ user'.method = "google" /\ user'.must = user.must
    BY <1>6, <2>2, <2>3 DEF User
  <2> QED
    BY <1>1, <1>2, <1>3, <1>9, <2>4, AccountsAssumption
<1>10. CASE req[c].op \in {"edit", "deactivate"}
  <2>1. PICK b \in BOOLEAN : d = [u EXCEPT !.active = b]
    BY <1>10 DEF Draft
  <2>2. user' = [[u EXCEPT !.active = b] EXCEPT !.failed = user.failed, !.lock = user.lock]
    BY <1>5, <2>1
  <2> HIDE DEF u, d
  <2>3. u \in User /\ u.method = user.method /\ u.pw = user.pw /\ u.must = user.must
    BY <1>2, <1>3 DEF u
  <2>4. /\ user' \in User /\ user'.failed = user.failed /\ user'.lock = user.lock
        /\ user'.method = user.method /\ user'.pw = user.pw /\ user'.must = user.must
    BY <1>6, <2>2, <2>3 DEF User
  <2> QED
    BY <1>1, <1>2, <1>3, <1>10, <2>4, AccountsAssumption DEF Credentials
<1> QED
  BY <1>4, <1>7, <1>8, <1>9, <1>10

\* Where it leads.
LEMMA Updated ==
  ASSUME IInv, NEW c \in Clients, Update(c), req[c].op \in {"change", "reset", "google"}
  PROVE  /\ AfterUpdate(c) \in Request /\ Route(AfterUpdate(c)) /\ Current(AfterUpdate(c))
         /\ AfterUpdate(c).pc \notin {"update", "count"}
         /\ req[c].op = "change" => AfterUpdate(c).pc = "revoke"
         /\ req[c].op = "reset" => AfterUpdate(c).pc = "disconnect"
<1>1. req[c] \in Request /\ Route(req[c]) /\ req[c].pc = "update"
  BY Drafted
<1>2. Idle.pc = "idle"
  BY DEF Idle
<1>3. CASE req[c].op = "change"
  <2> DEFINE w == [req[c] EXCEPT !.pc = "revoke"]
  <2>1. AfterUpdate(c) = w
    BY <1>3 DEF AfterUpdate
  <2>2. w \in Request /\ w.pc = "revoke" /\ w.op = req[c].op /\ w.new = req[c].new /\ Current(w)
    BY <1>1, Onward
  <2> HIDE DEF w
  <2> QED
    BY <1>1, <1>3, <2>1, <2>2 DEF Route
<1>4. CASE req[c].op = "reset"
  <2> DEFINE w == [req[c] EXCEPT !.pc = "disconnect"]
  <2>1. AfterUpdate(c) = w
    BY <1>4 DEF AfterUpdate
  <2>2. w \in Request /\ w.pc = "disconnect" /\ w.op = req[c].op /\ w.new = req[c].new /\ Current(w)
    BY <1>1, Onward
  <2> HIDE DEF w
  <2> QED
    BY <1>1, <1>4, <2>1, <2>2 DEF Route
<1>5. CASE req[c].op = "google" /\ AfterUpdate(c) = Idle
  BY <1>2, <1>5, IdleType
<1>6. CASE req[c].op = "google" /\ AfterUpdate(c) # Idle
  <2> DEFINE w == [req[c] EXCEPT !.pc = "forgive", !.old = FALSE]
  <2>1. AfterUpdate(c) = w
    BY <1>6 DEF AfterUpdate
  <2>2. w \in Request /\ w.pc = "forgive" /\ w.op = req[c].op /\ w.new = req[c].new
    BY <1>1 DEF Request
  <2> HIDE DEF w
  <2> QED
    BY <1>1, <1>6, <2>1, <2>2 DEF Route, Current
<1> QED
  BY <1>3, <1>4, <1>5, <1>6

\* Credentials are replaced by who has read them as they are; what follows such a
\* write is named by the pc it leads to.
LEMMA UpdateStep ==
  ASSUME IInv, NEW c \in Clients, Update(c)
  PROVE  IInv'
<1>1. /\ req[c] \in Request /\ Route(req[c]) /\ req[c].pc = "update"
      /\ req[c].op \in {"change", "reset", "google", "edit", "deactivate"}
      /\ user \in User /\ user # NoUser /\ user' \in User /\ user' # NoUser
      /\ user'.failed = user.failed /\ user'.lock = user.lock
  BY Drafted DEF Route
<1>2. UNCHANGED <<linked, key, requests, faults, excused>>
  BY DEF Update
<1>3. CASE req[c].op \in {"edit", "deactivate"}
  <2>1. Credentials(user') = Credentials(user) /\ user'.must = user.must
    BY <1>3, Drafted
  <2>2. req' = Written(c, Idle) /\ sessions' = sessions
    BY <1>3 DEF Update, AfterUpdate
  <2>3. Idle.pc = "idle" /\ ~Halfway(c) /\ excused' \subseteq {"lock", "link"}
    BY <1>1, <1>2, <1>3 DEF Idle, Halfway, IInv, TypeOK
  <2>4. TypeOK' /\ RequestsOK' /\ OldSessionsEnd' /\ LinkComplete' /\ Rest({c}) /\ req'[c] = Idle
    BY <1>1, <1>2, <2>1, <2>2, <2>3, IdleType, RowWritten
  <2>5. Unlocked' => Unlocked
    BY <1>1, <1>2, <2>4 DEF Unlocked, Rest
  <2>6. FewHidden'
    BY <1>1, <2>3, <2>4, <2>5, HiddenKept
  <2> QED
    BY <2>4, <2>6 DEF IInv
<1>4. CASE req[c].op \in {"change", "reset", "google"}
  <2> DEFINE r == AfterUpdate(c)
             g == IF req[c].op = "change" THEN "old" ELSE "spared"
  <2>1. /\ r \in Request /\ Route(r) /\ Current(r) /\ r.pc \notin {"update", "count"}
        /\ req[c].op = "change" => r.pc = "revoke"
        /\ req[c].op = "reset" => r.pc = "disconnect"
    BY <1>4, Updated
  <2>2. req' = Replaced(c, r) /\ sessions' = Regraded(g)
    BY <1>4 DEF Update
  <2> HIDE DEF r
  <2>3. Rest({c}) /\ req'[c] = r
    BY <2>1, <2>2, WriterMoves
  <2>4. /\ DOMAIN sessions' = DOMAIN sessions
        /\ \A s \in DOMAIN sessions' : sessions'[s] \in Session /\ sessions'[s].grade = g
    <3>1. \A s \in DOMAIN sessions : sessions[s] \in Session
      BY DEF IInv, TypeOK
    <3> QED
      BY <2>2, <3>1 DEF Regraded, Session
  <2>5. TypeOK'
    <3>1. user'.method = "password" => user'.pw # NoPassword
      BY Drafted
    <3>2. RowsType'
      BY <1>1, <1>2, <2>4, <3>1 DEF IInv, TypeOK, RowsType
    <3> QED
      BY <2>3, <3>2 DEF Rest, TypeOK, RowsType
  <2>6. RequestsOK'
    <3>1. Route(req'[c]) /\ Found(req[c])' /\ Current(req[c])'
      BY <1>1, <2>1, <2>3 DEF Found, Current
    <3> QED
      BY <1>1, <2>3, <3>1, RequestsKept
  <2>7. FewHidden'
    <3>1. Unlocked' => Unlocked
      BY <1>1, <1>2, <2>3 DEF Unlocked, Rest
    <3> QED
      BY <1>1, <2>1, <2>3, <3>1, HiddenKept
  <2>8. OldSessionsEnd'
    BY <1>4, <2>1, <2>3, <2>4 DEF OldSessionsEnd
  <2>9. LinkComplete'
    <3>1. CASE req[c].op = "change"
      <4>1. user'.method = user.method /\ ~Halfway(c)
        BY <1>1, <3>1, Drafted DEF Halfway
      <4> QED
        BY <1>2, <2>3, <4>1, LinkKept
    <3>2. CASE req[c].op = "reset"
      BY <2>1, <2>3, <3>2 DEF LinkComplete
    <3>3. CASE req[c].op = "google"
      BY <3>3, Drafted DEF LinkComplete
    <3> QED
      BY <1>4, <3>1, <3>2, <3>3
  <2> QED
    BY <2>5, <2>6, <2>7, <2>8, <2>9 DEF IInv
<1> QED
  BY <1>1, <1>3, <1>4

\* A new account has no failures, no sessions and no connection.
LEMMA CreateUserStep ==
  ASSUME IInv, NEW c \in Clients, CreateUser(c)
  PROVE  IInv'
<1>1. /\ req[c] \in Request /\ Route(req[c]) /\ req[c].pc \in {"insert", "register"}
      /\ req[c].pc = "insert" <=> req[c].op = "create"
      /\ req[c].op = "create" => req[c].new \in Passwords
  BY DEF IInv, TypeOK, RequestsOK, CreateUser, Route
<1>2. ~Halfway(c) /\ UNCHANGED <<linked, key, sessions, requests, faults, excused>>
  BY <1>1 DEF Halfway, CreateUser
<1>3. CASE user # NoUser
  <2>1. Goto(c, Idle)
    BY <1>2, <1>3 DEF CreateUser, Goto
  <2> QED
    BY <1>1, <1>2, <2>1, IdleType, Moved DEF Idle
<1>4. CASE user = NoUser
  <2>1. /\ ~linked /\ key = "none" /\ sessions = << >>
    BY <1>4 DEF IInv, TypeOK
  <2>2. /\ user' \in User /\ user'.failed = 0
        /\ user'.method = "password" => user'.pw # NoPassword
    <3>1. CASE req[c].op = "create"
      <4>1. user' = NewUser("password", req[c].new, FALSE)
        BY <1>4, <3>1 DEF CreateUser
      <4> QED
        BY <1>1, <3>1, <4>1, AccountsAssumption DEF NewUser, User
    <3>2. CASE req[c].op # "create"
      <4>1. user' = NewUser("google", NoPassword, FALSE)
        BY <1>4, <3>2 DEF CreateUser
      <4> QED
        BY <4>1 DEF NewUser, User
    <3> QED
      BY <3>1, <3>2
  <2>3. user' # NoUser
    BY <2>2, AccountsAssumption
  <2> DEFINE w == [req[c] EXCEPT !.pc = "attach", !.alive = TRUE]
             r == IF req[c].op = "create" THEN Idle ELSE w
  <2>4. w \in Request /\ w.pc = "attach" /\ w.op = req[c].op /\ w.new = req[c].new
    BY <1>1 DEF Request
  <2>5. req[c].op # "create" => Route(w) /\ Current(w)
    BY <1>1, <2>4 DEF Route, Current
  <2>6. req' = [req EXCEPT ![c] = r]
    BY <1>4 DEF CreateUser
  <2>7. r \in Request /\ Route(r) /\ Current(r) /\ r.pc \in {"idle", "attach"}
    <3>1. Idle.pc = "idle"
      BY DEF Idle
    <3> HIDE DEF w
    <3> QED
      BY <2>4, <2>5, <3>1, IdleType
  <2> HIDE DEF r, w
  <2>8. Rest({c}) /\ req'[c] = r
    BY <1>4, <2>6, <2>7, OneMoves DEF RowKept
  <2>9. TypeOK'
    <3>1. RowsType'
      BY <1>2, <2>1, <2>2, <2>3 DEF IInv, TypeOK, RowsType
    <3> QED
      BY <2>8, <3>1 DEF Rest, TypeOK, RowsType
  <2>10. RequestsOK'
    <3>1. Route(req'[c]) /\ Found(req[c])' /\ Current(req[c])'
      BY <2>3, <2>7, <2>8 DEF Found, Current
    <3> QED
      BY <2>3, <2>8, <3>1, RequestsKept
  <2>11. FewHidden'
    <3>1. \A d \in Clients : req[d].pc # "count"
      BY <1>4 DEF IInv, RequestsOK, Found
    <3>2. Hidden' = {}
      BY <2>7, <2>8, <3>1 DEF Rest, Hidden
    <3>3. Cardinality(Hidden') = 0
      BY <3>2, FS_EmptySet
    <3> QED
      BY <2>2, <3>3, Finite, AccountsAssumption DEF FewHidden
  <2>12. OldSessionsEnd'
    BY <1>2, <2>1 DEF OldSessionsEnd
  <2>13. LinkComplete'
    BY <1>2, <2>1 DEF LinkComplete
  <2> QED
    BY <2>9, <2>10, <2>11, <2>12, <2>13 DEF IInv
<1> QED
  BY <1>3, <1>4

-----------------------------------------------------------------------------
(***************************************************************************)
(* Sessions and the connection after the row; what is left undone.         *)
(***************************************************************************)

\* A connection that is made to an account that is there is followed by the update
\* of its method, or excused.
LEMMA ConnectStep ==
  ASSUME IInv, NEW c \in Clients, Connect(c)
  PROVE  IInv'
<1>1. /\ req[c] \in Request /\ Route(req[c]) /\ req[c].pc \in {"connect", "attach"}
      /\ req[c].op = "google" /\ user # NoUser
  BY DEF IInv, TypeOK, RequestsOK, Connect, Route, Found
<1>2. /\ ~Halfway(c) /\ UNCHANGED <<user, key, sessions, requests, faults>> /\ linked' = TRUE
      /\ excused' \in {excused, excused \cup {"link"}}
  BY <1>1 DEF Halfway, Connect
<1> DEFINE w == [req[c] EXCEPT !.pc = "load"]
           v == [req[c] EXCEPT !.pc = "forgive"]
           r == IF linked THEN Idle ELSE IF req[c].pc = "connect" THEN w ELSE v
<1>3. /\ w \in Request /\ w.pc = "load" /\ w.op = req[c].op /\ w.new = req[c].new /\ Current(w)
      /\ v \in Request /\ v.pc = "forgive" /\ v.op = req[c].op /\ v.new = req[c].new /\ Current(v)
  BY <1>1, Onward
<1>4. Route(w) /\ Route(v)
  BY <1>1, <1>3 DEF Route
<1>5. req' = [req EXCEPT ![c] = r]
  <2>1. req' = [req EXCEPT ![c] = IF linked THEN Idle
                                   ELSE [req[c] EXCEPT !.pc = IF req[c].pc = "connect"
                                                              THEN "load" ELSE "forgive"]]
    BY DEF Connect
  <2>2. CASE linked
    BY <2>1, <2>2
  <2>3. CASE ~linked /\ req[c].pc = "connect"
    BY <2>1, <2>3
  <2>4. CASE ~linked /\ req[c].pc # "connect"
    BY <2>1, <2>4
  <2> QED
    BY <2>2, <2>3, <2>4
<1>6. r \in Request /\ Route(r) /\ Current(r) /\ r.pc \in {"idle", "load", "forgive"}
  <2>1. Idle.pc = "idle"
    BY DEF Idle
  <2> HIDE DEF w, v
  <2> QED
    BY <1>3, <1>4, <2>1, IdleType
<1>7. ~linked /\ req[c].pc = "connect" => r.pc = "load" /\ r.op = "google"
  BY <1>1, <1>3
<1> HIDE DEF w, v, r
<1>8. Rest({c}) /\ req'[c] = r
  BY <1>2, <1>5, <1>6, OneMoves DEF RowKept
<1>9. TypeOK'
  <2>1. RowsType'
    BY <1>1, <1>2 DEF IInv, TypeOK, RowsType
  <2> QED
    BY <1>8, <2>1 DEF Rest, TypeOK, RowsType
<1>10. RequestsOK'
  <2>1. Route(req'[c]) /\ Found(req[c])' /\ Current(req[c])'
    BY <1>1, <1>2, <1>6, <1>8 DEF Found, Current
  <2> QED
    BY <1>1, <1>2, <1>8, <2>1, RequestsKept
<1>11. FewHidden'
  <2>1. Unlocked' => Unlocked /\ user'.failed = user.failed
    BY <1>1, <1>2, <1>8 DEF Unlocked, Rest
  <2> QED
    BY <1>6, <1>8, <2>1, HiddenKept
<1>12. OldSessionsEnd'
  BY <1>1, <1>2, <1>8, OldKept
<1>13. LinkComplete'
  <2>1. CASE linked
    BY <1>2, <1>8, <2>1, LinkKept
  <2>2. CASE ~linked /\ req[c].pc = "connect"
    BY <1>7, <1>8, <2>2 DEF LinkComplete
  <2>3. CASE req[c].pc = "attach"
    BY <1>2, <2>3 DEF Connect, LinkComplete
  <2> QED
    BY <1>1, <2>1, <2>2, <2>3
<1> QED
  BY <1>9, <1>10, <1>11, <1>12, <1>13 DEF IInv

\* The second statement of a password change, and of a reset.
LEMMA SecondStep ==
  ASSUME IInv, NEW c \in Clients, Revoke(c) \/ Disconnect(c)
  PROVE  IInv'
<1>1. /\ req[c] \in Request /\ req[c].pc \in {"revoke", "disconnect"} /\ user # NoUser
      /\ UNCHANGED <<user, key, requests, faults>> /\ req' = [req EXCEPT ![c] = Idle]
  BY DEF IInv, TypeOK, RequestsOK, Revoke, Disconnect, Found
<1>2. Rest({c}) /\ req'[c] = Idle /\ Idle.pc = "idle"
  BY <1>1, OneMoves, IdleType DEF RowKept, Idle
<1>3. RequestsOK'
  <2>1. Route(req'[c]) /\ Found(req[c])' /\ Current(req[c])'
    BY <1>2, IdleType DEF Found, Current
  <2> QED
    BY <1>1, <1>2, <2>1, RequestsKept
<1>4. CASE Revoke(c)
  <2>1. UNCHANGED <<linked, excused>>
    BY <1>4 DEF Revoke
  <2>2. /\ DOMAIN sessions' \subseteq DOMAIN sessions
        /\ \A s \in DOMAIN sessions' : sessions'[s] \in Session /\ sessions'[s].grade = "kept"
    <3>1. \A s \in DOMAIN sessions : sessions[s] \in Session
      BY DEF IInv, TypeOK
    <3> QED
      BY <1>4, <3>1 DEF Revoke, Session
  <2>3. TypeOK'
    <3>1. RowsType'
      BY <1>1, <2>1, <2>2 DEF IInv, TypeOK, RowsType
    <3> QED
      BY <1>2, <3>1 DEF Rest, TypeOK, RowsType
  <2>4. FewHidden'
    <3>1. Unlocked' => Unlocked
      BY <1>1, <1>2, <1>4, <2>1 DEF Revoke, Unlocked, Rest
    <3> QED
      BY <1>1, <1>2, <3>1, HiddenKept
  <2>5. OldSessionsEnd'
    BY <2>2 DEF OldSessionsEnd
  <2>6. LinkComplete'
    <3>1. ~Halfway(c)
      BY <1>4 DEF Revoke, Halfway
    <3> QED
      BY <1>1, <1>2, <2>1, <3>1, LinkKept
  <2> QED
    BY <1>3, <2>3, <2>4, <2>5, <2>6 DEF IInv
<1>5. CASE Disconnect(c)
  <2>1. linked' = FALSE /\ excused' = excused \ {"link"} /\ sessions' = sessions
    BY <1>5 DEF Disconnect
  <2>2. TypeOK'
    <3>1. RowsType'
      BY <1>1, <2>1 DEF IInv, TypeOK, RowsType
    <3> QED
      BY <1>2, <3>1 DEF Rest, TypeOK, RowsType
  <2>3. FewHidden'
    <3>1. Unlocked' => Unlocked
      BY <1>1, <1>2, <1>5, <2>1 DEF Disconnect, Unlocked, Rest
    <3> QED
      BY <1>1, <1>2, <3>1, HiddenKept
  <2>4. OldSessionsEnd'
    BY <1>2, <1>5, <2>1, OldKept DEF Disconnect
  <2>5. LinkComplete'
    BY <2>1 DEF LinkComplete
  <2> QED
    BY <1>3, <2>2, <2>3, <2>4, <2>5 DEF IInv
<1> QED
  BY <1>4, <1>5

\* The requests of C go no further, or on without what a statement would have done.
LEMMA GivenUp ==
  ASSUME IInv, NEW C \in SUBSET Clients, Rest(C),
         \A c \in C : req'[c] \in {Idle, Ignoring(c)} /\ req[c].pc # "idle",
         UNCHANGED <<user, linked, key>>, requests' \in 0..MaxRequests, faults' \in 0..MaxFaults,
         excused' = excused \cup Undone(C),
         sessions' = IF \E c \in C : req[c].pc = "revoke" THEN Regraded("spared") ELSE sessions
  PROVE  IInv'
<1>1. ASSUME NEW c \in C
      PROVE  /\ Route(req'[c]) /\ Found(req[c])' /\ Current(req[c])' /\ req'[c].pc # "count"
             /\ req'[c].pc = "lock" => req[c].pc = "count"
  <2>1. req[c] \in Request /\ Route(req[c]) /\ Found(req[c])
    BY DEF IInv, TypeOK, RequestsOK
  <2>2. Idle.pc = "idle"
    BY DEF Idle
  <2>3. CASE req'[c] = Idle
    BY <2>2, <2>3, IdleType DEF Found, Current
  <2>4. CASE \E p \in {"lock", "open", "apikey", "byemail", "register"} :
               /\ req'[c] = [req[c] EXCEPT !.pc = p]
               /\ p = "lock" => req[c].pc = "count"
               /\ p = "open" => req[c].pc = "forgive"
               /\ p = "apikey" => req[c].pc = "must"
               /\ p = "byemail" => req[c].pc = "byuid"
               /\ p = "register" => req[c].pc = "byemail"
    <3>1. PICK p \in {"lock", "open", "apikey", "byemail", "register"} :
               /\ req'[c] = [req[c] EXCEPT !.pc = p]
               /\ p = "lock" => req[c].pc = "count"
               /\ p = "open" => req[c].pc = "forgive"
               /\ p = "apikey" => req[c].pc = "must"
               /\ p = "byemail" => req[c].pc = "byuid"
               /\ p = "register" => req[c].pc = "byemail"
      BY <2>4
    <3> DEFINE w == [req[c] EXCEPT !.pc = p]
    <3>2. w \in Request /\ w.pc = p /\ w.op = req[c].op /\ w.new = req[c].new /\ Current(w)
      BY <2>1, Onward
    <3>3. Route(w)
      BY <2>1, <3>1, <3>2 DEF Route
    <3>4. user # NoUser \/ p \in {"byemail", "register"}
      BY <2>1, <3>1 DEF Found
    <3>5. req'[c] = w
      BY <3>1
    <3> HIDE DEF w
    <3> QED
      BY <3>1, <3>2, <3>3, <3>4, <3>5 DEF Found, Current
  <2>5. CASE req'[c] = [req[c] EXCEPT !.pc = Enter(req[c].op)] /\ req[c].pc = "touch"
    <3> DEFINE w == [req[c] EXCEPT !.pc = Enter(req[c].op)]
    <3>1. w \in Request /\ Route(w) /\ Current(w) /\ w.pc \in {"drop", "verify", "must"}
      BY <2>1, <2>5, Entered
    <3>2. user # NoUser
      BY <2>1, <2>5 DEF Found
    <3>3. req'[c] = w
      BY <2>5
    <3> HIDE DEF w
    <3> QED
      BY <3>1, <3>2, <3>3 DEF Found, Current
  <2> QED
    BY <2>3, <2>4, <2>5 DEF Ignoring, AfterCount
<1>2. RowKept
  BY DEF RowKept
<1>3. /\ DOMAIN sessions' = DOMAIN sessions
      /\ \A s \in DOMAIN sessions' : /\ sessions'[s] \in Session
                                     /\ \/ sessions'[s].grade = "spared"
                                        \/ /\ sessions'[s] = sessions[s]
                                           /\ \A c \in C : req[c].pc # "revoke"
  <2>1. \A s \in DOMAIN sessions : sessions[s] \in Session
    BY DEF IInv, TypeOK
  <2> QED
    BY <2>1 DEF Regraded, Session
<1>4. TypeOK'
  <2>1. user = NoUser => sessions' = << >>
    <3>1. user = NoUser => sessions = << >> /\ DOMAIN << >> = {}
      BY DEF IInv, TypeOK
    <3>2. user = NoUser => \A c \in C : req[c].pc # "revoke"
      BY DEF IInv, RequestsOK, Found
    <3> QED
      BY <3>1, <3>2
  <2>2. excused' \subseteq {"lock", "link"}
    BY DEF IInv, TypeOK, Undone
  <2>3. RowsType'
    BY <1>3, <2>1, <2>2 DEF IInv, TypeOK, RowsType
  <2> QED
    BY <2>3 DEF Rest, TypeOK, RowsType
<1>5. RequestsOK'
  BY <1>1, RequestsKept
<1>6. FewHidden'
  <2>1. Unlocked' => Unlocked
    <3> SUFFICES ASSUME Unlocked'  PROVE Unlocked
      OBVIOUS
    <3>1. user # NoUser /\ user.lock = "none" /\ "lock" \notin excused
      BY DEF Unlocked
    <3>2. \A c \in C : req[c].pc # "lock"
      BY DEF Unlocked, Undone
    <3>3. \A c \in Clients \ C : req[c].pc # "lock"
      BY DEF Unlocked, Rest
    <3> QED
      BY <3>1, <3>2, <3>3 DEF Unlocked
  <2> QED
    BY <1>1, <2>1, HiddenKept
<1>7. OldSessionsEnd'
  <2>1. CASE \A c \in C : req[c].pc # "revoke"
    BY <1>3, <2>1, OldKept
  <2>2. CASE \E c \in C : req[c].pc = "revoke"
    BY <1>3, <2>2 DEF OldSessionsEnd
  <2> QED
    BY <2>1, <2>2
<1>8. LinkComplete'
  <2> SUFFICES ASSUME linked, user.method = "password", "link" \notin excused'
               PROVE  \E c \in Clients : Halfway(c)'
    BY DEF LinkComplete, Halfway
  <2>1. PICK c \in Clients : Halfway(c)
    BY DEF IInv, LinkComplete, Halfway
  <2>2. c \notin C
    BY <2>1 DEF Undone, Halfway
  <2> QED
    BY <2>1, <2>2 DEF Rest, Halfway
<1> QED
  BY <1>4, <1>5, <1>6, <1>7, <1>8 DEF IInv

\* Statements that fail, conflicts, and requests that are interrupted.
LEMMA FaultStep ==
  ASSUME IInv, NEW C \in SUBSET Clients, \A c \in C : req[c].pc # "idle",
         \/ \E c \in C : C = {c} /\ (StatementFails(c) \/ Conflict(c))
         \/ Interrupt(C)
  PROVE  IInv'
<1>1. faults \in 0..MaxFaults /\ requests \in 0..MaxRequests /\ req \in [Clients -> Request]
  BY DEF IInv, TypeOK
<1>2. CASE Interrupt(C)
  <2>1. Rest(C) /\ \A c \in C : req'[c] = Idle
    BY <1>1, <1>2, IdleType DEF Interrupt, Rest, RowKept, Faulty
  <2>2. requests' \in 0..MaxRequests /\ faults' \in 0..MaxFaults
    BY <1>1, <1>2, AccountsAssumption DEF Interrupt, Faulty
  <2> QED
    BY <1>2, <2>1, <2>2, GivenUp DEF Interrupt, Faulty
<1>3. ASSUME NEW c \in C, C = {c}, StatementFails(c)
      PROVE  IInv'
  <2>1. Ignoring(c) \in Request
    <3>1. req[c] \in Request /\ Route(req[c])
      BY <1>1 DEF IInv, RequestsOK
    <3>2. \A p \in {"lock", "open", "apikey", "byemail", "register"} :
            [req[c] EXCEPT !.pc = p] \in Request
      BY <3>1, Onward
    <3>3. req[c].pc = "touch" => [req[c] EXCEPT !.pc = Enter(req[c].op)] \in Request
      BY <3>1, Entered
    <3> QED
      BY <3>2, <3>3, IdleType DEF Ignoring, AfterCount
  <2>2. Rest(C) /\ req'[c] = Ignoring(c)
    BY <1>1, <1>3, <2>1, OneMoves DEF StatementFails, Faulty, RowKept
  <2>3. requests' \in 0..MaxRequests /\ faults' \in 0..MaxFaults
    BY <1>1, <1>3, AccountsAssumption DEF StatementFails, Faulty
  <2> QED
    BY <1>3, <2>2, <2>3, GivenUp DEF StatementFails, Faulty
<1>4. ASSUME NEW c \in C, C = {c}, Conflict(c)
      PROVE  IInv'
  <2>1. Rest(C) /\ req'[c] = Idle
    BY <1>1, <1>4, IdleType, OneMoves DEF Conflict, RowKept
  <2>2. req[c].pc = "update"
    BY <1>4 DEF Conflict
  <2>3. sessions' = IF \E d \in C : req[d].pc = "revoke" THEN Regraded("spared") ELSE sessions
    BY <1>4, <2>2 DEF Conflict
  <2> QED
    BY <1>1, <1>4, <2>1, <2>3, GivenUp DEF Conflict
<1> QED
  BY <1>2, <1>3, <1>4

\* Time passes.
LEMMA ClockStep ==
  ASSUME IInv, LockElapses \/ DeleteExpired \/ \E s \in DOMAIN sessions : GoIdle(s)
  PROVE  IInv'
<1>1. UNCHANGED <<linked, key, req, requests, faults, excused>>
  BY DEF LockElapses, DeleteExpired, GoIdle
<1>2. Rest({}) /\ TypeOK' /\ (user # NoUser => user' # NoUser)
      /\ (Unlocked' => Unlocked /\ user' = user)
      /\ (linked' /\ user'.method = "password" => linked /\ user.method = "password")
      /\ \A s \in DOMAIN sessions' :
           sessions'[s].grade = "old" => s \in DOMAIN sessions /\ sessions[s].grade = "old"
  <2>1. RowsType /\ req \in [Clients -> Request]
    BY Types DEF IInv
  <2>2. CASE LockElapses
    <3>1. user \in User /\ user # NoUser
      BY <2>1, <2>2 DEF LockElapses, RowsType
    <3>2. /\ user' \in User /\ user'.lock = "past" /\ user'.must = user.must
          /\ user'.method = user.method /\ user'.pw = user.pw
      BY <2>2, <3>1 DEF LockElapses, User
    <3>3. user' # NoUser
      BY <3>2, AccountsAssumption
    <3>4. RowsType'
      BY <1>1, <2>1, <2>2, <3>1, <3>2, <3>3 DEF LockElapses, RowsType
    <3>5. TypeOK' /\ Rest({}) /\ ~Unlocked'
      BY <1>1, <2>1, <3>2, <3>4 DEF TypeOK, RowsType, Rest, RowKept, Credentials, Unlocked
    <3> QED
      BY <1>1, <2>2, <3>2, <3>3, <3>5 DEF LockElapses
  <2>3. CASE DeleteExpired
    <3>1. user' = user /\ DOMAIN sessions' \subseteq DOMAIN sessions
          /\ \A s \in DOMAIN sessions' : sessions'[s] = sessions[s]
      BY <2>3 DEF DeleteExpired, Only
    <3>2. user = NoUser => sessions' = << >>
      BY <2>1, <2>3 DEF DeleteExpired, Only, RowsType
    <3> QED
      BY <1>1, <2>1, <3>1, <3>2 DEF TypeOK, RowsType, Rest, RowKept, Unlocked
  <2>4. ASSUME NEW s \in DOMAIN sessions, GoIdle(s)
        PROVE  /\ user' = user /\ user # NoUser /\ DOMAIN sessions' = DOMAIN sessions
               /\ \A t \in DOMAIN sessions' :
                    sessions'[t] \in Session /\ sessions'[t].grade = sessions[t].grade
    <3>1. sessions[s] \in Session /\ [sessions[s] EXCEPT !.idle = TRUE] \in Session
          /\ [sessions[s] EXCEPT !.idle = TRUE].grade = sessions[s].grade
      BY <2>1 DEF RowsType, Session
    <3>2. DOMAIN sessions # {} /\ DOMAIN << >> = {}
      OBVIOUS
    <3>3. user # NoUser
      BY <2>1, <3>2 DEF RowsType
    <3>4. /\ user' = user /\ DOMAIN sessions' = DOMAIN sessions
          /\ sessions'[s] = [sessions[s] EXCEPT !.idle = TRUE]
          /\ \A t \in DOMAIN sessions : t # s => sessions'[t] = sessions[t]
      BY <2>4 DEF GoIdle
    <3> QED
      BY <2>1, <3>1, <3>3, <3>4 DEF RowsType
  <2>5. CASE \E s \in DOMAIN sessions : GoIdle(s)
    <3>1. PICK s \in DOMAIN sessions : GoIdle(s)
      BY <2>5
    <3> QED
      BY <1>1, <2>1, <2>4, <3>1 DEF TypeOK, RowsType, Rest, RowKept, Unlocked
  <2> QED
    BY <2>2, <2>3, <2>5
<1>3. RequestsOK'
  BY <1>2, RequestsKept
<1>4. FewHidden'
  BY <1>2, HiddenKept
<1>5. OldSessionsEnd'
  BY <1>2, OldKept
<1>6. LinkComplete'
  BY <1>1, <1>2, LinkKept
<1> QED
  BY <1>2, <1>3, <1>4, <1>5, <1>6 DEF IInv

-----------------------------------------------------------------------------
(***************************************************************************)
(* The invariant.                                                          *)
(***************************************************************************)

\* The invariant holds at the start.
LEMMA InvInit == Init => IInv
<1> SUFFICES ASSUME Init PROVE IInv
  OBVIOUS
<1>1. Idle.pc = "idle" /\ \A c \in Clients : req[c] = Idle
  BY DEF Init, Idle
<1>2. /\ user \in User \cup {NoUser}
      /\ user # NoUser => user.pw # NoPassword /\ user.failed = 0
  <2>1. CASE user = NoUser
    BY <2>1
  <2>2. ASSUME NEW p \in Passwords, user = NewUser("password", p, FALSE)
        PROVE  user \in User /\ user.pw # NoPassword /\ user.failed = 0
    BY <2>2, AccountsAssumption DEF NewUser, User
  <2> QED
    BY <2>1, <2>2 DEF Init
<1>3. TypeOK
  <2>1. sessions = << >> /\ DOMAIN sessions = {}
    BY DEF Init
  <2>2. /\ user \in User \cup {NoUser}
        /\ user # NoUser /\ user.method = "password" => user.pw # NoPassword
    BY <1>2
  <2>3. req \in [Clients -> Request]
    BY IdleType DEF Init
  <2>4. requests \in 0..MaxRequests /\ faults \in 0..MaxFaults
    BY AccountsAssumption DEF Init
  <2> QED
    BY <2>1, <2>2, <2>3, <2>4 DEF Init, TypeOK
<1>4. RequestsOK
  BY <1>1, IdleType DEF RequestsOK
<1>5. FewHidden
  <2>1. Hidden = {}
    BY <1>1 DEF Hidden
  <2>2. Cardinality(Hidden) = 0
    BY <2>1, FS_EmptySet
  <2> QED
    BY <1>2, <2>2, Finite, AccountsAssumption DEF FewHidden, Unlocked
<1>6. OldSessionsEnd /\ LinkComplete
  BY DEF Init, OldSessionsEnd, LinkComplete
<1> QED
  BY <1>3, <1>4, <1>5, <1>6 DEF IInv

\* One step per statement of the code.
LEMMA InvStep == IInv /\ [Next]_vars => IInv'
<1> SUFFICES ASSUME IInv, [Next]_vars PROVE IInv'
  OBVIOUS
<1>1. ASSUME NEW c \in Clients,
             RequestLogin(c) \/ RequestGoogle(c) \/ RequestOfUser(c) \/ RequestOfAdmin(c)
      PROVE  IInv'
  BY <1>1, RequestStep
<1>2. ASSUME NEW c \in Clients,
             GetByUsername(c) \/ IncrementFailedLogins(c) \/ LockAccount(c) \/ ResetFailedLogins(c)
      PROVE  IInv'
  BY <1>2, GetByUsernameStep, IncrementStep, LockStep, ResetStep
<1>3. ASSUME NEW c \in Clients,
             \/ GetSession(c) \/ GetByHash(c) \/ GetOwner(c) \/ GetMustChangePass(c)
             \/ CreateSession(c) \/ Touch(c) \/ WriteKey(c) \/ Logout(c)
      PROVE  IInv'
  BY <1>3, MiddlewareStep, SessionStep
<1>4. ASSUME NEW c \in Clients,
             \/ VerifyPassword(c) \/ GetByID(c) \/ Update(c)
             \/ Revoke(c) \/ Disconnect(c) \/ CreateUser(c)
      PROVE  IInv'
  BY <1>4, VerifyStep, GetByIDStep, UpdateStep, SecondStep, CreateUserStep
<1>5. ASSUME NEW c \in Clients,
             \/ GetByProviderUID(c) \/ GetLinkedUser(c) \/ GetByEmail(c) \/ Connect(c)
      PROVE  IInv'
  BY <1>5, GoogleStep, ConnectStep
<1>6. ASSUME NEW c \in Clients, Conflict(c) \/ StatementFails(c)
      PROVE  IInv'
  <2>1. req[c].pc # "idle"
    BY <1>6 DEF Conflict, StatementFails
  <2>2. {c} \in SUBSET Clients
    OBVIOUS
  <2> QED
    BY <1>6, <2>1, <2>2, FaultStep
<1>7. ASSUME NEW S \in SUBSET Clients, Interrupt(S)
      PROVE  IInv'
  <2>1. \A c \in S : req[c].pc # "idle"
    BY <1>7 DEF Interrupt
  <2> QED
    BY <1>7, <2>1, FaultStep
<1>8. CASE LockElapses \/ DeleteExpired \/ \E s \in DOMAIN sessions : GoIdle(s)
  BY <1>8, ClockStep
<1>9. CASE UNCHANGED vars
  BY <1>9 DEF vars, IInv, TypeOK, RequestsOK, FewHidden, Unlocked, Hidden, OldSessionsEnd,
              LinkComplete, Found, Current
<1> QED
  BY <1>1, <1>2, <1>3, <1>4, <1>5, <1>6, <1>7, <1>8, <1>9 DEF Next

\* It holds in every reachable state.
LEMMA Invariance == Spec => []IInv
  BY InvInit, InvStep, PTL DEF Spec

-----------------------------------------------------------------------------
(***************************************************************************)
(* Theorems.                                                               *)
(***************************************************************************)

\* Nothing belongs to a user who is not there, and an account that signs in with
\* its password has one.
THEOREM TypeCorrect == Spec => []TypeOK
<1>1. IInv => TypeOK
  BY DEF IInv
<1> QED
  BY <1>1, Invariance, PTL

\* Failures side by side delay the lock by one for each other client, and no more:
\* a count is at least the failures hidden below it.
THEOREM LockInTime == Spec => []LockedInTime
<1>1. IInv => LockedInTime
  <2> SUFFICES ASSUME IInv, user # NoUser, user.failed >= Threshold + Cardinality(Clients) - 1,
                      Unlocked
               PROVE  FALSE
    BY DEF LockedInTime, Unlocked
  <2>1. user.failed + Cardinality(Hidden) + 2 <= Threshold + Cardinality(Clients)
    BY DEF IInv, FewHidden
  <2>2. user.failed \in Nat
    BY DEF IInv, TypeOK, User
  <2> QED
    BY <2>1, <2>2, Finite, AccountsAssumption
<1> QED
  BY <1>1, Invariance, PTL

\* A password change leaves no session that was opened with the former password
\* before it, but those whose revocation is under way.
THEOREM SessionsEnd == Spec => []OldSessionsEnd
<1>1. IInv => OldSessionsEnd
  BY DEF IInv
<1> QED
  BY <1>1, Invariance, PTL

\* A Google connection and the method of the account agree, but for what is under
\* way or was interrupted.
THEOREM Linked == Spec => []LinkComplete
<1>1. IInv => LinkComplete
  BY DEF IInv
<1> QED
  BY <1>1, Invariance, PTL

\* Whoever replaces the credentials replaces those it has read.
LEMMA KeptByStep ==
  ASSUME IInv, Next, user # NoUser,
         Credentials(user') # Credentials(user) \/ (user.must /\ ~user'.must)
  PROVE  \E c \in Clients :
           /\ req[c].pc = "update" /\ req[c].copy.must = user.must
           /\ req[c].op \in {"change", "reset", "google"}
           /\ Credentials(req[c].copy) = Credentials(user)
           /\ (user.must /\ ~user'.must) => req[c].op = "change" /\ user'.pw = req[c].new
<1>1. user \in User
  BY DEF IInv, TypeOK
<1>2. \/ user' = user \/ LockElapses
      \/ \E c \in Clients : \/ IncrementFailedLogins(c) \/ LockAccount(c)
                            \/ ResetFailedLogins(c) \/ Update(c)
  BY DEF Next, RequestLogin, RequestGoogle, RequestOfUser, RequestOfAdmin, Accept, Goto,
         GetByUsername, CreateSession, GetSession, Touch, GetByHash, GetOwner, GetMustChangePass,
         WriteKey, Logout, VerifyPassword, GetByID, Conflict, Revoke, Disconnect, CreateUser,
         GetByProviderUID, GetLinkedUser, GetByEmail, Connect, StatementFails, Interrupt, Faulty,
         GoIdle, DeleteExpired
<1>3. PICK c \in Clients : Update(c)
  <2>1. LockElapses => Credentials(user') = Credentials(user) /\ user'.must = user.must
    BY <1>1 DEF LockElapses, User, Credentials
  <2>2. ASSUME NEW c \in Clients,
               IncrementFailedLogins(c) \/ LockAccount(c) \/ ResetFailedLogins(c)
        PROVE  Credentials(user') = Credentials(user) /\ user'.must = user.must
    BY <1>1, <2>2 DEF IncrementFailedLogins, LockAccount, ResetFailedLogins, User, Credentials
  <2> QED
    BY <1>2, <2>1, <2>2
<1>4. req[c].op \in {"change", "reset", "google", "edit", "deactivate"}
  BY <1>3, Drafted DEF Route
<1>5. req[c].op \in {"change", "reset", "google"}
  BY <1>3, <1>4, Drafted
<1>6. (user.must /\ ~user'.must) => req[c].op = "change" /\ user'.pw = req[c].new
  BY <1>3, <1>5, Drafted
<1> QED
  BY <1>3, <1>5, <1>6, Drafted DEF Credentials

\* No write of the row brings back credentials that another has replaced.
THEOREM CredentialsHeld == Spec => CredentialsKept
<1>1. IInv /\ [Next]_vars =>
        [user # NoUser /\ (Credentials(user') # Credentials(user) \/ (user.must /\ ~user'.must)) =>
           \E c \in Clients :
             /\ req[c].pc = "update" /\ req[c].copy.must = user.must
             /\ req[c].op \in {"change", "reset", "google"}
             /\ Credentials(req[c].copy) = Credentials(user)
             /\ (user.must /\ ~user'.must) => req[c].op = "change" /\ user'.pw = req[c].new]_vars
  BY KeptByStep
<1> QED
  BY <1>1, Invariance, PTL DEF Spec, CredentialsKept
=============================================================================
