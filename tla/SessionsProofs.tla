--------------------------- MODULE SessionsProofs ---------------------------
(***************************************************************************)
(* Theorems about Sessions that hold for every set of accounts, passwords  *)
(* and workspaces, for any number of sessions and of requests, and however *)
(* the requests overlap or are cut off.                                    *)
(***************************************************************************)
EXTENDS Sessions, TLAPS

\* What the later steps of a handler count on: the session that a request is
\* about to end is that of its account, since the handler has asked for it or
\* has taken the account from it, and no session changes its account.
EndsItsOwn ==
    \A r \in Req :
        LET q == req[r]
        IN  /\ q.pc = "session" =>
                 /\ q.op \in {"logout", "revoke", "refresh", "select"}
                 /\ q.t \in SessionId /\ Known(q.t)
                 /\ q.op \in {"refresh", "select"} => session[q.t].user = q.u
            /\ q.pc = "revoke" =>
                 /\ q.t \in SessionId /\ Known(q.t)
                 /\ session[q.t].user = q.u

SessionsInv == TypeOK /\ EndsItsOwn

USE SessionsAssumption

-----------------------------------------------------------------------------

LEMMA BlankType == Blank \in Request /\ Blank.pc = "idle"
  <1>1. SomeUser \in User /\ SomePassword \in Password
    BY DEF SomeUser, SomePassword
  <1> QED
    BY <1>1 DEF Blank, Request, Label, Operation

LEMMA InitInv == Init => SessionsInv
  <1> SUFFICES ASSUME Init PROVE SessionsInv
    OBVIOUS
  <1>1. SomeUser \in User /\ SomePassword \in Password
    BY DEF SomeUser, SomePassword
  <1>2. /\ account \in [User -> Account]
        /\ session \in [SessionId -> Session]
        /\ reset \in [ResetId -> Reset]
    BY <1>1 DEF Init, Account, Session, Reset
  <1>3. TypeOK
    BY <1>2, BlankType DEF Init, TypeOK
  <1>4. EndsItsOwn
    BY BlankType DEF Init, EndsItsOwn
  <1> QED
    BY <1>3, <1>4 DEF SessionsInv

\* A step that changes one request only.
LEMMA SetRequest ==
  ASSUME SessionsInv, NEW r \in Req, NEW q \in Request,
         req' = [req EXCEPT ![r] = q],
         UNCHANGED <<mix, account, session, reset, member>>,
         q.pc = "session" =>
             /\ q.op \in {"logout", "revoke", "refresh", "select"}
             /\ q.t \in SessionId /\ Known(q.t)
             /\ q.op \in {"refresh", "select"} => session[q.t].user = q.u,
         q.pc = "revoke" =>
             q.t \in SessionId /\ Known(q.t) /\ session[q.t].user = q.u
  PROVE  SessionsInv'
  <1>1. TypeOK'
    BY DEF SessionsInv, TypeOK
  <1>2. EndsItsOwn'
    BY DEF SessionsInv, TypeOK, EndsItsOwn, Known
  <1> QED
    BY <1>1, <1>2 DEF SessionsInv

\* A step that writes sessions: none disappears or changes its account; the
\* request goes on without a session to end, or ends.
LEMMA WriteSessions ==
  ASSUME SessionsInv, NEW r \in Req, NEW q \in Request,
         req' = [req EXCEPT ![r] = q], q.pc \notin {"session", "revoke"},
         session' \in [SessionId -> Session],
         \A s \in SessionId :
             Known(s) => Known(s)' /\ session'[s].user = session[s].user,
         UNCHANGED <<mix, account, reset, member>>
  PROVE  SessionsInv'
  <1>1. TypeOK'
    BY DEF SessionsInv, TypeOK
  <1>2. EndsItsOwn'
    BY DEF SessionsInv, TypeOK, EndsItsOwn
  <1> QED
    BY <1>1, <1>2 DEF SessionsInv

\* A step that writes neither sessions nor what a request has to do with them.
LEMMA WriteOther ==
  ASSUME SessionsInv, NEW r \in Req, NEW q \in Request,
         req' = [req EXCEPT ![r] = q], q.pc \notin {"session", "revoke"},
         account' \in [User -> Account], reset' \in [ResetId -> Reset],
         UNCHANGED <<mix, session, member>>
  PROVE  SessionsInv'
  <1>1. TypeOK'
    BY DEF SessionsInv, TypeOK
  <1>2. EndsItsOwn'
    BY DEF SessionsInv, TypeOK, EndsItsOwn, Known
  <1> QED
    BY <1>1, <1>2 DEF SessionsInv

-----------------------------------------------------------------------------
(* Arrivals                                                                *)

LEMMA ArriveInv ==
  ASSUME SessionsInv, NEW r \in Req, NEW op \in Operation, NEW first \in Request,
         Arrive(r, op, first),
         first.pc # "revoke",
         first.pc = "session" =>
             /\ op \in {"logout", "revoke", "refresh", "select"}
             /\ first.t \in SessionId /\ Known(first.t)
             /\ op \in {"refresh", "select"} => session[first.t].user = first.u
  PROVE  SessionsInv'
  <1> DEFINE q == [first EXCEPT !.op = op]
  <1>1. q \in Request /\ q.pc = first.pc /\ q.t = first.t /\ q.u = first.u /\ q.op = op
    BY DEF Request
  <1>2. req' = [req EXCEPT ![r] = q] /\ UNCHANGED <<mix, account, session, reset, member>>
    BY DEF Arrive
  <1> HIDE DEF q
  <1> QED
    BY <1>1, <1>2, SetRequest

\* What arrives names a session that exists, if any.
LEMMA ArrivalsInv ==
  ASSUME SessionsInv, NEW r \in Req, Arrivals(r)
  PROVE  SessionsInv'
  <1>s. ASSUME NEW t \in SessionId PROVE session[t].user \in User /\ t \in 0..MaxSession
    BY DEF SessionsInv, TypeOK, Session, SessionId
  <1>x. ASSUME NEW x \in ResetId PROVE reset[x].user \in User /\ x \in 0..MaxReset
    BY DEF SessionsInv, TypeOK, Reset, ResetId
  <1>1. CASE LoginArrive(r)
    <2>1. PICK u \in User, p \in Password :
            Arrive(r, "login", [Blank EXCEPT !.pc = "account", !.u = u, !.given = p])
      BY <1>1 DEF LoginArrive
    <2> DEFINE first == [Blank EXCEPT !.pc = "account", !.u = u, !.given = p]
    <2>2. first \in Request /\ first.pc = "account"
      BY BlankType DEF Request, Label
    <2> QED
      BY <2>1, <2>2, ArriveInv DEF first, Operation
  <1>2. CASE ForgotArrive(r)
    <2>1. PICK u \in User :
            Arrive(r, "forgot", [Blank EXCEPT !.pc = "account", !.u = u])
      BY <1>2 DEF ForgotArrive
    <2> DEFINE first == [Blank EXCEPT !.pc = "account", !.u = u]
    <2>2. first \in Request /\ first.pc = "account"
      BY BlankType DEF Request, Label
    <2> QED
      BY <2>1, <2>2, ArriveInv DEF first, Operation
  <1>3. CASE ChangeArrive(r)
    <2>1. PICK u \in User, p \in Password, n \in Password :
            Arrive(r, "change", [Blank EXCEPT !.pc = "account", !.u = u, !.given = p, !.new = n])
      BY <1>3 DEF ChangeArrive
    <2> DEFINE first == [Blank EXCEPT !.pc = "account", !.u = u, !.given = p, !.new = n]
    <2>2. first \in Request /\ first.pc = "account"
      BY BlankType DEF Request, Label
    <2> QED
      BY <2>1, <2>2, ArriveInv DEF first, Operation
  <1>4. CASE ResetArrive(r)
    <2>1. PICK x \in ResetId, n \in Password :
            Arrive(r, "reset", [Blank EXCEPT !.pc = "reset", !.x = x, !.new = n,
                                             !.u = reset[x].user])
      BY <1>4 DEF ResetArrive
    <2> DEFINE first == [Blank EXCEPT !.pc = "reset", !.x = x, !.new = n,
                                      !.u = reset[x].user]
    <2>2. first \in Request /\ first.pc = "reset"
      BY <1>x, BlankType DEF Request, Label
    <2> QED
      BY <2>1, <2>2, ArriveInv DEF first, Operation
  <1>5. CASE RefreshArrive(r)
    <2>1. PICK t \in SessionId :
            /\ Known(t)
            /\ Arrive(r, "refresh", [Blank EXCEPT !.pc = "session", !.t = t,
                                                  !.u = session[t].user])
      BY <1>5 DEF RefreshArrive
    <2> DEFINE first == [Blank EXCEPT !.pc = "session", !.t = t,
                                      !.u = session[t].user]
    <2>2. first \in Request /\ first.pc = "session" /\ first.t = t /\ first.u = session[t].user
      BY <1>s, BlankType DEF Request, Label
    <2> QED
      BY <2>1, <2>2, ArriveInv DEF first, Operation
  <1>6. CASE EndArrive(r)
    <2>1. PICK op \in {"logout", "revoke"}, u \in User, t \in SessionId :
            /\ Known(t)
            /\ Arrive(r, op, [Blank EXCEPT !.pc = "session", !.u = u, !.t = t])
      BY <1>6 DEF EndArrive
    <2> DEFINE first == [Blank EXCEPT !.pc = "session", !.u = u, !.t = t]
    <2>2. first \in Request /\ first.pc = "session" /\ first.t = t /\ first.u = u
      BY <1>s, BlankType DEF Request, Label
    <2> QED
      BY <2>1, <2>2, ArriveInv DEF first, Operation
  <1>7. CASE OthersArrive(r)
    <2>1. PICK t \in SessionId :
            Arrive(r, "others", [Blank EXCEPT !.pc = "others", !.t = t,
                                              !.u = session[t].user])
      BY <1>7 DEF OthersArrive
    <2> DEFINE first == [Blank EXCEPT !.pc = "others", !.t = t,
                                      !.u = session[t].user]
    <2>2. first \in Request /\ first.pc = "others"
      BY <1>s, BlankType DEF Request, Label
    <2> QED
      BY <2>1, <2>2, ArriveInv DEF first, Operation
  <1>8. CASE SelectArrive(r)
    <2>1. PICK t \in SessionId, w \in Workspace :
            /\ Known(t)
            /\ Arrive(r, "select", [Blank EXCEPT !.pc = "session", !.t = t, !.ws = w,
                                                 !.u = session[t].user])
      BY <1>8 DEF SelectArrive
    <2> DEFINE first == [Blank EXCEPT !.pc = "session", !.t = t, !.ws = w,
                                      !.u = session[t].user]
    <2>2. first \in Request /\ first.pc = "session" /\ first.t = t /\ first.u = session[t].user
      BY <1>s, BlankType DEF Request, Label
    <2> QED
      BY <2>1, <2>2, ArriveInv DEF first, Operation
  <1>9. CASE AdminArrive(r)
    <2>1. PICK op \in Administration, u \in User :
            Arrive(r, op, [Blank EXCEPT !.pc = "admin", !.u = u])
      BY <1>9 DEF AdminArrive
    <2> DEFINE first == [Blank EXCEPT !.pc = "admin", !.u = u]
    <2>2. first \in Request /\ first.pc = "admin"
      BY BlankType DEF Request, Label
    <2> QED
      BY <2>1, <2>2, ArriveInv DEF first, Operation, Administration
  <1> QED
    BY <1>1, <1>2, <1>3, <1>4, <1>5, <1>6, <1>7, <1>8, <1>9 DEF Arrivals

-----------------------------------------------------------------------------
(* Look-ups and writes                                                     *)

\* A look-up goes on with a request of the right kind, or ends it.
LEMMA ReadInv ==
  ASSUME SessionsInv, NEW r \in Req, NEW label, NEW ok, NEW next,
         Read(r, label, ok, next),
         ok => /\ next \in Request
               /\ next.pc # "session"
               /\ next.pc = "revoke" =>
                    next.t \in SessionId /\ Known(next.t) /\ session[next.t].user = next.u
  PROVE  SessionsInv'
  <1>1. PICK q \in Request :
          /\ req' = [req EXCEPT ![r] = q]
          /\ q.pc # "session"
          /\ q.pc = "revoke" =>
               q.t \in SessionId /\ Known(q.t) /\ session[q.t].user = q.u
    BY BlankType DEF Read
  <1>2. UNCHANGED <<mix, account, session, reset, member>>
    BY DEF Read
  <1> QED
    BY <1>1, <1>2, SetRequest

LEMMA LookupsInv ==
  ASSUME SessionsInv, NEW r \in Req, Lookups(r)
  PROVE  SessionsInv'
  <1> DEFINE q == req[r]
  <1>0. TypeOK /\ q \in Request
    BY DEF SessionsInv, TypeOK
  <1>1. CASE FindAccount(r)
    <2> DEFINE next == [q EXCEPT !.with = q.given,
                                 !.pc = CASE q.op = "login" -> "latest"
                                          [] q.op = "forgot" -> "request"
                                          [] OTHER -> "password"]
    <2>1. next \in Request /\ next.pc \in {"latest", "request", "password"}
      BY <1>0 DEF Request, Label
    <2> HIDE DEF next
    <2>2. PICK ok : Read(r, "account", ok, next)
      BY <1>1 DEF FindAccount, next
    <2> QED
      BY <2>1, <2>2, ReadInv
  <1>2. CASE FindSession(r)
    <2> DEFINE s == session[q.t]
               ok == Accepts(q) /\ (q.op = "revoke" => Live(q.t))
               next == CASE q.op = "refresh" ->
                              [q EXCEPT !.pc = "revoke", !.ws = s.ws, !.origin = s.origin,
                                        !.with = s.with]
                         [] q.op = "select" -> [q EXCEPT !.pc = "member"]
                         [] OTHER -> [q EXCEPT !.pc = "revoke"]
    <2>1. Read(r, "session", ok, next)
      BY <1>2 DEF FindSession
    <2>2. /\ q.op \in {"logout", "revoke", "refresh", "select"}
          /\ q.t \in SessionId /\ Known(q.t)
          /\ q.op \in {"refresh", "select"} => session[q.t].user = q.u
      BY <2>1 DEF Read, At, SessionsInv, EndsItsOwn
    <2>3. s \in Session
      BY <1>0, <2>2 DEF TypeOK
    <2>4. ASSUME ok
          PROVE  /\ next \in Request /\ next.pc \in {"member", "revoke"}
                 /\ next.t = q.t /\ next.u = q.u
                 /\ next.pc = "revoke" => session[q.t].user = q.u
      <3>1. CASE q.op = "refresh"
        <4>1. next = [q EXCEPT !.pc = "revoke", !.ws = s.ws, !.origin = s.origin,
                               !.with = s.with]
          BY <3>1
        <4> HIDE DEF next
        <4> QED
          BY <1>0, <2>2, <2>3, <3>1, <4>1 DEF Request, Label, Session
      <3>2. CASE q.op = "select"
        <4>1. next = [q EXCEPT !.pc = "member"]
          BY <3>2
        <4> HIDE DEF next
        <4> QED
          BY <1>0, <4>1 DEF Request, Label
      <3>3. CASE q.op \notin {"refresh", "select"}
        <4>1. next = [q EXCEPT !.pc = "revoke"]
          BY <3>3
        <4>2. session[q.t].user = q.u
          BY <2>2, <2>4, <3>3 DEF Accepts
        <4> HIDE DEF next
        <4> QED
          BY <1>0, <4>1, <4>2 DEF Request, Label
      <3> QED
        BY <3>1, <3>2, <3>3
    <2> HIDE DEF ok, next, s
    <2> QED
      BY <2>1, <2>2, <2>4, ReadInv
  <1>3. CASE FindReset(r)
    <2> DEFINE next == [q EXCEPT !.pc = "password"]
    <2>1. next \in Request /\ next.pc = "password"
      BY <1>0 DEF Request, Label
    <2>2. PICK ok : Read(r, "reset", ok, next)
      BY <1>3 DEF FindReset
    <2> HIDE DEF next
    <2> QED
      BY <2>1, <2>2, ReadInv
  <1>4. CASE FindLatest(r)
    <2>1. PICK next : /\ Read(r, "latest", TRUE, next)
                      /\ \/ next = [q EXCEPT !.pc = "issue"]
                         \/ \E s \in SessionId :
                              next = [q EXCEPT !.pc = "member", !.ws = session[s].ws]
      BY <1>4 DEF FindLatest
    <2>2. next \in Request /\ next.pc \in {"issue", "member"}
      <3>1. CASE next = [q EXCEPT !.pc = "issue"]
        BY <1>0, <3>1 DEF Request, Label
      <3>2. ASSUME NEW s \in SessionId,
                   next = [q EXCEPT !.pc = "member", !.ws = session[s].ws]
            PROVE  next \in Request /\ next.pc = "member"
        <4>1. session[s].ws \in Workspace \cup {NoWorkspace}
          BY <1>0 DEF TypeOK, Session
        <4> QED
          BY <1>0, <3>2, <4>1 DEF Request, Label
      <3> QED
        BY <2>1, <3>1, <3>2
    <2> QED
      BY <2>1, <2>2, ReadInv
  <1>5. CASE FindMember(r)
    <2> DEFINE next == IF q.op = "select" THEN [q EXCEPT !.pc = "select"]
                       ELSE [q EXCEPT !.pc = "issue",
                                      !.ws = IF q.ws \in member[q.u] THEN @
                                             ELSE NoWorkspace]
    <2>1. next \in Request /\ next.pc \in {"select", "issue"}
      BY <1>0 DEF Request, Label
    <2>2. PICK ok : Read(r, "member", ok, next)
      BY <1>5 DEF FindMember
    <2> HIDE DEF next
    <2> QED
      BY <2>1, <2>2, ReadInv
  <1>6. CASE FindUser(r)
    <2> DEFINE next == [q EXCEPT !.pc = "flag"]
    <2>1. next \in Request /\ next.pc = "flag"
      BY <1>0 DEF Request, Label
    <2>2. PICK ok : Read(r, "admin", ok, next)
      BY <1>6 DEF FindUser
    <2> HIDE DEF next
    <2> QED
      BY <2>1, <2>2, ReadInv
  <1> QED
    BY <1>1, <1>2, <1>3, <1>4, <1>5, <1>6 DEF Lookups

\* What Revoked makes of the sessions, whichever it is given.
LEMMA RevokedSessions ==
  ASSUME TypeOK, NEW S
  PROVE  /\ Revoked(S) \in [SessionId -> Session]
         /\ \A s \in SessionId :
              /\ Revoked(S)[s].user = session[s].user
              /\ Revoked(S)[s].state = IF s \in S /\ Live(s) THEN "revoked"
                                       ELSE session[s].state
  <1>1. ASSUME NEW s \in SessionId PROVE session[s] \in Session
    BY DEF TypeOK
  <1> QED
    BY <1>1 DEF Revoked, Session

LEMMA SessionWritesInv ==
  ASSUME SessionsInv, NEW r \in Req, SessionWrites(r)
  PROVE  SessionsInv'
  <1> DEFINE q == req[r]
  <1>0. TypeOK /\ q \in Request
    BY DEF SessionsInv, TypeOK
  <1>a. ASSUME NEW next \in Request, next.pc \notin {"session", "revoke"},
               NEW S, SetSession(Revoked(S)), req' = [req EXCEPT ![r] = next]
        PROVE  SessionsInv'
    <2>1. /\ session' \in [SessionId -> Session]
          /\ \A s \in SessionId :
               Known(s) => Known(s)' /\ session'[s].user = session[s].user
      BY <1>0, <1>a, RevokedSessions DEF SetSession, Known
    <2> QED
      BY <1>a, <2>1, WriteSessions DEF SetSession
  <1>1. CASE Revoke(r)
    <2>1. PICK next \in Request : /\ next.pc \notin {"session", "revoke"}
                                  /\ req' = [req EXCEPT ![r] = next]
      <3>1. CASE q.op # "refresh"
        BY <1>1, <3>1, BlankType DEF Revoke, End
      <3>2. ASSUME NEW label \in {"latest", "member"}
            PROVE  /\ [q EXCEPT !.pc = label] \in Request
                   /\ [q EXCEPT !.pc = label].pc \notin {"session", "revoke"}
        BY <1>0 DEF Request, Label
      <3> QED
        BY <1>1, <3>1, <3>2 DEF Revoke, Goto
    <2> QED
      BY <1>1, <1>a, <2>1 DEF Revoke
  <1>2. CASE Issue(r)
    <2>1. PICK s \in SessionId :
            /\ ~Known(s)
            /\ SetSession([session EXCEPT ![s] =
                 [state |-> "live", expired |-> FALSE, user |-> req[r].u,
                  ws |-> req[r].ws, with |-> req[r].with,
                  origin |-> IF req[r].op = "login" THEN s ELSE req[r].origin]])
            /\ End(r)
      BY <1>2 DEF Issue
    <2> DEFINE new == [state |-> "live", expired |-> FALSE, user |-> req[r].u,
                       ws |-> req[r].ws, with |-> req[r].with,
                       origin |-> IF req[r].op = "login" THEN s ELSE req[r].origin]
    <2>2. new \in Session
      BY <1>0 DEF Session, Request, SessionId
    <2> HIDE DEF new
    <2>3. session' = [session EXCEPT ![s] = new] /\ UNCHANGED <<mix, account, reset, member>>
      BY <2>1 DEF SetSession, new
    <2>4. session' \in [SessionId -> Session]
      BY <1>0, <2>2, <2>3 DEF TypeOK
    <2>5. ASSUME NEW t \in SessionId, Known(t)
          PROVE  Known(t)' /\ session'[t].user = session[t].user
      BY <1>0, <2>1, <2>3, <2>5 DEF TypeOK, Known
    <2> QED
      BY <2>1, <2>3, <2>4, <2>5, BlankType, WriteSessions DEF End
  <1>3. CASE RevokeOthers(r)
    BY <1>3, <1>a, BlankType DEF RevokeOthers, End
  <1>4. CASE RevokeAll(r)
    BY <1>4, <1>a, BlankType DEF RevokeAll, End
  <1>5. CASE Select(r)
    <2>1. /\ session' = [session EXCEPT ![q.t] = [@ EXCEPT !.ws = q.ws]]
          /\ UNCHANGED <<mix, account, reset, member>>
          /\ End(r)
      BY <1>5 DEF Select, SetSession
    <2>2. ASSUME NEW t \in SessionId
          PROVE  [session[t] EXCEPT !.ws = q.ws] \in Session
      BY <1>0 DEF TypeOK, Session, Request
    <2>3. ASSUME NEW t \in SessionId
          PROVE  /\ session'[t] \in Session
                 /\ session'[t].user = session[t].user
                 /\ session'[t].state = session[t].state
      BY <1>0, <2>1, <2>2 DEF TypeOK, Session
    <2>4. session' \in [SessionId -> Session]
      BY <1>0, <2>1, <2>3 DEF TypeOK
    <2> QED
      BY <2>1, <2>3, <2>4, BlankType, WriteSessions DEF End, Known
  <1> QED
    BY <1>1, <1>2, <1>3, <1>4, <1>5 DEF SessionWrites

LEMMA OtherWritesInv ==
  ASSUME SessionsInv, NEW r \in Req, OtherWrites(r)
  PROVE  SessionsInv'
  <1> DEFINE q == req[r]
  <1>0. TypeOK /\ q \in Request
    BY DEF SessionsInv, TypeOK
  <1>1. PICK next \in Request : /\ next.pc \notin {"session", "revoke"}
                                /\ req' = [req EXCEPT ![r] = next]
    <2>1. ASSUME NEW label \in {"used", "all"}
          PROVE  /\ [q EXCEPT !.pc = label] \in Request
                 /\ [q EXCEPT !.pc = label].pc \notin {"session", "revoke"}
      BY <1>0 DEF Request, Label
    <2>2. CASE End(r)
      BY <2>2, BlankType DEF End
    <2> QED
      BY <2>1, <2>2 DEF OtherWrites, RequestReset, SetPassword, MarkUsed, SetFlags, Goto
  <1>2. account' \in [User -> Account] /\ reset' \in [ResetId -> Reset]
    <2>1. CASE RequestReset(r)
      BY <1>0, <2>1 DEF RequestReset, SetReset, TypeOK, Request, Reset
    <2>2. CASE SetPassword(r)
      <3>1. [account[q.u] EXCEPT !.password = q.new] \in Account
        BY <1>0 DEF TypeOK, Request, Account
      <3> QED
        BY <1>0, <2>2, <3>1 DEF SetPassword, SetAccount, TypeOK
    <2>3. CASE MarkUsed(r)
      <3>1. ASSUME NEW x \in ResetId PROVE [reset[x] EXCEPT !.state = "used"] \in Reset
        BY <1>0 DEF TypeOK, Reset
      <3> QED
        BY <1>0, <2>3, <3>1 DEF MarkUsed, SetReset, TypeOK
    <2>4. CASE SetFlags(r)
      <3>1. [account[q.u] EXCEPT !.active = q.op = "activate",
                                 !.deleted = account[q.u].deleted \/ q.op = "delete"]
              \in Account
        <4>1. (q.op = "activate") \in BOOLEAN
              /\ (account[q.u].deleted \/ q.op = "delete") \in BOOLEAN
          OBVIOUS
        <4>2. ASSUME NEW active \in BOOLEAN, NEW deleted \in BOOLEAN
              PROVE  [account[q.u] EXCEPT !.active = active, !.deleted = deleted]
                       \in Account
          <5>1. account[q.u] \in Account
            BY <1>0 DEF TypeOK, Request
          <5> QED
            BY <5>1 DEF Account
        <4> QED
          BY <4>1, <4>2
      <3> QED
        BY <1>0, <2>4, <3>1 DEF SetFlags, SetAccount, TypeOK
    <2> QED
      BY <2>1, <2>2, <2>3, <2>4 DEF OtherWrites
  <1>3. UNCHANGED <<mix, session, member>>
    BY DEF OtherWrites, RequestReset, SetPassword, MarkUsed, SetFlags, SetReset, SetAccount
  <1> QED
    BY <1>1, <1>2, <1>3, WriteOther

LEMMA EnvironmentInv ==
  ASSUME SessionsInv, Environment
  PROVE  SessionsInv'
  <1>0. TypeOK
    BY DEF SessionsInv
  <1>1. ASSUME NEW s \in SessionId, ExpireSession(s) PROVE SessionsInv'
    <2>1. session' = [session EXCEPT ![s] = [@ EXCEPT !.expired = TRUE]]
          /\ UNCHANGED <<mix, account, reset, member, req>>
      BY <1>1 DEF ExpireSession, SetSession
    <2>2. [session[s] EXCEPT !.expired = TRUE] \in Session
      BY <1>0 DEF TypeOK, Session
    <2>3. session' \in [SessionId -> Session]
      BY <1>0, <2>1, <2>2 DEF TypeOK
    <2>4. \A t \in SessionId : /\ session'[t].user = session[t].user
                               /\ session'[t].state = session[t].state
      BY <1>0, <2>1 DEF TypeOK, Session
    <2> QED
      BY <2>1, <2>3, <2>4 DEF SessionsInv, TypeOK, EndsItsOwn, Known
  <1>2. ASSUME NEW x \in ResetId, ExpireReset(x) PROVE SessionsInv'
    <2>1. reset' \in [ResetId -> Reset]
      BY <1>0, <1>2 DEF ExpireReset, SetReset, TypeOK, Reset
    <2> QED
      BY <1>2, <2>1 DEF ExpireReset, SetReset, SessionsInv, TypeOK, EndsItsOwn, Known
  <1>3. ASSUME NEW u \in User, NEW w \in Workspace, ChangeMembership(u, w)
        PROVE  SessionsInv'
    <2>1. (IF w \in member[u] THEN member[u] \ {w} ELSE member[u] \cup {w})
            \in SUBSET Workspace
      BY <1>0 DEF TypeOK
    <2>2. member' \in [User -> SUBSET Workspace]
      BY <1>0, <1>3, <2>1 DEF ChangeMembership, TypeOK
    <2> QED
      BY <1>3, <2>2 DEF ChangeMembership, SessionsInv, TypeOK, EndsItsOwn, Known
  <1> QED
    BY <1>1, <1>2, <1>3 DEF Environment

LEMMA NextInv == SessionsInv /\ [Next]_vars => SessionsInv'
  <1> SUFFICES ASSUME SessionsInv, [Next]_vars PROVE SessionsInv'
    OBVIOUS
  <1>1. ASSUME NEW r \in Req, Fail(r) PROVE SessionsInv'
    BY <1>1, BlankType, SetRequest DEF Fail, End
  <1>2. CASE UNCHANGED vars
    BY <1>2 DEF vars, SessionsInv, TypeOK, EndsItsOwn, Known
  <1> QED
    BY <1>1, <1>2, ArrivalsInv, LookupsInv, SessionWritesInv, OtherWritesInv,
       EnvironmentInv DEF Next

-----------------------------------------------------------------------------
(* Who ends a session                                                      *)

LEMMA StepEnds ==
  ASSUME SessionsInv, [Next]_vars, NEW s \in SessionId
  PROVE  /\ Live(s) /\ ~Live(s)' =>
              \E r \in Req : /\ req[r].u = session[s].user
                             /\ req[r].pc \in {"revoke", "others", "all"}
                             /\ req[r].pc = "revoke" => req[r].t = s
                             /\ req[r].pc = "others" => req[r].t # s
         /\ session[s].state = "revoked" => ~Live(s)'
  <1> DEFINE EndedBy(r) == /\ req[r].u = session[s].user
                           /\ req[r].pc \in {"revoke", "others", "all"}
                           /\ req[r].pc = "revoke" => req[r].t = s
                           /\ req[r].pc = "others" => req[r].t # s
             Goal == /\ Live(s) /\ ~Live(s)' => \E r \in Req : EndedBy(r)
                     /\ session[s].state = "revoked" => ~Live(s)'
  <1> SUFFICES Goal
    OBVIOUS
  <1>0. TypeOK
    BY DEF SessionsInv
  \* Most steps leave the state of every session as it is.
  <1>1. CASE session'[s].state = session[s].state
    BY <1>1 DEF Live
  <1>2. ASSUME NEW r \in Req, NEW S, SetSession(Revoked(S)), s \in S => EndedBy(r)
        PROVE  Goal
    <2>1. session'[s].state = IF s \in S /\ Live(s) THEN "revoked" ELSE session[s].state
      BY <1>0, <1>2, RevokedSessions DEF SetSession
    <2> QED
      BY <1>2, <2>1 DEF Live
  <1>3. ASSUME NEW r \in Req, SessionWrites(r) PROVE Goal
    <2>1. CASE Revoke(r)
      <3>1. session[req[r].t].user = req[r].u /\ req[r].pc = "revoke"
        BY <2>1 DEF Revoke, At, SessionsInv, EndsItsOwn
      <3>2. SetSession(Revoked({req[r].t}))
        BY <2>1 DEF Revoke
      <3> QED
        BY <1>2, <3>1, <3>2
    <2>2. CASE Issue(r)
      <3>1. PICK n \in SessionId : ~Known(n) /\ \E v : session' = [session EXCEPT ![n] = v]
        BY <2>2 DEF Issue, SetSession
      <3>2. CASE n = s
        BY <3>1, <3>2 DEF Known, Live
      <3>3. CASE n # s
        BY <1>0, <1>1, <3>1, <3>3 DEF TypeOK
      <3> QED
        BY <3>2, <3>3
    <2>3. CASE RevokeOthers(r)
      <3> DEFINE S == {t \in SessionId : session[t].user = req[r].u} \ {req[r].t}
      <3>1. SetSession(Revoked(S)) /\ req[r].pc = "others"
        BY <2>3 DEF RevokeOthers, At
      <3> QED
        BY <1>2, <3>1
    <2>4. CASE RevokeAll(r)
      <3> DEFINE S == {t \in SessionId : session[t].user = req[r].u}
      <3>1. SetSession(Revoked(S)) /\ req[r].pc = "all"
        BY <2>4 DEF RevokeAll, At
      <3> QED
        BY <1>2, <3>1
    <2>5. CASE Select(r)
      BY <1>0, <1>1, <2>5 DEF Select, SetSession, TypeOK, Session
    <2> QED
      BY <1>3, <2>1, <2>2, <2>3, <2>4, <2>5 DEF SessionWrites
  <1>4. CASE session' = session
    BY <1>1, <1>4
  <1>5. ASSUME NEW t \in SessionId, ExpireSession(t) PROVE Goal
    BY <1>0, <1>1, <1>5 DEF ExpireSession, SetSession, TypeOK, Session
  <1>6. ASSUME NEW r \in Req, Arrivals(r) \/ Lookups(r) \/ OtherWrites(r) \/ Fail(r)
        PROVE  session' = session
    <2>1. CASE Arrivals(r)
      BY <2>1 DEF Arrivals, LoginArrive, ForgotArrive, ChangeArrive, ResetArrive,
                  RefreshArrive, EndArrive, OthersArrive, SelectArrive, AdminArrive,
                  Arrive
    <2>2. CASE Lookups(r)
      BY <2>2 DEF Lookups, FindAccount, FindSession, FindReset, FindLatest,
                  FindMember, FindUser, Read
    <2>3. CASE OtherWrites(r) \/ Fail(r)
      BY <2>3 DEF OtherWrites, RequestReset, SetPassword, MarkUsed, SetFlags,
                  SetReset, SetAccount, Fail
    <2> QED
      BY <1>6, <2>1, <2>2, <2>3
  <1>7. ASSUME \/ \E x \in ResetId : ExpireReset(x)
               \/ \E u \in User, w \in Workspace : ChangeMembership(u, w)
               \/ UNCHANGED vars
        PROVE  session' = session
    BY <1>7 DEF ExpireReset, SetReset, ChangeMembership, vars
  <1> HIDE DEF Goal
  <1> QED
    BY <1>3, <1>4, <1>5, <1>6, <1>7 DEF Next, Environment

-----------------------------------------------------------------------------

\* What is stored and what requests carry have their types, for any number of
\* overlapping requests.
THEOREM TypeCorrect == Spec => []TypeOK
  <1>1. SessionsInv => TypeOK
    BY DEF SessionsInv
  <1> QED
    BY InitInv, NextInv, <1>1, PTL DEF Spec

\* Whatever overlaps or fails, only requests of the account of a session end it,
\* and a session that has ended does not come back.
THEOREM SessionsEndedByOwner == Spec => EndedByTheirOwner
  <1>1. SessionsInv /\ [Next]_vars =>
          [\A s \in SessionId :
             /\ Live(s) /\ ~Live(s)' =>
                  \E r \in Req : /\ req[r].u = session[s].user
                                 /\ req[r].pc \in {"revoke", "others", "all"}
                                 /\ req[r].pc = "revoke" => req[r].t = s
                                 /\ req[r].pc = "others" => req[r].t # s
             /\ session[s].state = "revoked" => ~Live(s)']_vars
    BY StepEnds
  <1> QED
    BY InitInv, NextInv, <1>1, PTL DEF Spec, EndedByTheirOwner

-----------------------------------------------------------------------------
(* Requests that do not overlap                                            *)

OneByOne ==
    \A r1, r2 \in Req : ~At(r1, "idle") /\ ~At(r2, "idle") => r1 = r2

Origins ==
    \A s \in SessionId :
        Known(s) => session[s].origin \in SessionId /\ Known(session[s].origin)

SingleOrigin ==
    \A s, t \in SessionId :
        Live(s) /\ Live(t) /\ session[s].origin = session[t].origin => s = t

\* On the way to a new session.
Going(q) ==
    q.pc \in {"latest", "issue"} \/ (q.pc = "member" /\ q.op # "select")

Exchanging(q) == q.pc = "revoke" /\ q.op = "refresh"

\* A refresh has found the session it exchanges alive, and once it has ended it,
\* no session of its sign-in is alive.
Exchanged(q) ==
    /\ Exchanging(q) => Live(q.t) /\ q.origin = session[q.t].origin
    /\ Going(q) /\ q.op # "login" =>
         /\ q.origin \in SessionId /\ Known(q.origin)
         /\ \A s \in SessionId : Live(s) => session[s].origin # q.origin

\* The session to be issued has the present password.
Knows(q) == Going(q) \/ Exchanging(q) => q.with = account[q.u].password

\* Sessions have the present password, but for those that a request is about to
\* end.
Agree ==
    \A s \in SessionId :
        Live(s) =>
          \/ session[s].with = account[session[s].user].password
          \/ \E r \in Req : Replacing(req[r]) /\ req[r].u = session[s].user

SerialInv ==
    ~mix.overlap =>
        /\ OneByOne /\ Origins /\ SingleOrigin
        /\ \A r \in Req : Exchanged(req[r])
        /\ ~mix.crash => Agree /\ \A r \in Req : Knows(req[r])

LEMMA BlankWaits == ~Going(Blank) /\ ~Exchanging(Blank) /\ ~Replacing(Blank)
  BY BlankType DEF Going, Exchanging, Replacing

LEMMA InitSerial == Init => SerialInv
  <1> SUFFICES ASSUME Init PROVE SerialInv
    OBVIOUS
  <1>1. \A r \in Req : req[r] = Blank
    BY DEF Init
  <1>2. \A s \in SessionId : ~Known(s) /\ ~Live(s)
    BY DEF Init, Known, Live
  <1>3. \A r \in Req : At(r, "idle") /\ Exchanged(req[r]) /\ Knows(req[r])
    BY <1>1, BlankType, BlankWaits DEF At, Exchanged, Knows
  <1> QED
    BY <1>2, <1>3 DEF SerialInv, OneByOne, Origins, SingleOrigin, Agree

\* A step of the only request there is, to the record q.
LEMMA SerialStep ==
  ASSUME TypeOK, SerialInv, ~mix.overlap, UNCHANGED mix, NEW r \in Req, NEW q,
         req' = [req EXCEPT ![r] = q], ~At(r, "idle") \/ Quiet,
         Origins', SingleOrigin', Exchanged(q)', ~mix.crash => Knows(q)' /\ Agree'
  PROVE  SerialInv'
  <1>1. ASSUME NEW o \in Req, o # r PROVE req'[o] = req[o] /\ At(o, "idle")
    BY <1>1 DEF TypeOK, SerialInv, OneByOne, Quiet
  <1>2. req'[r] = q
    BY DEF TypeOK
  <1>3. OneByOne'
    BY <1>1 DEF OneByOne, At
  <1>4. ASSUME NEW o \in Req, o # r PROVE Exchanged(req[o])' /\ Knows(req[o])'
    BY <1>1, <1>4 DEF At, Exchanged, Knows, Going, Exchanging
  <1>5. \A o \in Req : Exchanged(req[o])'
    BY <1>2, <1>4 DEF Exchanged, Exchanging, Going, Known, Live
  <1>6. ~mix.crash => \A o \in Req : Knows(req[o])'
    BY <1>2, <1>4 DEF Knows, Exchanging, Going
  <1> QED
    BY <1>3, <1>5, <1>6 DEF SerialInv

\* Nobody else replaces a password.
LEMMA NobodyReplaces ==
  ASSUME SerialInv, ~mix.overlap, ~mix.crash, NEW r \in Req,
         ~At(r, "idle") \/ Quiet, ~Replacing(req[r])
  PROVE  \A s \in SessionId :
             Live(s) => session[s].with = account[session[s].user].password
  <1>1. \A o \in Req : ~Replacing(req[o])
    BY DEF SerialInv, OneByOne, Replacing, At, Quiet
  <1> QED
    BY <1>1 DEF SerialInv, Agree

\* A step that only reads.
LEMMA SerialRead ==
  ASSUME TypeOK, SerialInv, ~mix.overlap, NEW r \in Req, NEW q,
         req' = [req EXCEPT ![r] = q], ~At(r, "idle") \/ Quiet,
         UNCHANGED <<mix, account, session>>,
         ~Replacing(req[r]), Exchanged(q), ~mix.crash => Knows(q)
  PROVE  SerialInv'
  <1>1. Origins' /\ SingleOrigin'
    BY DEF SerialInv, Origins, SingleOrigin, Known, Live
  <1>2. Exchanged(q)'
    BY DEF Exchanged, Known, Live, Exchanging, Going
  <1>3. ~mix.crash => Knows(q)' /\ Agree'
    BY NobodyReplaces DEF Knows, Agree, Live, Exchanging, Going
  <1> QED
    BY <1>1, <1>2, <1>3, SerialStep

\* A step that revokes some sessions.
LEMMA SerialRevoke ==
  ASSUME TypeOK, SerialInv, ~mix.overlap, NEW r \in Req, NEW q, NEW S,
         req' = [req EXCEPT ![r] = q], ~At(r, "idle"),
         SetSession(Revoked(S)), ~mix.crash => Knows(q), Exchanged(q)',
         Replacing(req[r]) => \A s \in SessionId : session[s].user = req[r].u => s \in S
  PROVE  SerialInv'
  <1>1. ASSUME NEW s \in SessionId
        PROVE  /\ session'[s].user = session[s].user
               /\ session'[s].origin = session[s].origin
               /\ session'[s].with = session[s].with
               /\ Known(s)' <=> Known(s)
               /\ Live(s)' <=> Live(s) /\ s \notin S
    <2>1. session[s] \in Session
      BY DEF TypeOK
    <2>2. session'[s] = IF s \in S /\ Live(s) THEN [session[s] EXCEPT !.state = "revoked"]
                        ELSE session[s]
      BY DEF SetSession, Revoked
    <2> QED
      BY <2>1, <2>2 DEF Session, Known, Live
  <1>2. Origins' /\ SingleOrigin'
    BY <1>1 DEF SerialInv, Origins, SingleOrigin
  <1>3. ASSUME ~mix.crash PROVE Knows(q)' /\ Agree'
    <2>1. account' = account
      BY DEF SetSession
    <2>2. CASE ~Replacing(req[r])
      BY <1>1, <1>3, <2>1, <2>2, NobodyReplaces DEF Knows, Agree, Exchanging, Going
    <2>3. CASE Replacing(req[r])
      <3>1. \A o \in Req : Replacing(req[o]) => o = r
        BY DEF SerialInv, OneByOne, At, Replacing
      <3>2. ASSUME NEW s \in SessionId, Live(s)'
            PROVE  session[s].with = account[session[s].user].password
        BY <1>1, <1>3, <2>3, <3>1, <3>2 DEF SerialInv, Agree
      <3> QED
        BY <1>1, <1>3, <2>1, <3>2 DEF Knows, Agree, Exchanging, Going
    <2> QED
      BY <2>2, <2>3
  <1> QED
    BY <1>2, <1>3, SerialStep DEF SetSession

LEMMA ArrivalsSerial ==
  ASSUME TypeOK, SerialInv, ~mix.overlap, NEW r \in Req, Arrivals(r)
  PROVE  SerialInv'
  <1> DEFINE First == {"account", "session", "reset", "others", "admin"}
  <1>0. ASSUME NEW t \in SessionId PROVE session[t].user \in User /\ t \in 0..MaxSession
    BY DEF TypeOK, Session, SessionId
  <1>x. ASSUME NEW x \in ResetId PROVE reset[x].user \in User /\ x \in 0..MaxReset
    BY DEF TypeOK, Reset, ResetId
  <1>1. ASSUME NEW op, NEW first \in Request, Arrive(r, op, first), first.pc \in First
        PROVE  SerialInv'
    <2> DEFINE q == [first EXCEPT !.op = op]
    <2>1. q.pc \in First
      BY <1>1 DEF Request
    <2>2. /\ req' = [req EXCEPT ![r] = q] /\ Quiet /\ At(r, "idle")
          /\ UNCHANGED <<mix, account, session>>
      BY <1>1 DEF Arrive
    <2> HIDE DEF q
    <2>3. ~Going(q) /\ ~Exchanging(q) /\ ~Replacing(req[r])
      BY <2>1, <2>2 DEF Going, Exchanging, Replacing, At
    <2>4. Exchanged(q) /\ Knows(q)
      BY <2>3 DEF Exchanged, Knows
    <2> QED
      BY <2>2, <2>3, <2>4, SerialRead
  <1>2. CASE LoginArrive(r)
    <2>1. PICK u \in User, p \in Password :
            Arrive(r, "login", [Blank EXCEPT !.pc = "account", !.u = u, !.given = p])
      BY <1>2 DEF LoginArrive
    <2> DEFINE first == [Blank EXCEPT !.pc = "account", !.u = u, !.given = p]
    <2>2. first \in Request /\ first.pc = "account"
      BY BlankType DEF Request, Label
    <2> QED
      BY <2>1, <2>2, <1>1 DEF first
  <1>3. CASE ForgotArrive(r)
    <2>1. PICK u \in User :
            Arrive(r, "forgot", [Blank EXCEPT !.pc = "account", !.u = u])
      BY <1>3 DEF ForgotArrive
    <2> DEFINE first == [Blank EXCEPT !.pc = "account", !.u = u]
    <2>2. first \in Request /\ first.pc = "account"
      BY BlankType DEF Request, Label
    <2> QED
      BY <2>1, <2>2, <1>1 DEF first
  <1>4. CASE ChangeArrive(r)
    <2>1. PICK u \in User, p \in Password, n \in Password :
            Arrive(r, "change", [Blank EXCEPT !.pc = "account"
                       , !.u = u, !.given = p, !.new = n])
      BY <1>4 DEF ChangeArrive
    <2> DEFINE first == [Blank EXCEPT !.pc = "account",
                                      !.u = u, !.given = p, !.new = n]
    <2>2. first \in Request /\ first.pc = "account"
      BY BlankType DEF Request, Label
    <2> QED
      BY <2>1, <2>2, <1>1 DEF first
  <1>5. CASE ResetArrive(r)
    <2>1. PICK x \in ResetId, n \in Password :
            Arrive(r, "reset", [Blank EXCEPT !.pc = "reset", !.x = x, !.new = n
                       , !.u = reset[x].user])
      BY <1>5 DEF ResetArrive
    <2> DEFINE first == [Blank EXCEPT !.pc = "reset", !.x = x, !.new = n,
                                      !.u = reset[x].user]
    <2>2. first \in Request /\ first.pc = "reset"
      BY <1>x, BlankType DEF Request, Label
    <2> QED
      BY <2>1, <2>2, <1>1 DEF first
  <1>6. CASE RefreshArrive(r)
    <2>1. PICK t \in SessionId :
            Arrive(r, "refresh", [Blank EXCEPT !.pc = "session", !.t = t
                       , !.u = session[t].user])
      BY <1>6 DEF RefreshArrive
    <2> DEFINE first == [Blank EXCEPT !.pc = "session", !.t = t,
                                      !.u = session[t].user]
    <2>2. first \in Request /\ first.pc = "session"
      BY <1>0, BlankType DEF Request, Label
    <2> QED
      BY <2>1, <2>2, <1>1 DEF first
  <1>7. CASE EndArrive(r)
    <2>1. PICK op \in {"logout", "revoke"}, u \in User, t \in SessionId :
            Arrive(r, op, [Blank EXCEPT !.pc = "session", !.u = u, !.t = t])
      BY <1>7 DEF EndArrive
    <2> DEFINE first == [Blank EXCEPT !.pc = "session", !.u = u, !.t = t]
    <2>2. first \in Request /\ first.pc = "session"
      BY <1>0, BlankType DEF Request, Label
    <2> QED
      BY <2>1, <2>2, <1>1 DEF first
  <1>8. CASE OthersArrive(r)
    <2>1. PICK t \in SessionId :
            Arrive(r, "others", [Blank EXCEPT !.pc = "others", !.t = t
                       , !.u = session[t].user])
      BY <1>8 DEF OthersArrive
    <2> DEFINE first == [Blank EXCEPT !.pc = "others", !.t = t,
                                      !.u = session[t].user]
    <2>2. first \in Request /\ first.pc = "others"
      BY <1>0, BlankType DEF Request, Label
    <2> QED
      BY <2>1, <2>2, <1>1 DEF first
  <1>9. CASE SelectArrive(r)
    <2>1. PICK t \in SessionId, w \in Workspace :
            Arrive(r, "select", [Blank EXCEPT !.pc = "session", !.t = t, !.ws = w
                       , !.u = session[t].user])
      BY <1>9 DEF SelectArrive
    <2> DEFINE first == [Blank EXCEPT !.pc = "session", !.t = t, !.ws = w,
                                      !.u = session[t].user]
    <2>2. first \in Request /\ first.pc = "session"
      BY <1>0, BlankType DEF Request, Label
    <2> QED
      BY <2>1, <2>2, <1>1 DEF first
  <1>10. CASE AdminArrive(r)
    <2>1. PICK op \in Administration, u \in User :
            Arrive(r, op, [Blank EXCEPT !.pc = "admin", !.u = u])
      BY <1>10 DEF AdminArrive
    <2> DEFINE first == [Blank EXCEPT !.pc = "admin", !.u = u]
    <2>2. first \in Request /\ first.pc = "admin"
      BY BlankType DEF Request, Label
    <2> QED
      BY <2>1, <2>2, <1>1 DEF first
  <1> QED
    BY <1>2, <1>3, <1>4, <1>5, <1>6, <1>7, <1>8, <1>9, <1>10 DEF Arrivals

\* A look-up that goes on with "next", or ends the request.
LEMMA ReadSerial ==
  ASSUME TypeOK, SerialInv, ~mix.overlap, NEW r \in Req, NEW label, NEW ok, NEW next,
         Read(r, label, ok, next), label \notin {"idle", "used", "all"},
         ok => Exchanged(next) /\ (~mix.crash => Knows(next))
  PROVE  SerialInv'
  <1>1. Exchanged(Blank) /\ Knows(Blank)
    BY BlankWaits DEF Exchanged, Knows
  <1>2. PICK q : /\ req' = [req EXCEPT ![r] = q]
                 /\ Exchanged(q) /\ (~mix.crash => Knows(q))
    BY <1>1 DEF Read
  <1>3. ~At(r, "idle") /\ ~Replacing(req[r]) /\ UNCHANGED <<mix, account, session>>
    BY DEF Read, At, Replacing
  <1> QED
    BY <1>2, <1>3, SerialRead

LEMMA LookupsSerial ==
  ASSUME SessionsInv, SerialInv, ~mix.overlap, NEW r \in Req, Lookups(r)
  PROVE  SerialInv'
  <1> DEFINE q == req[r]
  <1>0. TypeOK /\ q \in Request /\ Exchanged(q) /\ (~mix.crash => Knows(q))
    BY DEF SessionsInv, TypeOK, SerialInv
  <1>1. CASE FindAccount(r)
    <2> DEFINE label == CASE q.op = "login" -> "latest"
                          [] q.op = "forgot" -> "request"
                          [] OTHER -> "password"
               next == [q EXCEPT !.with = q.given, !.pc = label]
               ok == /\ Usable(q.u)
                     /\ q.op \in {"login", "change"} => account[q.u].password = q.given
    <2>1. Read(r, "account", ok, next)
      BY <1>1 DEF FindAccount
    <2>2. /\ next.pc = label /\ next.op = q.op /\ next.with = q.given /\ next.u = q.u
          /\ label \in {"latest", "request", "password"}
          /\ label = "latest" => q.op = "login"
      BY <1>0 DEF Request
    <2>3. ok => Exchanged(next) /\ Knows(next)
      BY <2>2 DEF Exchanged, Knows, Going, Exchanging
    <2> HIDE DEF ok, next
    <2> QED
      BY <1>0, <2>1, <2>3, ReadSerial
  <1>2. CASE FindSession(r)
    <2> DEFINE s == session[q.t]
               ok == Accepts(q) /\ (q.op = "revoke" => Live(q.t))
               next == CASE q.op = "refresh" ->
                              [q EXCEPT !.pc = "revoke", !.ws = s.ws, !.origin = s.origin,
                                        !.with = s.with]
                         [] q.op = "select" -> [q EXCEPT !.pc = "member"]
                         [] OTHER -> [q EXCEPT !.pc = "revoke"]
    <2>1. Read(r, "session", ok, next)
      BY <1>2 DEF FindSession
    <2>2. At(r, "session") /\ q.t \in SessionId /\ (q.op = "refresh" => s.user = q.u)
      BY <2>1 DEF Read, At, SessionsInv, EndsItsOwn
    <2>3. ASSUME ok PROVE Exchanged(next) /\ (~mix.crash => Knows(next))
      <3>1. CASE q.op = "refresh"
        <4>1. Live(q.t)
          BY <2>3, <3>1 DEF Accepts
        <4>2. /\ next.pc = "revoke" /\ next.t = q.t /\ next.u = q.u
              /\ next.origin = s.origin /\ next.with = s.with
          BY <1>0, <3>1 DEF Request
        <4>3. ~mix.crash => s.with = account[q.u].password
          BY <2>2, <3>1, <4>1, NobodyReplaces DEF At, Replacing
        <4> HIDE DEF next
        <4> QED
          BY <4>1, <4>2, <4>3 DEF Exchanged, Knows, Going, Exchanging
      <3>2. CASE q.op # "refresh"
        <4>1. /\ next.pc \in {"member", "revoke"} /\ next.op = q.op
              /\ next.pc = "member" => q.op = "select"
          BY <1>0, <3>2 DEF Request
        <4> HIDE DEF next
        <4> QED
          BY <3>2, <4>1 DEF Exchanged, Knows, Going, Exchanging
      <3> QED
        BY <3>1, <3>2
    <2> HIDE DEF ok, next, s
    <2> QED
      BY <1>0, <2>1, <2>3, ReadSerial
  <1>3. CASE FindReset(r)
    <2> DEFINE next == [q EXCEPT !.pc = "password"]
    <2>1. next.pc = "password"
      BY <1>0 DEF Request
    <2>2. Exchanged(next) /\ Knows(next)
      BY <2>1 DEF Exchanged, Knows, Going, Exchanging
    <2>3. PICK ok : Read(r, "reset", ok, next)
      BY <1>3 DEF FindReset
    <2> HIDE DEF next
    <2> QED
      BY <1>0, <2>2, <2>3, ReadSerial
  <1>4. CASE FindLatest(r)
    <2>1. PICK next : /\ Read(r, "latest", TRUE, next)
                      /\ \/ next = [q EXCEPT !.pc = "issue"]
                         \/ \E ws : next = [q EXCEPT !.pc = "member", !.ws = ws]
      BY <1>4 DEF FindLatest
    <2>2. Going(q)
      BY <2>1 DEF Read, At, Going
    <2>3. /\ next.pc \in {"issue", "member"} /\ next.op = q.op /\ next.u = q.u
          /\ next.origin = q.origin /\ next.with = q.with
      BY <1>0, <2>1 DEF Request
    <2>4. Exchanged(next) /\ (~mix.crash => Knows(next))
      BY <1>0, <2>2, <2>3 DEF Exchanged, Knows, Going, Exchanging
    <2> QED
      BY <1>0, <2>1, <2>4, ReadSerial
  <1>5. CASE FindMember(r)
    <2> DEFINE ws == IF q.ws \in member[q.u] THEN q.ws ELSE NoWorkspace
               next == IF q.op = "select" THEN [q EXCEPT !.pc = "select"]
                       ELSE [q EXCEPT !.pc = "issue", !.ws = ws]
    <2>1. At(r, "member") /\ \E ok : Read(r, "member", ok, next)
      BY <1>0, <1>5 DEF FindMember, Read, Request
    <2>2. Exchanged(next) /\ (~mix.crash => Knows(next))
      <3>1. CASE q.op = "select"
        <4>1. next.pc = "select"
          BY <1>0, <3>1 DEF Request
        <4> QED
          BY <4>1 DEF Exchanged, Knows, Going, Exchanging
      <3>2. CASE q.op # "select"
        <4>1. /\ next.pc = "issue" /\ next.op = q.op /\ next.u = q.u
              /\ next.origin = q.origin /\ next.with = q.with
          BY <1>0, <3>2 DEF Request
        <4> HIDE DEF next
        <4> QED
          BY <1>0, <2>1, <3>2, <4>1 DEF Exchanged, Knows, Going, Exchanging, At
      <3> QED
        BY <3>1, <3>2
    <2> HIDE DEF next
    <2> QED
      BY <1>0, <2>1, <2>2, ReadSerial
  <1>6. CASE FindUser(r)
    <2> DEFINE next == [q EXCEPT !.pc = "flag"]
    <2>1. next.pc = "flag"
      BY <1>0 DEF Request
    <2>2. Exchanged(next) /\ Knows(next)
      BY <2>1 DEF Exchanged, Knows, Going, Exchanging
    <2>3. PICK ok : Read(r, "admin", ok, next)
      BY <1>6 DEF FindUser
    <2> HIDE DEF next
    <2> QED
      BY <1>0, <2>2, <2>3, ReadSerial
  <1> QED
    BY <1>1, <1>2, <1>3, <1>4, <1>5, <1>6 DEF Lookups

LEMMA SessionWritesSerial ==
  ASSUME SessionsInv, SerialInv, ~mix.overlap, NEW r \in Req, SessionWrites(r)
  PROVE  SerialInv'
  <1> DEFINE q == req[r]
  <1>0. TypeOK /\ q \in Request /\ Exchanged(q) /\ (~mix.crash => Knows(q))
    BY DEF SessionsInv, TypeOK, SerialInv
  <1>b. Knows(Blank) /\ Exchanged(Blank)' /\ Knows(Blank)'
    BY BlankType, BlankWaits DEF Exchanged, Knows, Exchanging, Going
  <1>s. ASSUME NEW t \in SessionId PROVE session[t] \in Session
    BY <1>0 DEF TypeOK
  <1>1. CASE Revoke(r)
    <2>0. /\ q.pc = "revoke" /\ q.t \in SessionId /\ Known(q.t) /\ ~Replacing(q)
          /\ SetSession(Revoked({q.t})) /\ ~At(r, "idle")
      BY <1>1 DEF Revoke, At, Replacing, SessionsInv, EndsItsOwn
    <2>1. CASE q.op # "refresh"
      BY <1>0, <1>1, <1>b, <2>0, <2>1, SerialRevoke DEF Revoke, End
    <2>2. CASE q.op = "refresh"
      <3>1. PICK label \in {"latest", "member"} : req' = [req EXCEPT ![r].pc = label]
        BY <1>1, <2>2 DEF Revoke, Goto
      <3>n. PICK next, origin : next = [q EXCEPT !.pc = label] /\ origin = q.origin
        OBVIOUS
      <3>2. /\ next.pc = label /\ next.op = "refresh" /\ next.u = q.u
            /\ next.origin = origin /\ next.with = q.with
        BY <1>0, <2>2, <3>n DEF Request
      <3>3. req' = [req EXCEPT ![r] = next]
        BY <1>0, <3>1, <3>n DEF TypeOK
      <3>4. Exchanging(q) /\ Going(next)
        BY <2>0, <2>2, <3>2 DEF Exchanging, Going
      <3>5. ~mix.crash => Knows(next)
        BY <1>0, <3>2, <3>4 DEF Knows
      <3>6. ASSUME NEW t \in SessionId
            PROVE  /\ session'[t].origin = session[t].origin
                   /\ Known(t)' <=> Known(t)
                   /\ Live(t)' <=> Live(t) /\ t # q.t
        BY <1>s, <2>0 DEF SetSession, Revoked, Known, Live, Session
      <3>7. origin \in SessionId /\ Known(origin)
        BY <1>0, <2>0, <3>n, <3>4 DEF Exchanged, SerialInv, Origins
      <3>8. ASSUME NEW t \in SessionId, Live(t), t # q.t PROVE session[t].origin # origin
        <4>1. SingleOrigin /\ Live(q.t) /\ origin = session[q.t].origin
          BY <1>0, <3>n, <3>4 DEF Exchanged, SerialInv
        <4> QED
          BY <2>0, <3>8, <4>1 DEF SingleOrigin
      <3>9. Exchanged(next)'
        <4>1. ~Exchanging(next)
          BY <3>2 DEF Exchanging
        <4>2. \A t \in SessionId : Live(t)' => session'[t].origin # origin
          BY <3>6, <3>8
        <4> QED
          BY <3>2, <3>6, <3>7, <4>1, <4>2 DEF Exchanged
      <3> QED
        BY <1>0, <2>0, <3>3, <3>5, <3>9, SerialRevoke
    <2> QED
      BY <2>1, <2>2
  <1>2. CASE Issue(r)
    <2>1. PICK s \in SessionId :
            /\ ~Known(s)
            /\ SetSession([session EXCEPT ![s] =
                 [state |-> "live", expired |-> FALSE, user |-> req[r].u,
                  ws |-> req[r].ws, with |-> req[r].with,
                  origin |-> IF req[r].op = "login" THEN s ELSE req[r].origin]])
            /\ End(r) /\ At(r, "issue")
      BY <1>2 DEF Issue
    <2>n. PICK origin : origin = IF q.op = "login" THEN s ELSE q.origin
      OBVIOUS
    <2>2. /\ session'[s].state = "live" /\ session'[s].user = q.u
          /\ session'[s].with = q.with /\ session'[s].origin = origin
          /\ \A t \in SessionId : t # s => session'[t] = session[t]
          /\ UNCHANGED <<mix, account>>
      BY <1>0, <2>1, <2>n DEF SetSession, TypeOK
    <2>3. Going(q) /\ ~Replacing(q)
      BY <2>1 DEF At, Going, Replacing
    <2>4. /\ Known(s)' /\ Live(s)' /\ ~Live(s)
          /\ \A t \in SessionId : t # s => /\ Known(t)' <=> Known(t)
                                           /\ Live(t)' <=> Live(t)
      BY <2>1, <2>2 DEF Known, Live
    <2>5. ASSUME NEW t \in SessionId, Live(t) PROVE session[t].origin # origin
      <3>1. CASE q.op = "login"
        BY <2>1, <2>n, <2>5, <3>1 DEF SerialInv, Origins, Known, Live
      <3>2. CASE q.op # "login"
        BY <1>0, <2>n, <2>3, <2>5, <3>2 DEF Exchanged
      <3> QED
        BY <3>1, <3>2
    <2>6. origin \in SessionId /\ (origin = s \/ Known(origin))
      <3>1. q.op # "login" => q.origin \in SessionId /\ Known(q.origin)
        BY <1>0, <2>3 DEF Exchanged
      <3> QED
        BY <2>n, <3>1
    <2>7. Origins'
      <3>1. Known(origin)'
        BY <2>4, <2>6
      <3>2. ASSUME NEW t \in SessionId, t # s, Known(t)'
            PROVE  /\ session[t].origin \in SessionId
                   /\ session'[session[t].origin].state # "none"
        BY <2>2, <2>4, <3>2 DEF SerialInv, Origins, Known
      <3> QED
        BY <2>2, <2>6, <3>1, <3>2 DEF Origins, Known
    <2>8. SingleOrigin'
      BY <2>2, <2>4, <2>5 DEF SerialInv, SingleOrigin
    <2>9. ~mix.crash => Agree'
      <3>1. ASSUME ~mix.crash PROVE ~At(r, "idle") /\ q.with = account[q.u].password
        BY <1>0, <2>1, <2>3, <3>1 DEF Knows, At
      <3> QED
        BY <2>2, <2>3, <2>4, <3>1, NobodyReplaces DEF Agree
    <2>10. req' = [req EXCEPT ![r] = Blank] /\ ~At(r, "idle")
      BY <2>1 DEF End, At
    <2> QED
      BY <1>0, <1>b, <2>2, <2>7, <2>8, <2>9, <2>10, SerialStep
  <1>3. CASE RevokeOthers(r)
    <2>1. ~At(r, "idle") /\ ~Replacing(q)
      BY <1>3 DEF RevokeOthers, At, Replacing
    <2>2. \E S : SetSession(Revoked(S)) /\ req' = [req EXCEPT ![r] = Blank]
      BY <1>3 DEF RevokeOthers, End
    <2> QED
      BY <1>0, <1>b, <2>1, <2>2, SerialRevoke
  <1>4. CASE RevokeAll(r)
    <2> DEFINE S == {s \in SessionId : session[s].user = req[r].u}
    <2>1. ~At(r, "idle") /\ SetSession(Revoked(S)) /\ req' = [req EXCEPT ![r] = Blank]
      BY <1>4 DEF RevokeAll, At, End
    <2>2. \A s \in SessionId : session[s].user = req[r].u => s \in S
      OBVIOUS
    <2> HIDE DEF S
    <2> QED
      BY <1>0, <1>b, <2>1, <2>2, SerialRevoke
  <1>5. CASE Select(r)
    <2>1. /\ session' = [session EXCEPT ![q.t] = [@ EXCEPT !.ws = q.ws]]
          /\ UNCHANGED <<mix, account>>
          /\ req' = [req EXCEPT ![r] = Blank] /\ ~At(r, "idle") /\ ~Replacing(q)
      BY <1>5 DEF Select, SetSession, End, At, Replacing
    <2>2. ASSUME NEW t \in SessionId
          PROVE  /\ session'[t].user = session[t].user
                 /\ session'[t].state = session[t].state
                 /\ session'[t].origin = session[t].origin
                 /\ session'[t].with = session[t].with
      BY <1>0, <1>s, <2>1 DEF TypeOK, Session
    <2>3. Origins' /\ SingleOrigin'
      BY <2>2 DEF SerialInv, Origins, SingleOrigin, Known, Live
    <2>4. ~mix.crash => Agree'
      BY <2>1, <2>2, NobodyReplaces DEF Agree, Live
    <2> QED
      BY <1>0, <1>b, <2>1, <2>3, <2>4, SerialStep
  <1> QED
    BY <1>1, <1>2, <1>3, <1>4, <1>5 DEF SessionWrites

\* Steps that leave the sessions alone and do not touch a password.
LEMMA SerialOther ==
  ASSUME TypeOK, SerialInv, ~mix.overlap, NEW r \in Req, NEW q,
         req' = [req EXCEPT ![r] = q], ~At(r, "idle"),
         UNCHANGED <<mix, session>>, ~Going(q), ~Exchanging(q),
         \A u \in User : account'[u].password = account[u].password,
         Replacing(req[r]) => Replacing(q) /\ q.u = req[r].u
  PROVE  SerialInv'
  <1>1. Origins' /\ SingleOrigin'
    BY DEF SerialInv, Origins, SingleOrigin, Known, Live
  <1>2. Exchanged(q)' /\ Knows(q)'
    BY DEF Exchanged, Knows, Exchanging, Going
  <1>3. ASSUME ~mix.crash PROVE Agree'
    <2>1. \A o \in Req : Replacing(req[o]) => o = r
      BY DEF SerialInv, OneByOne, At, Replacing
    <2>2. req'[r] = q
      BY DEF TypeOK
    <2>3. ASSUME NEW s \in SessionId PROVE session[s].user \in User
      BY DEF TypeOK, Session
    <2> QED
      BY <1>3, <2>1, <2>2, <2>3 DEF SerialInv, Agree, Live
  <1> QED
    BY <1>1, <1>2, <1>3, SerialStep

LEMMA OtherWritesSerial ==
  ASSUME SessionsInv, SerialInv, ~mix.overlap, NEW r \in Req, OtherWrites(r)
  PROVE  SerialInv'
  <1> DEFINE q == req[r]
  <1>0. TypeOK /\ q \in Request
    BY DEF SessionsInv, TypeOK
  <1>1. CASE RequestReset(r)
    <2>1. /\ req' = [req EXCEPT ![r] = Blank] /\ ~At(r, "idle") /\ ~Replacing(q)
          /\ UNCHANGED <<mix, session, account>>
      BY <1>1 DEF RequestReset, SetReset, End, At, Replacing
    <2> QED
      BY <1>0, <2>1, BlankWaits, SerialOther
  <1>2. CASE SetPassword(r)
    <2>1. PICK label \in {"used", "all"} : req' = [req EXCEPT ![r].pc = label]
      BY <1>2 DEF SetPassword, Goto
    <2>n. PICK next, u : next = [q EXCEPT !.pc = label] /\ u = q.u
      OBVIOUS
    <2>2. next.pc = label /\ next.u = u /\ req' = [req EXCEPT ![r] = next] /\ req'[r] = next
      BY <1>0, <2>1, <2>n DEF Request, TypeOK
    <2>3. /\ UNCHANGED <<mix, session>> /\ ~At(r, "idle") /\ ~Replacing(q)
          /\ \A o \in User : o # u => account'[o] = account[o]
      BY <1>0, <1>2, <2>n DEF SetPassword, SetAccount, At, Replacing, TypeOK
    <2>4. Origins' /\ SingleOrigin'
      BY <2>3 DEF SerialInv, Origins, SingleOrigin, Known, Live
    <2>5. Replacing(next) /\ Exchanged(next)' /\ Knows(next)'
      <3>1. Replacing(next) /\ ~Going(next) /\ ~Exchanging(next)
        BY <2>2 DEF Exchanging, Going, Replacing
      <3> QED
        BY <3>1 DEF Exchanged, Knows
    <2>6. ~mix.crash => Agree'
      <3>1. ASSUME NEW s \in SessionId PROVE session[s].user \in User
        BY <1>0 DEF TypeOK, Session
      <3>2. ASSUME ~mix.crash, NEW s \in SessionId, Live(s), session[s].user # u
            PROVE  session[s].with = account'[session[s].user].password
        BY <2>3, <3>1, <3>2, NobodyReplaces
      <3> QED
        BY <2>2, <2>3, <2>5, <3>2 DEF Agree, Live
    <2> QED
      BY <1>0, <2>2, <2>3, <2>4, <2>5, <2>6, SerialStep
  <1>3. CASE MarkUsed(r)
    <2> DEFINE next == [q EXCEPT !.pc = "all"]
    <2>1. /\ next.pc = "all" /\ next.u = q.u /\ req' = [req EXCEPT ![r] = next]
          /\ UNCHANGED <<mix, session, account>> /\ ~At(r, "idle")
      BY <1>0, <1>3 DEF MarkUsed, SetReset, Goto, At, Request, TypeOK
    <2> HIDE DEF next
    <2>2. ~Going(next) /\ ~Exchanging(next) /\ Replacing(next)
      BY <2>1 DEF Going, Exchanging, Replacing
    <2> QED
      BY <1>0, <2>1, <2>2, SerialOther
  <1>4. CASE SetFlags(r)
    <2>1. /\ req' = [req EXCEPT ![r] = Blank] /\ ~At(r, "idle") /\ ~Replacing(q)
          /\ UNCHANGED <<mix, session>>
      BY <1>4 DEF SetFlags, SetAccount, End, At, Replacing
    <2>2. \E active, deleted : account' =
            [account EXCEPT ![q.u] = [account[q.u] EXCEPT !.active = active,
                                                          !.deleted = deleted]]
      BY <1>4 DEF SetFlags, SetAccount
    <2>3. ASSUME NEW u \in User PROVE account'[u].password = account[u].password
      BY <1>0, <2>2 DEF TypeOK, Account
    <2> QED
      BY <1>0, <2>1, <2>3, BlankWaits, SerialOther
  <1> QED
    BY <1>1, <1>2, <1>3, <1>4 DEF OtherWrites

\* What no request does: time passes, or the account enters or leaves a workspace.
LEMMA EnvironmentSerial ==
  ASSUME SessionsInv, SerialInv, ~mix.overlap, Environment \/ UNCHANGED vars
  PROVE  SerialInv'
  <1>1. UNCHANGED <<mix, account, req>>
    BY DEF Environment, ExpireSession, ExpireReset, ChangeMembership, SetSession,
           SetReset, vars
  <1>2. ASSUME NEW t \in SessionId
        PROVE  /\ session'[t].user = session[t].user
               /\ session'[t].state = session[t].state
               /\ session'[t].origin = session[t].origin
               /\ session'[t].with = session[t].with
    <2>1. CASE session' = session
      BY <2>1
    <2>2. ASSUME NEW s \in SessionId, ExpireSession(s)
          PROVE  \E e : session' = [session EXCEPT ![s] = [session[s] EXCEPT !.expired = e]]
      BY <2>2 DEF ExpireSession, SetSession
    <2>3. ASSUME NEW s \in SessionId, NEW e,
                 session' = [session EXCEPT ![s] = [session[s] EXCEPT !.expired = e]]
          PROVE  /\ session'[t].user = session[t].user
                 /\ session'[t].state = session[t].state
                 /\ session'[t].origin = session[t].origin
                 /\ session'[t].with = session[t].with
      BY <2>3 DEF SessionsInv, TypeOK, Session
    <2>4. session' = session \/ \E s \in SessionId : ExpireSession(s)
      BY DEF Environment, ExpireReset, ChangeMembership, SetReset, vars
    <2> QED
      BY <2>1, <2>2, <2>3, <2>4
  <1>3. OneByOne' /\ Origins' /\ SingleOrigin'
    <2>1. OneByOne'
      BY <1>1 DEF SerialInv, OneByOne, At
    <2>2. Origins'
      BY <1>2 DEF SerialInv, Origins, Known
    <2>3. SingleOrigin'
      BY <1>2 DEF SerialInv, SingleOrigin, Live
    <2> QED
      BY <2>1, <2>2, <2>3
  <1>4. \A r \in Req : Exchanged(req[r])'
    <2>1. ASSUME NEW r \in Req, Exchanging(req[r]) PROVE req[r].t \in SessionId
      BY <2>1 DEF SessionsInv, EndsItsOwn, Exchanging
    <2> QED
      BY <1>1, <1>2, <2>1 DEF SerialInv, Exchanged, Exchanging, Going, Known, Live
  <1>5. ~mix.crash => Agree' /\ \A r \in Req : Knows(req[r])'
    BY <1>1, <1>2 DEF SerialInv, Agree, Knows, Exchanging, Going, Live, Replacing
  <1> QED
    BY <1>1, <1>3, <1>4, <1>5 DEF SerialInv

LEMMA NextSerial == SessionsInv /\ SerialInv /\ [Next]_vars => SerialInv'
  <1> SUFFICES ASSUME SessionsInv, SerialInv, [Next]_vars PROVE SerialInv'
    OBVIOUS
  <1>0. TypeOK
    BY DEF SessionsInv
  <1>1. mix' = mix
    BY DEF Next, Environment, ExpireSession, ExpireReset, ChangeMembership, Arrivals,
           LoginArrive, ForgotArrive, ChangeArrive, ResetArrive, RefreshArrive,
           EndArrive, OthersArrive, SelectArrive, AdminArrive, Arrive, Lookups,
           FindAccount, FindSession, FindReset, FindLatest, FindMember, FindUser, Read,
           SessionWrites, Revoke, Issue, RevokeOthers, RevokeAll, Select, OtherWrites,
           RequestReset, SetPassword, MarkUsed, SetFlags, SetSession, SetAccount,
           SetReset, Fail, vars
  <1>2. CASE mix.overlap
    BY <1>1, <1>2 DEF SerialInv
  <1>3. ASSUME ~mix.overlap, NEW r \in Req, Fail(r) PROVE SerialInv'
    <2>1. /\ mix.crash /\ req' = [req EXCEPT ![r] = Blank] /\ ~At(r, "idle")
          /\ UNCHANGED <<mix, account, session>>
      BY <1>3 DEF Fail, End
    <2>2. Origins' /\ SingleOrigin'
      BY <1>3, <2>1 DEF SerialInv, Origins, SingleOrigin, Known, Live
    <2>3. Exchanged(Blank)'
      BY BlankType, BlankWaits DEF Exchanged, Exchanging, Going
    <2> QED
      BY <1>0, <1>3, <2>1, <2>2, <2>3, SerialStep
  <1>4. ASSUME ~mix.overlap PROVE SerialInv'
    BY <1>0, <1>3, <1>4, ArrivalsSerial, LookupsSerial, SessionWritesSerial,
       OtherWritesSerial, EnvironmentSerial DEF Next
  <1> QED
    BY <1>2, <1>4

-----------------------------------------------------------------------------

\* Refresh tokens that were exchanged, by requests that do not overlap and may be
\* cut off, are dead: of a sign-in one session is alive at most.
THEOREM ExchangedTokensAreDead == Spec => []OneLivePerSignIn
  <1>1. SerialInv => OneLivePerSignIn
    BY DEF SerialInv, SingleOrigin, OneLivePerSignIn
  <1> QED
    BY InitInv, InitSerial, NextInv, NextSerial, <1>1, PTL DEF Spec

\* Both: stored rows have their types, and exchanged tokens are dead.
THEOREM SessionsCorrect == Spec => []Inv
  <1>1. TypeOK /\ OneLivePerSignIn => Inv
    BY DEF Inv
  <1> QED
    BY TypeCorrect, ExchangedTokensAreDead, <1>1, PTL

\* Between complete requests that do not overlap, every live session goes back to
\* a sign-in with the present password of its account.
THEOREM PasswordsEndSessions == Spec => []SessionsKnowThePassword
  <1>1. SerialInv => SessionsKnowThePassword
    BY DEF SerialInv, Agree, SessionsKnowThePassword, Quiet, At, Replacing
  <1> QED
    BY InitInv, InitSerial, NextInv, NextSerial, <1>1, PTL DEF Spec

-----------------------------------------------------------------------------
(* The contract: what a request knows of what it goes on with               *)

Smooth == ~mix.overlap /\ ~mix.crash

\* A session has the account of its sign-in, which bears its own name.
Kin ==
    \A s \in SessionId : Known(s) =>
        /\ session[s].origin \in SessionId /\ Known(session[s].origin)
        /\ session[session[s].origin].origin = session[s].origin
        /\ session[session[s].origin].user = session[s].user

\* Where the requests of an operation come past.
Stage(q) ==
    /\ q.pc = "account" => q.op \in {"login", "forgot", "change"}
    /\ q.pc = "session" => q.op \in {"logout", "revoke", "refresh", "select"}
    /\ q.pc = "reset" => q.op = "reset"
    /\ q.pc \in {"latest", "issue"} => q.op \in {"login", "refresh"}
    /\ q.pc = "member" => q.op \in {"login", "refresh", "select"}
    /\ q.pc = "revoke" => q.op \in {"logout", "revoke", "refresh"}
    /\ q.pc = "others" => q.op = "others"
    /\ q.pc = "all" => q.op \in {"change", "reset"}
    /\ q.pc = "request" => q.op = "forgot"
    /\ q.pc = "password" => q.op \in {"change", "reset"}
    /\ q.pc = "used" => q.op = "reset"
    /\ q.pc = "select" => q.op = "select"
    /\ q.pc \in {"admin", "flag"} => q.op \in Administration

\* However requests overlap: what is named exists, and an exchange is that of the
\* sign-in of its account.
Fits(q) ==
    /\ Stage(q)
    /\ q.pc # "idle" /\ q.t # 0 => q.t \in SessionId /\ Known(q.t)
    /\ q.pc # "idle" /\ q.op = "reset" =>
         q.x \in ResetId /\ reset[q.x].state # "none" /\ reset[q.x].user = q.u
    /\ Exchange(q) =>
         /\ q.origin \in SessionId /\ Known(q.origin)
         /\ session[q.origin].origin = q.origin
         /\ session[q.origin].user = q.u

\* Of requests that do not overlap, what was asked for may still be done.
Ready(q) ==
    /\ q.op = "login" /\ q.pc \in {"latest", "member", "issue"} =>
         Usable(q.u) /\ q.given = account[q.u].password
    /\ q.pc = "request" => Usable(q.u)
    /\ q.pc = "password" =>
         /\ Usable(q.u)
         /\ q.op = "change" => q.given = account[q.u].password
         /\ q.op = "reset" => reset[q.x].state \in {"open", "expired"}
    /\ q.pc = "flag" => ~account[q.u].deleted

SignInInv ==
    /\ SessionsInv /\ SerialInv /\ Kin
    /\ \A r \in Req : Fits(req[r])
    /\ Smooth => \A r \in Req : Ready(req[r])

Same(n, q) ==
    /\ n.op = q.op /\ n.u = q.u /\ n.t = q.t /\ n.x = q.x
    /\ n.given = q.given /\ n.new = q.new

\* What a handler's look-ups have asked when it goes on.
Found(q, n) ==
    \/ /\ q.pc = "account"
       /\ Usable(q.u)
       /\ q.op \in {"login", "change"} => account[q.u].password = q.given
       /\ n.pc = CASE q.op = "login" -> "latest"
                   [] q.op = "forgot" -> "request"
                   [] OTHER -> "password"
    \/ /\ q.pc = "session"
       /\ Known(q.t)
       /\ q.op \in {"refresh", "select"} => Live(q.t)
       /\ q.op = "refresh" => ~session[q.t].expired /\ n.origin = session[q.t].origin
       /\ n.pc = IF q.op = "select" THEN "member" ELSE "revoke"
    \/ /\ q.pc = "reset"
       /\ reset[q.x].state = "open" /\ Usable(reset[q.x].user)
       /\ n.pc = "password"
    \/ /\ q.pc = "latest" /\ n.pc \in {"issue", "member"} /\ n.origin = q.origin
    \/ /\ q.pc = "member" /\ n.origin = q.origin
       /\ n.pc = IF q.op = "select" THEN "select" ELSE "issue"
    \/ /\ q.pc = "admin" /\ ~account[q.u].deleted /\ n.pc = "flag"

LEMMA LookShape ==
  ASSUME TypeOK, NEW r \in Req, Lookups(r), NEW q, q = req[r], NEW n, n = req'[r]
  PROVE  /\ UNCHANGED <<mix, account, session, reset, member>>
         /\ q.pc \in {"account", "session", "reset", "latest", "member", "admin"}
         /\ \/ Same(n, q) /\ Found(q, n)
            \/ n = Blank /\ q.pc # "latest" /\ (q.pc = "member" => q.op = "select")
  <1>0. q \in Request /\ req \in [Req -> Request]
    BY DEF TypeOK
  <1>1. CASE FindAccount(r)
    BY <1>0, <1>1 DEF FindAccount, Read, At, Request, Same, Found
  <1>2. CASE FindSession(r)
    <2>1. /\ q.pc = "session" /\ UNCHANGED <<mix, account, session, reset, member>>
          /\ n = Blank \/ (Accepts(q) /\ n = CASE q.op = "refresh" ->
                    [q EXCEPT !.pc = "revoke", !.ws = session[q.t].ws,
                              !.origin = session[q.t].origin, !.with = session[q.t].with]
               [] q.op = "select" -> [q EXCEPT !.pc = "member"]
               [] OTHER -> [q EXCEPT !.pc = "revoke"])
      BY <1>0, <1>2 DEF FindSession, Read, At
    <2> QED
      BY <1>0, <2>1 DEF Request, Same, Found, Accepts
  <1>3. CASE FindReset(r)
    BY <1>0, <1>3 DEF FindReset, Read, At, Request, Same, Found
  <1>4. CASE FindLatest(r)
    <2>1. /\ q.pc = "latest" /\ UNCHANGED <<mix, account, session, reset, member>>
          /\ \/ n = [q EXCEPT !.pc = "issue"]
             \/ \E ws : n = [q EXCEPT !.pc = "member", !.ws = ws]
      BY <1>0, <1>4 DEF FindLatest, Read, At
    <2> QED
      BY <1>0, <2>1 DEF Request, Same, Found
  <1>5. CASE FindMember(r)
    BY <1>0, <1>5 DEF FindMember, Read, At, Request, Same, Found
  <1>6. CASE FindUser(r)
    BY <1>0, <1>6 DEF FindUser, Read, At, Request, Same, Found
  <1> QED
    BY <1>1, <1>2, <1>3, <1>4, <1>5, <1>6 DEF Lookups

\* What arrives names a session or a link that exists, if any.
LEMMA ArriveShape ==
  ASSUME TypeOK, NEW r \in Req, Arrivals(r), NEW q, q = req[r], NEW n, n = req'[r]
  PROVE  /\ UNCHANGED <<mix, account, session, reset, member>>
         /\ q.pc = "idle" /\ (mix.overlap \/ Quiet)
         /\ n.pc \in {"account", "session", "reset", "others", "admin"}
         /\ Stage(n)
         /\ n.t = 0 \/ (n.t \in SessionId /\ Known(n.t))
         /\ n.op = "reset" =>
              n.x \in ResetId /\ reset[n.x].state # "none" /\ reset[n.x].user = n.u
  <1> DEFINE Goal == /\ UNCHANGED <<mix, account, session, reset, member>>
                     /\ q.pc = "idle" /\ (mix.overlap \/ Quiet)
                     /\ n.pc \in {"account", "session", "reset", "others", "admin"}
                     /\ Stage(n)
                     /\ n.t = 0 \/ (n.t \in SessionId /\ Known(n.t))
                     /\ n.op = "reset" => /\ n.x \in ResetId
                                          /\ reset[n.x].state # "none"
                                          /\ reset[n.x].user = n.u
  <1> SUFFICES Goal
    OBVIOUS
  <1>0. /\ req \in [Req -> Request] /\ Blank \in Request /\ Blank.t = 0
        /\ \A t \in SessionId : session[t].user \in User /\ t \in 0..MaxSession
        /\ \A x \in ResetId : reset[x].user \in User /\ x \in 0..MaxReset
    BY BlankType DEF TypeOK, Session, SessionId, Reset, ResetId, Blank
  <1>1. ASSUME NEW op, NEW first \in Request, Arrive(r, op, first),
               first.pc \in {"account", "session", "reset", "others", "admin"},
               first.pc = "account" => op \in {"login", "forgot", "change"},
               first.pc = "session" => op \in {"logout", "revoke", "refresh", "select"},
               first.pc = "reset" => op = "reset",
               first.pc = "others" => op = "others",
               first.pc = "admin" => op \in Administration,
               first.t = 0 \/ (first.t \in SessionId /\ Known(first.t)),
               op = "reset" => /\ first.x \in ResetId /\ reset[first.x].state # "none"
                               /\ reset[first.x].user = first.u
        PROVE  Goal
    <2>1. /\ UNCHANGED <<mix, account, session, reset, member>>
          /\ q.pc = "idle" /\ (mix.overlap \/ Quiet)
          /\ n = [first EXCEPT !.op = op]
      BY <1>0, <1>1 DEF Arrive, At
    <2>2. /\ n.op = op /\ n.pc = first.pc /\ n.t = first.t /\ n.x = first.x
          /\ n.u = first.u
      BY <1>1, <2>1 DEF Request
    <2> QED
      BY <1>1, <2>1, <2>2 DEF Stage
  <1> HIDE DEF Goal
  <1>2. CASE LoginArrive(r)
    <2>1. PICK u \in User, p \in Password :
            Arrive(r, "login", [Blank EXCEPT !.pc = "account", !.u = u, !.given = p])
      BY <1>2 DEF LoginArrive
    <2>2. PICK f : f = [Blank EXCEPT !.pc = "account", !.u = u, !.given = p]
      OBVIOUS
    <2>3. f \in Request /\ f.pc = "account" /\ f.t = 0
      BY <1>0, <2>2 DEF Request, Label
    <2> QED
      BY <1>1, <2>1, <2>2, <2>3
  <1>3. CASE ForgotArrive(r)
    <2>1. PICK u \in User :
            Arrive(r, "forgot", [Blank EXCEPT !.pc = "account", !.u = u])
      BY <1>3 DEF ForgotArrive
    <2>2. PICK f : f = [Blank EXCEPT !.pc = "account", !.u = u]
      OBVIOUS
    <2>3. f \in Request /\ f.pc = "account" /\ f.t = 0
      BY <1>0, <2>2 DEF Request, Label
    <2> QED
      BY <1>1, <2>1, <2>2, <2>3
  <1>4. CASE ChangeArrive(r)
    <2>1. PICK u \in User, p, m \in Password :
            Arrive(r, "change", [Blank EXCEPT !.pc = "account", !.u = u,
                                              !.given = p, !.new = m])
      BY <1>4 DEF ChangeArrive
    <2>2. PICK f : f = [Blank EXCEPT !.pc = "account", !.u = u, !.given = p, !.new = m]
      OBVIOUS
    <2>3. f \in Request /\ f.pc = "account" /\ f.t = 0
      BY <1>0, <2>2 DEF Request, Label
    <2> QED
      BY <1>1, <2>1, <2>2, <2>3
  <1>5. CASE ResetArrive(r)
    <2>1. PICK x \in ResetId, m \in Password :
            /\ reset[x].state # "none"
            /\ Arrive(r, "reset", [Blank EXCEPT !.pc = "reset", !.x = x, !.new = m,
                                                !.u = reset[x].user])
      BY <1>5 DEF ResetArrive
    <2>2. PICK f : f = [Blank EXCEPT !.pc = "reset", !.x = x, !.new = m,
                                     !.u = reset[x].user]
      OBVIOUS
    <2>3. /\ f \in Request /\ f.pc = "reset" /\ f.t = 0 /\ f.x = x
          /\ f.u = reset[x].user
      BY <1>0, <2>2 DEF Request, Label
    <2> QED
      BY <1>1, <2>1, <2>2, <2>3
  <1>6. CASE RefreshArrive(r)
    <2>1. PICK t \in SessionId :
            /\ Known(t)
            /\ Arrive(r, "refresh", [Blank EXCEPT !.pc = "session", !.t = t,
                                                  !.u = session[t].user])
      BY <1>6 DEF RefreshArrive
    <2>2. PICK f : f = [Blank EXCEPT !.pc = "session", !.t = t, !.u = session[t].user]
      OBVIOUS
    <2>3. f \in Request /\ f.pc = "session" /\ f.t = t
      BY <1>0, <2>2 DEF Request, Label
    <2> QED
      BY <1>1, <2>1, <2>2, <2>3
  <1>7. CASE EndArrive(r)
    <2>1. PICK op \in {"logout", "revoke"}, u \in User, t \in SessionId :
            /\ Known(t)
            /\ Arrive(r, op, [Blank EXCEPT !.pc = "session", !.u = u, !.t = t])
      BY <1>7 DEF EndArrive
    <2>2. PICK f : f = [Blank EXCEPT !.pc = "session", !.u = u, !.t = t]
      OBVIOUS
    <2>3. f \in Request /\ f.pc = "session" /\ f.t = t
      BY <1>0, <2>2 DEF Request, Label
    <2> QED
      BY <1>1, <2>1, <2>2, <2>3
  <1>8. CASE OthersArrive(r)
    <2>1. PICK t \in SessionId :
            /\ Known(t)
            /\ Arrive(r, "others", [Blank EXCEPT !.pc = "others", !.t = t,
                                                 !.u = session[t].user])
      BY <1>8 DEF OthersArrive
    <2>2. PICK f : f = [Blank EXCEPT !.pc = "others", !.t = t, !.u = session[t].user]
      OBVIOUS
    <2>3. f \in Request /\ f.pc = "others" /\ f.t = t
      BY <1>0, <2>2 DEF Request, Label
    <2> QED
      BY <1>1, <2>1, <2>2, <2>3
  <1>9. CASE SelectArrive(r)
    <2>1. PICK t \in SessionId, w \in Workspace :
            /\ Known(t)
            /\ Arrive(r, "select", [Blank EXCEPT !.pc = "session", !.t = t, !.ws = w,
                                                 !.u = session[t].user])
      BY <1>9 DEF SelectArrive
    <2>2. PICK f : f = [Blank EXCEPT !.pc = "session", !.t = t, !.ws = w,
                                     !.u = session[t].user]
      OBVIOUS
    <2>3. f \in Request /\ f.pc = "session" /\ f.t = t
      BY <1>0, <2>2 DEF Request, Label
    <2> QED
      BY <1>1, <2>1, <2>2, <2>3
  <1>a. CASE AdminArrive(r)
    <2>1. PICK op \in Administration, u \in User :
            Arrive(r, op, [Blank EXCEPT !.pc = "admin", !.u = u])
      BY <1>a DEF AdminArrive
    <2>2. PICK f : f = [Blank EXCEPT !.pc = "admin", !.u = u]
      OBVIOUS
    <2>3. f \in Request /\ f.pc = "admin" /\ f.t = 0
      BY <1>0, <2>2 DEF Request, Label
    <2>4. op # "reset"
      BY DEF Administration
    <2> QED
      BY <1>1, <2>1, <2>2, <2>3, <2>4
  <1> QED
    BY <1>2, <1>3, <1>4, <1>5, <1>6, <1>7, <1>8, <1>9, <1>a DEF Arrivals

LEMMA Turn ==
  ASSUME TypeOK, NEW r \in Req,
         Arrivals(r) \/ Lookups(r) \/ SessionWrites(r) \/ OtherWrites(r) \/ Fail(r)
  PROVE  \A o \in Req : o # r => req'[o] = req[o]
  <1>1. \E n : req' = [req EXCEPT ![r] = n]
    <2>1. CASE Arrivals(r)
      BY <2>1 DEF Arrivals, LoginArrive, ForgotArrive, ChangeArrive, ResetArrive,
                  RefreshArrive, EndArrive, OthersArrive, SelectArrive, AdminArrive, Arrive
    <2>2. CASE Lookups(r)
      BY <2>2 DEF Lookups, FindAccount, FindSession, FindReset, FindLatest, FindMember,
                  FindUser, Read
    <2>3. CASE SessionWrites(r)
      <3>1. CASE Revoke(r)
        BY <3>1 DEF Revoke, End, Goto
      <3>2. CASE ~Revoke(r)
        BY <2>3, <3>2 DEF SessionWrites, Issue, RevokeOthers, RevokeAll, Select, End
      <3> QED
        BY <3>1, <3>2
    <2>4. CASE OtherWrites(r)
      <3>1. CASE SetPassword(r) \/ MarkUsed(r)
        BY <3>1 DEF SetPassword, MarkUsed, Goto
      <3>2. CASE RequestReset(r) \/ SetFlags(r)
        BY <3>2 DEF RequestReset, SetFlags, End
      <3> QED
        BY <2>4, <3>1, <3>2 DEF OtherWrites
    <2>5. CASE Fail(r)
      BY <2>5 DEF Fail, End
    <2> QED
      BY <2>1, <2>2, <2>3, <2>4, <2>5
  <1> QED
    BY <1>1 DEF TypeOK

\* The sessions in S are revoked, and nothing else is changed of any.
LEMMA RevokedOnly ==
  ASSUME TypeOK, NEW S, SetSession(Revoked(S))
  PROVE  /\ UNCHANGED <<mix, account, reset, member>>
         /\ \A s \in SessionId : /\ session'[s].user = session[s].user
                                 /\ session'[s].origin = session[s].origin
                                 /\ session'[s].expired = session[s].expired
                                 /\ Known(s)' <=> Known(s)
                                 /\ Live(s)' <=> Live(s) /\ s \notin S
  <1>1. ASSUME NEW s \in SessionId
        PROVE  /\ session'[s].user = session[s].user
               /\ session'[s].origin = session[s].origin
               /\ session'[s].expired = session[s].expired
               /\ Known(s)' <=> Known(s)
               /\ Live(s)' <=> Live(s) /\ s \notin S
    <2>1. session[s] \in Session
      BY DEF TypeOK
    <2>2. session'[s] = IF s \in S /\ Live(s) THEN [session[s] EXCEPT !.state = "revoked"]
                        ELSE session[s]
      BY DEF SetSession, Revoked
    <2> QED
      BY <2>1, <2>2 DEF Session, Known, Live
  <1> QED
    BY <1>1 DEF SetSession

LEMMA ExchangeShape ==
  ASSUME TypeOK, NEW r \in Req, Revoke(r), NEW q, q = req[r], NEW n, n = req'[r]
  PROVE  /\ q.pc = "revoke" /\ SetSession(Revoked({q.t}))
         /\ q.op # "refresh" => n = Blank
         /\ q.op = "refresh" => /\ Same(n, q) /\ n.origin = q.origin
                                /\ n.pc \in {"latest", "member"}
  BY DEF TypeOK, Revoke, At, Goto, End, Request, Same

LEMMA IssueShape ==
  ASSUME TypeOK, NEW r \in Req, Issue(r), NEW q, q = req[r], NEW n, n = req'[r]
  PROVE  /\ UNCHANGED <<mix, account, reset, member>>
         /\ q.pc = "issue" /\ n = Blank
         /\ \E s \in SessionId :
              /\ ~Known(s)
              /\ \A t \in SessionId : t # s => session'[t] = session[t]
              /\ Live(s)' /\ ~session'[s].expired /\ session'[s].user = q.u
              /\ session'[s].origin = IF q.op = "login" THEN s ELSE q.origin
  <1>1. PICK s \in SessionId :
          /\ ~Known(s)
          /\ session' = [session EXCEPT ![s] =
               [state |-> "live", expired |-> FALSE, user |-> q.u, ws |-> q.ws,
                with |-> q.with, origin |-> IF q.op = "login" THEN s ELSE q.origin]]
    BY DEF Issue, SetSession
  <1>2. /\ UNCHANGED <<mix, account, reset, member>>
        /\ q.pc = "issue" /\ n = Blank
    BY DEF TypeOK, Issue, SetSession, At, End
  <1>3. /\ \A t \in SessionId : t # s => session'[t] = session[t]
        /\ session'[s] = [state |-> "live", expired |-> FALSE, user |-> q.u, ws |-> q.ws,
                with |-> q.with, origin |-> IF q.op = "login" THEN s ELSE q.origin]
    BY <1>1 DEF TypeOK
  <1> QED
    BY <1>1, <1>2, <1>3 DEF Live

LEMMA SweepShape ==
  ASSUME TypeOK, NEW r \in Req, RevokeOthers(r) \/ RevokeAll(r),
         NEW q, q = req[r], NEW n, n = req'[r]
  PROVE  /\ n = Blank
         /\ \/ /\ q.pc = "others"
               /\ SetSession(Revoked({s \in SessionId : session[s].user = q.u} \ {q.t}))
            \/ /\ q.pc = "all"
               /\ SetSession(Revoked({s \in SessionId : session[s].user = q.u}))
  BY DEF TypeOK, RevokeOthers, RevokeAll, At, End

LEMMA SelectShape ==
  ASSUME TypeOK, NEW r \in Req, Select(r), NEW q, q = req[r], NEW n, n = req'[r]
  PROVE  /\ UNCHANGED <<mix, account, reset, member>>
         /\ q.pc = "select" /\ n = Blank
         /\ \A s \in SessionId : /\ session'[s].user = session[s].user
                                 /\ session'[s].origin = session[s].origin
                                 /\ session'[s].expired = session[s].expired
                                 /\ session'[s].state = session[s].state
  BY DEF TypeOK, Select, SetSession, At, End, Session

LEMMA LinkShape ==
  ASSUME TypeOK, NEW r \in Req, RequestReset(r), NEW q, q = req[r], NEW n, n = req'[r]
  PROVE  /\ UNCHANGED <<mix, account, session, member>>
         /\ q.pc = "request" /\ n = Blank
         /\ \E x \in ResetId :
              /\ reset[x].state = "none"
              /\ reset' = [reset EXCEPT ![x] = [state |-> "open", user |-> q.u]]
  BY DEF TypeOK, RequestReset, SetReset, At, End

LEMMA PasswordShape ==
  ASSUME TypeOK, NEW r \in Req, SetPassword(r), NEW q, q = req[r], NEW n, n = req'[r]
  PROVE  /\ UNCHANGED <<mix, session, reset, member>>
         /\ account' = [account EXCEPT ![q.u].password = q.new]
         /\ q.pc = "password" /\ Same(n, q)
         /\ n.pc = IF q.op = "reset" THEN "used" ELSE "all"
  <1>1. q \in Request /\ account[q.u] \in Account
    BY DEF TypeOK, Request
  <1>2. /\ q.pc = "password" /\ UNCHANGED <<mix, session, reset, member>>
        /\ account' = [account EXCEPT ![q.u] = [account[q.u] EXCEPT !.password = q.new]]
        /\ n = [q EXCEPT !.pc = IF q.op = "reset" THEN "used" ELSE "all"]
    BY <1>1 DEF TypeOK, SetPassword, SetAccount, At, Goto
  <1> QED
    BY <1>1, <1>2 DEF Request, Same

LEMMA UsedShape ==
  ASSUME TypeOK, NEW r \in Req, MarkUsed(r), NEW q, q = req[r], NEW n, n = req'[r]
  PROVE  /\ UNCHANGED <<mix, account, session, member>>
         /\ reset' = [reset EXCEPT ![q.x].state = "used"]
         /\ q.pc = "used" /\ n.pc = "all" /\ Same(n, q)
  <1>1. q \in Request
    BY DEF TypeOK
  <1>2. /\ q.pc = "used" /\ UNCHANGED <<mix, account, session, member>>
        /\ reset' = [reset EXCEPT ![q.x] = [reset[q.x] EXCEPT !.state = "used"]]
        /\ n = [q EXCEPT !.pc = "all"]
    BY <1>1 DEF TypeOK, MarkUsed, SetReset, At, Goto
  <1> QED
    BY <1>1, <1>2 DEF Request, Same

LEMMA FlagShape ==
  ASSUME TypeOK, NEW r \in Req, SetFlags(r), NEW q, q = req[r], NEW n, n = req'[r]
  PROVE  /\ UNCHANGED <<mix, session, reset, member>>
         /\ account' = [account EXCEPT ![q.u] =
              [account[q.u] EXCEPT !.active = q.op = "activate",
                                   !.deleted = account[q.u].deleted \/ q.op = "delete"]]
         /\ q.pc = "flag" /\ n = Blank
  BY DEF TypeOK, SetFlags, SetAccount, At, End

-----------------------------------------------------------------------------
(* What requests know stays true                                           *)

\* Sessions and links keep what makes them those of their account.
Lasting ==
    /\ \A s \in SessionId : Known(s) => /\ Known(s)'
                                        /\ session'[s].user = session[s].user
                                        /\ session'[s].origin = session[s].origin
    /\ \A x \in ResetId : reset[x].state # "none" => /\ reset'[x].state # "none"
                                                     /\ reset'[x].user = reset[x].user

\* A step of one request, of which the others know nothing that could change:
\* if they do not overlap, there are none.
LEMMA FitsStep ==
  ASSUME SignInInv, SessionsInv', SerialInv', mix' = mix,
         NEW r \in Req, \A o \in Req : o # r => req'[o] = req[o],
         mix.overlap \/ ~At(r, "idle") \/ Quiet,
         Lasting, Kin', Fits(req[r])', Smooth => Ready(req[r])'
  PROVE  SignInInv'
  <1>1. ASSUME NEW o \in Req, o # r PROVE Fits(req[o])'
    <2>1. Fits(req[o]) /\ req'[o] = req[o]
      BY <1>1 DEF SignInInv
    <2> QED
      BY <2>1 DEF Fits, Stage, Lasting, Exchange
  <1>2. ASSUME Smooth, NEW o \in Req, o # r PROVE Ready(req[o])'
    <2>1. req'[o].pc = "idle"
      BY <1>2 DEF SignInInv, SerialInv, Smooth, OneByOne, Quiet, At
    <2> QED
      BY <2>1 DEF Ready
  <1> QED
    BY <1>1, <1>2 DEF SignInInv, Smooth

LEMMA KinKept ==
  ASSUME Kin,
         \A s \in SessionId : /\ Known(s)' <=> Known(s)
                              /\ session'[s].user = session[s].user
                              /\ session'[s].origin = session[s].origin
  PROVE  Kin'
  BY DEF Kin

LEMMA BlankFits == Fits(Blank)' /\ Ready(Blank)'
  BY DEF Blank, Fits, Stage, Exchange, Ready

LEMMA FitsArrivals ==
  ASSUME SignInInv, SessionsInv', SerialInv', NEW r \in Req, Arrivals(r)
  PROVE  SignInInv'
  <1>1. TypeOK
    BY DEF SignInInv, SessionsInv
  <1>2. PICK q, n : q = req[r] /\ n = req'[r]
    OBVIOUS
  <1>3. /\ UNCHANGED <<mix, account, session, reset, member>>
        /\ q.pc = "idle" /\ (mix.overlap \/ Quiet)
        /\ n.pc \in {"account", "session", "reset", "others", "admin"}
        /\ Stage(n)
        /\ n.t = 0 \/ (n.t \in SessionId /\ Known(n.t))
        /\ n.op = "reset" =>
             n.x \in ResetId /\ reset[n.x].state # "none" /\ reset[n.x].user = n.u
    BY <1>1, <1>2, ArriveShape
  <1>4. Fits(n)' /\ Ready(n)'
    BY <1>3 DEF Fits, Stage, Exchange, Ready, Known
  <1>5. Lasting /\ Kin'
    BY <1>3, KinKept DEF Lasting, Known, SignInInv
  <1> QED
    BY <1>1, <1>2, <1>3, <1>4, <1>5, Turn, FitsStep

LEMMA FitsLookups ==
  ASSUME SignInInv, SessionsInv', SerialInv', NEW r \in Req, Lookups(r)
  PROVE  SignInInv'
  <1>1. TypeOK /\ Kin
    BY DEF SignInInv, SessionsInv
  <1>2. PICK q, n : q = req[r] /\ n = req'[r]
    OBVIOUS
  <1>3. /\ UNCHANGED <<mix, account, session, reset, member>>
        /\ q.pc \in {"account", "session", "reset", "latest", "member", "admin"}
        /\ (Same(n, q) /\ Found(q, n)) \/ n = Blank
    BY <1>1, <1>2, LookShape
  <1>4. q \in Request /\ Fits(q) /\ (Smooth => Ready(q))
    BY <1>1, <1>2 DEF SignInInv, TypeOK
  <1>5. CASE n = Blank
    BY <1>5, BlankFits, <1>1, <1>2, <1>3, Turn, FitsStep, KinKept
    DEF At, Lasting, Known, SignInInv
  <1>6. CASE Same(n, q) /\ Found(q, n)
    <2>1. q.pc = "session" => session[q.t].user = q.u \/ q.op \notin {"refresh", "select"}
      BY <1>2 DEF SignInInv, SessionsInv, EndsItsOwn
    <2>2. Fits(n)
      <3>1. Stage(n)
        BY <1>3, <1>4, <1>6 DEF Fits, Stage, Same, Found
      <3>2. Exchange(n) =>
              /\ n.origin \in SessionId /\ Known(n.origin)
              /\ session[n.origin].origin = n.origin
              /\ session[n.origin].user = n.u
        <4>1. CASE q.pc = "session" /\ q.op = "refresh"
          <5>1. n.origin = session[q.t].origin /\ Known(q.t) /\ q.t \in SessionId
            BY <1>2, <1>6, <4>1 DEF Found, SignInInv, SessionsInv, EndsItsOwn
          <5> QED
            BY <1>1, <1>6, <2>1, <4>1, <5>1 DEF Kin, Same
        <4>2. CASE q.pc \in {"latest", "member"}
          BY <1>4, <1>6, <4>2 DEF Fits, Exchange, Found, Same
        <4>3. CASE ~(q.pc = "session" /\ q.op = "refresh") /\ q.pc \notin {"latest", "member"}
          BY <1>3, <1>4, <1>6, <4>3 DEF Fits, Stage, Exchange, Found, Same
        <4> QED
          BY <4>1, <4>2, <4>3
      <3> QED
        BY <1>3, <1>4, <1>6, <3>1, <3>2 DEF Fits, Same
    <2>3. Smooth => Ready(n)
      BY <1>3, <1>4, <1>6 DEF Ready, Fits, Stage, Found, Same
    <2>4. Fits(n)' /\ (Smooth => Ready(n)')
      BY <1>3, <2>2, <2>3 DEF Fits, Ready, Known, Usable
    <2>5. Lasting /\ Kin'
      BY <1>1, <1>3, KinKept DEF Lasting, Known
    <2>6. ~At(r, "idle")
      BY <1>2, <1>3 DEF At
    <2> QED
      BY <1>1, <1>2, <1>3, <2>4, <2>5, <2>6, Turn, FitsStep
  <1> QED
    BY <1>3, <1>5, <1>6

LEMMA FitsSessionWrites ==
  ASSUME SignInInv, SessionsInv', SerialInv', NEW r \in Req, SessionWrites(r)
  PROVE  SignInInv'
  <1>1. TypeOK /\ Kin
    BY DEF SignInInv, SessionsInv
  <1>2. PICK q, n : q = req[r] /\ n = req'[r]
    OBVIOUS
  <1>3. q \in Request /\ Fits(q) /\ (Smooth => Ready(q))
    BY <1>1, <1>2 DEF SignInInv, TypeOK
  <1>4. ASSUME mix' = mix, q.pc # "idle", Lasting, Kin', Fits(n)', Smooth => Ready(n)'
        PROVE  SignInInv'
    BY <1>1, <1>2, <1>4, Turn, FitsStep DEF At
  <1>5. CASE Revoke(r)
    <2>1. /\ q.pc = "revoke" /\ SetSession(Revoked({q.t}))
          /\ q.op # "refresh" => n = Blank
          /\ q.op = "refresh" => /\ Same(n, q) /\ n.origin = q.origin
                                 /\ n.pc \in {"latest", "member"}
      BY <1>1, <1>2, <1>5, ExchangeShape
    <2>2. /\ UNCHANGED <<mix, account, reset, member>>
          /\ \A s \in SessionId : /\ session'[s].user = session[s].user
                                  /\ session'[s].origin = session[s].origin
                                  /\ Known(s)' <=> Known(s)
      BY <1>1, <2>1, RevokedOnly
    <2>3. Lasting /\ Kin'
      BY <1>1, <2>2, KinKept DEF Lasting
    <2>4. Fits(n)' /\ (Smooth => Ready(n)')
      <3>1. CASE q.op # "refresh"
        BY <2>1, <3>1, BlankFits
      <3>2. CASE q.op = "refresh"
        <4>1. Fits(n)
          BY <1>3, <2>1, <3>2 DEF Fits, Stage, Exchange, Same
        <4>2. Fits(n)'
          BY <2>2, <4>1 DEF Fits
        <4>3. Ready(n)'
          BY <2>1, <3>2 DEF Ready, Same
        <4> QED
          BY <4>2, <4>3
      <3> QED
        BY <3>1, <3>2
    <2> QED
      BY <1>4, <2>1, <2>2, <2>3, <2>4
  <1>6. CASE Issue(r)
    <2>1. /\ UNCHANGED <<mix, account, reset, member>>
          /\ q.pc = "issue" /\ n = Blank
      BY <1>1, <1>2, <1>6, IssueShape
    <2>2. PICK s \in SessionId :
            /\ ~Known(s)
            /\ \A t \in SessionId : t # s => session'[t] = session[t]
            /\ Live(s)' /\ session'[s].user = q.u
            /\ session'[s].origin = IF q.op = "login" THEN s ELSE q.origin
      BY <1>1, <1>2, <1>6, IssueShape
    <2>3. Known(s)' /\ \A t \in SessionId : t # s => (Known(t)' <=> Known(t))
      BY <2>2 DEF Known, Live
    <2>4. Lasting
      BY <2>1, <2>2, <2>3 DEF Lasting
    <2>5. q.op # "login" =>
            /\ q.origin \in SessionId /\ Known(q.origin)
            /\ session[q.origin].origin = q.origin
            /\ session[q.origin].user = q.u
      BY <1>3, <2>1 DEF Fits, Stage, Exchange
    <2>6. Kin'
      <3>1. ASSUME NEW t \in SessionId, Known(t)', t # s
            PROVE  /\ session'[t].origin \in SessionId /\ Known(session[t].origin)'
                   /\ session'[t].origin = session[t].origin
                   /\ session'[session'[t].origin].origin = session'[t].origin
                   /\ session'[session'[t].origin].user = session'[t].user
        <4>1. Known(t) /\ session'[t] = session[t]
          BY <2>2, <2>3, <3>1
        <4>2. PICK o : o = session[t].origin
          OBVIOUS
        <4>3. /\ o \in SessionId /\ Known(o) /\ session[o].origin = o
              /\ session[o].user = session[t].user
          BY <1>1, <4>1, <4>2 DEF Kin
        <4>4. o # s
          BY <2>2, <4>3
        <4> QED
          BY <2>2, <2>3, <4>1, <4>2, <4>3, <4>4
      <3>2. CASE q.op = "login"
        BY <2>2, <2>3, <3>1, <3>2 DEF Kin
      <3>3. CASE q.op # "login"
        <4>1. q.origin # s /\ session'[q.origin] = session[q.origin] /\ Known(q.origin)'
          BY <2>2, <2>3, <2>5, <3>3
        <4>2. session'[s].origin = q.origin /\ session'[s].user = q.u
          BY <2>2, <3>3
        <4> QED
          BY <2>5, <3>1, <3>3, <4>1, <4>2 DEF Kin
      <3> QED
        BY <3>2, <3>3
    <2> QED
      BY <1>4, <2>1, <2>4, <2>6, BlankFits
  <1>7. CASE RevokeOthers(r) \/ RevokeAll(r)
    <2>1. /\ n = Blank /\ q.pc \in {"others", "all"}
      BY <1>1, <1>2, <1>7 DEF TypeOK, RevokeOthers, RevokeAll, At, End
    <2>2. PICK S : SetSession(Revoked(S))
      <3>1. PICK A : A = {s \in SessionId : session[s].user = q.u}
        OBVIOUS
      <3>2. SetSession(Revoked(A)) \/ SetSession(Revoked(A \ {q.t}))
        BY <1>1, <1>2, <1>7, <3>1, SweepShape
      <3> QED
        BY <3>2
    <2>3. /\ UNCHANGED <<mix, account, reset, member>>
          /\ \A s \in SessionId : /\ session'[s].user = session[s].user
                                  /\ session'[s].origin = session[s].origin
                                  /\ Known(s)' <=> Known(s)
      BY <1>1, <2>2, RevokedOnly
    <2>4. Lasting /\ Kin'
      BY <1>1, <2>3, KinKept DEF Lasting
    <2> QED
      BY <1>4, <2>1, <2>3, <2>4, BlankFits
  <1>8. CASE Select(r)
    <2>1. /\ UNCHANGED <<mix, account, reset, member>>
          /\ q.pc = "select" /\ n = Blank
          /\ \A s \in SessionId : /\ session'[s].user = session[s].user
                                  /\ session'[s].origin = session[s].origin
                                  /\ session'[s].state = session[s].state
      BY <1>1, <1>2, <1>8, SelectShape
    <2>2. Lasting /\ Kin'
      BY <1>1, <2>1, KinKept DEF Lasting, Known
    <2> QED
      BY <1>4, <2>1, <2>2, BlankFits
  <1> QED
    BY <1>5, <1>6, <1>7, <1>8 DEF SessionWrites

LEMMA FitsOtherWrites ==
  ASSUME SignInInv, SessionsInv', SerialInv', NEW r \in Req,
         OtherWrites(r) \/ Fail(r)
  PROVE  SignInInv'
  <1>1. TypeOK /\ Kin
    BY DEF SignInInv, SessionsInv
  <1>2. PICK q, n : q = req[r] /\ n = req'[r]
    OBVIOUS
  <1>3. q \in Request /\ Fits(q) /\ (Smooth => Ready(q))
    BY <1>1, <1>2 DEF SignInInv, TypeOK
  <1>4. ASSUME mix' = mix, session' = session, q.pc # "idle",
               \A x \in ResetId : reset[x].state # "none" => /\ reset'[x].state # "none"
                                                             /\ reset'[x].user = reset[x].user,
               Fits(n)', Smooth => Ready(n)'
        PROVE  SignInInv'
    <2>1. Lasting /\ Kin'
      BY <1>1, <1>4, KinKept DEF Lasting, Known
    <2> QED
      BY <1>1, <1>2, <1>4, <2>1, Turn, FitsStep DEF At
  <1>5. CASE RequestReset(r)
    <2>1. /\ UNCHANGED <<mix, account, session, member>>
          /\ q.pc = "request" /\ n = Blank
      BY <1>1, <1>2, <1>5, LinkShape
    <2>2. PICK x \in ResetId :
            /\ reset[x].state = "none"
            /\ reset' = [reset EXCEPT ![x] = [state |-> "open", user |-> q.u]]
      BY <1>1, <1>2, <1>5, LinkShape
    <2>3. \A y \in ResetId : reset[y].state # "none" => reset'[y] = reset[y]
      BY <1>1, <2>2 DEF TypeOK
    <2> QED
      BY <1>4, <2>1, <2>3, BlankFits
  <1>6. CASE SetPassword(r)
    <2>1. /\ UNCHANGED <<mix, session, reset, member>>
          /\ q.pc = "password" /\ Same(n, q)
          /\ n.pc = IF q.op = "reset" THEN "used" ELSE "all"
      BY <1>1, <1>2, <1>6, PasswordShape
    <2>2. Fits(n)'
      BY <1>3, <2>1 DEF Fits, Stage, Exchange, Same, Known
    <2>3. Ready(n)'
      BY <2>1 DEF Ready
    <2> QED
      BY <1>4, <2>1, <2>2, <2>3
  <1>7. CASE MarkUsed(r)
    <2>1. /\ UNCHANGED <<mix, account, session, member>>
          /\ reset' = [reset EXCEPT ![q.x].state = "used"]
          /\ q.pc = "used" /\ n.pc = "all" /\ Same(n, q)
      BY <1>1, <1>2, <1>7, UsedShape
    <2>2. \A x \in ResetId : reset[x].state # "none" => /\ reset'[x].state # "none"
                                                        /\ reset'[x].user = reset[x].user
      BY <1>1, <2>1 DEF TypeOK, Reset
    <2>3. Fits(n)'
      BY <1>3, <2>1, <2>2 DEF Fits, Stage, Exchange, Same, Known
    <2>4. Ready(n)'
      BY <2>1 DEF Ready
    <2> QED
      BY <1>4, <2>1, <2>2, <2>3, <2>4
  <1>8. CASE SetFlags(r)
    <2>1. UNCHANGED <<mix, session, reset, member>> /\ q.pc = "flag" /\ n = Blank
      BY <1>1, <1>2, <1>8 DEF TypeOK, SetFlags, SetAccount, At, End
    <2> QED
      BY <1>4, <2>1, BlankFits
  <1>9. CASE Fail(r)
    <2>1. /\ UNCHANGED <<mix, session, reset, account>> /\ q.pc # "idle" /\ n = Blank
      BY <1>1, <1>2, <1>9 DEF Fail, End, At, TypeOK
    <2> QED
      BY <1>4, <2>1, BlankFits
  <1> QED
    BY <1>5, <1>6, <1>7, <1>8, <1>9 DEF OtherWrites

LEMMA FitsEnvironment ==
  ASSUME SignInInv, SessionsInv', SerialInv', Environment \/ UNCHANGED vars
  PROVE  SignInInv'
  <1>1. TypeOK /\ Kin
    BY DEF SignInInv, SessionsInv
  <1>2. /\ UNCHANGED <<mix, account, req>>
        /\ \A s \in SessionId : /\ Known(s)' <=> Known(s)
                                /\ session'[s].user = session[s].user
                                /\ session'[s].origin = session[s].origin
        /\ \A x \in ResetId :
             /\ reset'[x].user = reset[x].user
             /\ reset'[x].state = reset[x].state
                  \/ (reset[x].state = "open" /\ reset'[x].state = "expired")
    <2>1. ASSUME NEW s \in SessionId, ExpireSession(s)
          PROVE  /\ UNCHANGED <<mix, account, req, reset>>
                 /\ \A t \in SessionId : /\ Known(t)' <=> Known(t)
                                         /\ session'[t].user = session[t].user
                                         /\ session'[t].origin = session[t].origin
      BY <1>1, <2>1 DEF ExpireSession, SetSession, TypeOK, Session, Known
    <2>2. ASSUME NEW x \in ResetId, ExpireReset(x)
          PROVE  /\ UNCHANGED <<mix, account, req, session>>
                 /\ \A y \in ResetId :
                      /\ reset'[y].user = reset[y].user
                      /\ reset'[y].state = reset[y].state
                           \/ (reset[y].state = "open" /\ reset'[y].state = "expired")
      BY <1>1, <2>2 DEF ExpireReset, SetReset, TypeOK, Reset
    <2>3. CASE \/ UNCHANGED vars
               \/ \E u \in User, w \in Workspace : ChangeMembership(u, w)
      BY <2>3 DEF vars, ChangeMembership, Known
    <2> QED
      BY <2>1, <2>2, <2>3 DEF Environment, Known
  <1>3. Kin'
    BY <1>1, <1>2, KinKept
  <1>4. ASSUME NEW r \in Req PROVE Fits(req[r])' /\ (Smooth => Ready(req[r])')
    <2>1. Fits(req[r]) /\ (Smooth => Ready(req[r])) /\ req'[r] = req[r]
      BY <1>2 DEF SignInInv
    <2>2. Fits(req[r])'
      BY <1>2, <2>1 DEF Fits, Stage, Exchange
    <2>3. Smooth => Ready(req[r])'
      <3>1. req[r].pc = "password" /\ req[r].op = "reset" => req[r].x \in ResetId
        BY <2>1 DEF Fits
      <3> QED
        BY <1>2, <2>1, <3>1 DEF Ready, Usable
    <2> QED
      BY <2>2, <2>3
  <1> QED
    BY <1>2, <1>3, <1>4 DEF SignInInv, Smooth

LEMMA NextSignIn == SignInInv /\ [Next]_vars => SignInInv'
  <1> SUFFICES ASSUME SignInInv, [Next]_vars PROVE SignInInv'
    OBVIOUS
  <1>1. SessionsInv' /\ SerialInv'
    BY NextInv, NextSerial DEF SignInInv
  <1> QED
    BY <1>1, FitsArrivals, FitsLookups, FitsSessionWrites, FitsOtherWrites,
       FitsEnvironment DEF Next

LEMMA InitSignIn == Init => SignInInv
  <1> SUFFICES ASSUME Init PROVE SignInInv
    OBVIOUS
  <1>1. SessionsInv /\ SerialInv
    BY InitInv, InitSerial
  <1>2. Kin
    BY DEF Init, Kin, Known
  <1>3. ASSUME NEW r \in Req PROVE Fits(req[r]) /\ Ready(req[r])
    BY DEF Init, Blank, Fits, Stage, Exchange, Ready
  <1> QED
    BY <1>1, <1>2, <1>3 DEF SignInInv

-----------------------------------------------------------------------------
(* The contract: what it sees when at most one request is under way         *)

Exchanges(q) == IF Exchange(q) THEN {q.origin} ELSE {}

Lasts(q) == {s \in SessionId : Live(s) /\ ~(Replacing(q) /\ q.u = session[s].user)}

SignInsBy(q) == {session[s].origin : s \in Lasts(q)} \cup Exchanges(q)

OverdueBy(q) ==
    {session[s].origin : s \in {s \in Lasts(q) : session[s].expired}} \ Exchanges(q)

Holds(q, label, x) == q.op = "reset" /\ q.pc = label /\ q.x = x

LinkBy(q, x) ==
    [user |-> reset[x].user,
     state |-> IF reset[x].state = "none" THEN "none"
               ELSE IF /\ reset[x].state = "open" \/ Holds(q, "password", x)
                       /\ ~Holds(q, "used", x)
                    THEN "open" ELSE "spent"]

AskedBy(q) == IF q.pc # "idle" /\ ~Replacing(q) THEN {Asked(q)} ELSE {}

LEMMA Sight ==
  ASSUME NEW r \in Req, NEW q, q = req[r], \A o \in Req : o # r => req[o].pc = "idle"
  PROVE  /\ signIns = SignInsBy(q) /\ overdue = OverdueBy(q)
         /\ links = [x \in ResetId |-> LinkBy(q, x)] /\ asked = AskedBy(q)
  <1>1. \A o \in Req : o # r => ~Replacing(req[o]) /\ ~Exchange(req[o])
    BY DEF Replacing, Exchange
  <1>2. InForce = Lasts(q)
    BY <1>1 DEF InForce, Ending, Lasts
  <1>3. InExchange = Exchanges(q)
    BY <1>1 DEF InExchange, Exchanges
  <1>4. \A x \in ResetId : /\ Holding(x, "used") <=> Holds(q, "used", x)
                           /\ Holding(x, "password") <=> Holds(q, "password", x)
    BY DEF Holding, Holds, At
  <1>5. asked = AskedBy(q)
    BY <1>1 DEF asked, AskedBy, At
  <1>6. links = [x \in ResetId |-> LinkBy(q, x)]
    BY <1>4 DEF links, LinkBy
  <1> QED
    BY <1>2, <1>3, <1>5, <1>6 DEF signIns, overdue, SignInsBy, OverdueBy

LEMMA SightAfter ==
  ASSUME NEW r \in Req, NEW q, q = req'[r], \A o \in Req : o # r => req'[o].pc = "idle"
  PROVE  /\ signIns' = SignInsBy(q)' /\ overdue' = OverdueBy(q)'
         /\ links' = [x \in ResetId |-> LinkBy(q, x)'] /\ asked' = AskedBy(q)'
  <1>1. \A o \in Req : o # r => ~Replacing(req[o])' /\ ~Exchange(req[o])'
    BY DEF Replacing, Exchange
  <1>2. InForce' = Lasts(q)'
    BY <1>1 DEF InForce, Ending, Lasts
  <1>3. InExchange' = Exchanges(q)
    BY <1>1 DEF InExchange, Exchanges
  <1>4. \A x \in ResetId : /\ Holding(x, "used")' <=> Holds(q, "used", x)
                           /\ Holding(x, "password")' <=> Holds(q, "password", x)
    BY DEF Holding, Holds, At
  <1>5. asked' = AskedBy(q)'
    BY <1>1 DEF asked, AskedBy, At
  <1>6. links' = [x \in ResetId |-> LinkBy(q, x)']
    BY <1>4 DEF links, LinkBy, Holds
  <1> QED
    BY <1>2, <1>3, <1>5, <1>6 DEF signIns, overdue, SignInsBy, OverdueBy, Exchanges

\* The sign-ins seen stay the same when the sessions do.
LEMMA SameSight ==
  ASSUME NEW q, NEW n, Lasts(n)' = Lasts(q), Exchanges(n) = Exchanges(q),
         \A s \in SessionId : /\ session'[s].origin = session[s].origin
                              /\ session'[s].expired = session[s].expired
  PROVE  SignInsBy(n)' = SignInsBy(q) /\ OverdueBy(n)' = OverdueBy(q)
  <1>1. PICK F : F = Lasts(q) /\ F \subseteq SessionId
    BY DEF Lasts
  <1>2. {session'[s].origin : s \in F} = {session[s].origin : s \in F}
    BY <1>1
  <1>3. {session'[s].origin : s \in {s \in F : session'[s].expired}}
          = {session[s].origin : s \in {s \in F : session[s].expired}}
    BY <1>1
  <1> QED
    BY <1>1, <1>2, <1>3 DEF SignInsBy, OverdueBy, Exchanges

LEMMA SameHolders ==
  ASSUME \A s \in SessionId : /\ Known(s)' <=> Known(s)
                              /\ session'[s].user = session[s].user
                              /\ session'[s].origin = session[s].origin
  PROVE  holders' = holders
  BY DEF holders

\* Of requests that do not overlap, one is under way and the others wait.
LEMMA Waiting ==
  ASSUME SignInInv, Smooth, NEW r \in Req,
         Arrivals(r) \/ Lookups(r) \/ SessionWrites(r) \/ OtherWrites(r),
         ~At(r, "idle") \/ Quiet
  PROVE  \A o \in Req : o # r => req[o].pc = "idle" /\ req'[o].pc = "idle"
  <1>1. \A o \in Req : o # r => req[o].pc = "idle"
    BY DEF SignInInv, SerialInv, Smooth, OneByOne, Quiet, At
  <1>2. \A o \in Req : o # r => req'[o] = req[o]
    BY Turn DEF SignInInv, SessionsInv
  <1> QED
    BY <1>1, <1>2

LEMMA IsAsk ==
  ASSUME SignInInv, TypeOK', Smooth, NEW r \in Req, Arrivals(r)
  PROVE  Contract!CNext
  <1>1. PICK q, n : q = req[r] /\ n = req'[r]
    OBVIOUS
  <1>2. TypeOK
    BY DEF SignInInv, SessionsInv
  <1>3. /\ UNCHANGED <<mix, account, session, reset, member>>
        /\ q.pc = "idle" /\ Quiet
        /\ n.pc \in {"account", "session", "reset", "others", "admin"}
        /\ n.t = 0 \/ (n.t \in SessionId /\ Known(n.t))
    BY <1>1, <1>2, ArriveShape DEF Smooth
  <1>4. /\ signIns = SignInsBy(q) /\ overdue = OverdueBy(q)
        /\ links = [x \in ResetId |-> LinkBy(q, x)] /\ asked = AskedBy(q)
        /\ signIns' = SignInsBy(n)' /\ overdue' = OverdueBy(n)'
        /\ links' = [x \in ResetId |-> LinkBy(n, x)'] /\ asked' = AskedBy(n)'
    BY <1>1, <1>3, Waiting, Sight, SightAfter
  <1>5. ~Replacing(q) /\ ~Replacing(n) /\ ~Exchange(q) /\ ~Exchange(n)
    BY <1>3 DEF Replacing, Exchange
  <1>6. Lasts(n)' = Lasts(q) /\ Exchanges(n) = Exchanges(q)
    BY <1>3, <1>5 DEF Lasts, Live, Exchanges
  <1>7. signIns' = signIns /\ overdue' = overdue
    BY <1>3, <1>4, <1>6, SameSight
  <1>8. links' = links
    BY <1>3, <1>4 DEF LinkBy, Holds
  <1>9. holders' = holders /\ passwords' = passwords /\ standing' = standing
    BY <1>3, SameHolders DEF Known, passwords, standing
  <1>a. asked = {} /\ asked' = {Asked(n)'}
    BY <1>3, <1>4, <1>5 DEF AskedBy
  <1>b. Asked(n)' \in [op : Operation, u : User, given : Password, new : Password,
                       link : 0..MaxReset, signIn : 0..MaxSession]
    <2>1. n \in Request
      BY <1>1 DEF TypeOK
    <2>2. n.t # 0 => session'[n.t].origin \in 0..MaxSession
      BY <1>2, <1>3 DEF TypeOK, Session
    <2> QED
      BY <2>1, <2>2 DEF Asked, Request, SessionId
  <1>c. Contract!Ask
    BY <1>7, <1>8, <1>9, <1>a, <1>b DEF Contract!Ask
  <1> QED
    BY <1>c DEF Contract!CNext

\* A look-up decides nothing, but that a request is refused.
LEMMA IsLookup ==
  ASSUME SignInInv, Smooth, NEW r \in Req, Lookups(r)
  PROVE  Contract!Refuse \/ UNCHANGED Contract!cvars
  <1>1. PICK q, n : q = req[r] /\ n = req'[r]
    OBVIOUS
  <1>2. TypeOK /\ SerialInv /\ Fits(q)
    BY <1>1 DEF SignInInv, SessionsInv
  <1>3. /\ UNCHANGED <<mix, account, session, reset, member>>
        /\ q.pc \in {"account", "session", "reset", "latest", "member", "admin"}
        /\ \/ Same(n, q) /\ Found(q, n)
           \/ n = Blank /\ q.pc # "latest" /\ (q.pc = "member" => q.op = "select")
    BY <1>1, <1>2, LookShape
  <1>4. /\ signIns = SignInsBy(q) /\ overdue = OverdueBy(q)
        /\ links = [x \in ResetId |-> LinkBy(q, x)] /\ asked = AskedBy(q)
        /\ signIns' = SignInsBy(n)' /\ overdue' = OverdueBy(n)'
        /\ links' = [x \in ResetId |-> LinkBy(n, x)'] /\ asked' = AskedBy(n)'
    BY <1>1, <1>3, Waiting, Sight, SightAfter DEF At
  <1>5. holders' = holders /\ passwords' = passwords /\ standing' = standing
    BY <1>3, SameHolders DEF Known, passwords, standing
  <1>6. ~Replacing(q) /\ ~Replacing(n)
    BY <1>3, BlankWaits DEF Replacing, Found
  <1>7. Lasts(n)' = Lasts(q)
    BY <1>3, <1>6 DEF Lasts, Live
  <1>8. CASE n = Blank
    <2>1. Exchanges(n) = Exchanges(q)
      BY <1>3, <1>8, BlankType DEF Exchanges, Exchange, Found, Same
    <2>2. signIns' = signIns /\ overdue' = overdue
      BY <1>3, <1>4, <1>7, <2>1, SameSight
    <2>3. \A x \in ResetId : /\ ~Holds(q, "used", x) /\ ~Holds(q, "password", x)
                             /\ ~Holds(n, "used", x) /\ ~Holds(n, "password", x)
      BY <1>3, <1>8, BlankType DEF Holds
    <2>4. links' = links
      BY <1>3, <1>4, <2>3 DEF LinkBy, Holds
    <2>5. asked' = {}
      BY <1>4, <1>8, BlankType DEF AskedBy
    <2> QED
      BY <1>5, <2>2, <2>4, <2>5 DEF Contract!Refuse
  <1>9. CASE n # Blank
    <2>1. Same(n, q) /\ Found(q, n)
      BY <1>3, <1>9
    <2>2. n.pc # "idle"
      BY <2>1 DEF Found
    <2>3. Asked(n)' = Asked(q)
      BY <1>3, <2>1 DEF Asked, Same
    <2>4. asked' = asked
      BY <1>3, <1>4, <1>6, <2>2, <2>3 DEF AskedBy
    <2>5. ASSUME NEW x \in ResetId PROVE LinkBy(n, x)' = LinkBy(q, x)
      <3>1. CASE q.pc = "reset"
        <4>1. reset[q.x].state = "open" /\ n.pc = "password" /\ n.x = q.x
          BY <2>1, <3>1 DEF Found, Same
        <4> QED
          BY <1>3, <3>1, <4>1 DEF LinkBy, Holds
      <3>2. CASE q.pc # "reset"
        <4>1. n.op = "reset" => n.pc \notin {"used", "password"}
          BY <1>2, <2>1, <3>2 DEF Found, Same, Fits, Stage
        <4> QED
          BY <1>3, <4>1 DEF LinkBy, Holds
      <3> QED
        BY <3>1, <3>2
    <2>6. links' = links
      BY <1>4, <2>5
    <2>7. CASE q.pc = "session" /\ q.op = "refresh"
      <3>1. /\ Live(q.t) /\ ~session[q.t].expired /\ q.t \in SessionId
            /\ n.origin = session[q.t].origin /\ Exchange(n) /\ ~Exchange(q)
        BY <1>1, <2>1, <2>7
        DEF Found, Same, Exchange, SignInInv, SessionsInv, EndsItsOwn
      <3>2. PICK o : o = n.origin
        OBVIOUS
      <3>3. q.t \in Lasts(q)
        BY <1>6, <3>1 DEF Lasts
      <3>4. o \in SignInsBy(q) /\ o \notin OverdueBy(q)
        <4>1. \A s \in SessionId : Live(s) /\ session[s].origin = o => s = q.t
          BY <1>2, <3>1, <3>2 DEF SerialInv, SingleOrigin, Smooth
        <4> QED
          BY <3>1, <3>2, <3>3, <4>1 DEF SignInsBy, OverdueBy, Lasts
      <3>5. SignInsBy(n)' = SignInsBy(q) \cup {o}
        BY <1>3, <1>7, <3>1, <3>2 DEF SignInsBy, Exchanges
      <3>6. OverdueBy(n)' = OverdueBy(q) \ {o}
        BY <1>3, <1>7, <3>1, <3>2 DEF OverdueBy, Exchanges
      <3> QED
        BY <1>4, <1>5, <2>4, <2>6, <3>4, <3>5, <3>6 DEF Contract!cvars
    <2>8. CASE ~(q.pc = "session" /\ q.op = "refresh")
      <3>1. Exchanges(n) = Exchanges(q)
        BY <1>2, <1>3, <2>1, <2>8 DEF Exchanges, Exchange, Found, Same, Fits, Stage
      <3>2. signIns' = signIns /\ overdue' = overdue
        BY <1>3, <1>4, <1>7, <3>1, SameSight
      <3> QED
        BY <1>5, <2>4, <2>6, <3>2 DEF Contract!cvars
    <2> QED
      BY <2>7, <2>8
  <1> QED
    BY <1>8, <1>9

\* An account ends a sign-in; a refresh ends a session, and no sign-in.
LEMMA IsRevoke ==
  ASSUME SignInInv, Smooth, NEW r \in Req, Revoke(r)
  PROVE  Contract!CNext \/ UNCHANGED Contract!cvars
  <1>1. PICK q, n : q = req[r] /\ n = req'[r]
    OBVIOUS
  <1>2. TypeOK /\ SerialInv /\ Fits(q) /\ Kin
    BY <1>1 DEF SignInInv, SessionsInv
  <1>3. /\ q.pc = "revoke" /\ SetSession(Revoked({q.t}))
        /\ q.op # "refresh" => n = Blank
        /\ q.op = "refresh" => /\ Same(n, q) /\ n.origin = q.origin
                               /\ n.pc \in {"latest", "member"}
    BY <1>1, <1>2, ExchangeShape
  <1>4. /\ UNCHANGED <<mix, account, reset, member>>
        /\ \A s \in SessionId : /\ session'[s].user = session[s].user
                                /\ session'[s].origin = session[s].origin
                                /\ session'[s].expired = session[s].expired
                                /\ Known(s)' <=> Known(s)
                                /\ Live(s)' <=> Live(s) /\ s \notin {q.t}
    BY <1>2, <1>3, RevokedOnly
  <1>5. /\ signIns = SignInsBy(q) /\ overdue = OverdueBy(q)
        /\ links = [x \in ResetId |-> LinkBy(q, x)] /\ asked = AskedBy(q)
        /\ signIns' = SignInsBy(n)' /\ overdue' = OverdueBy(n)'
        /\ links' = [x \in ResetId |-> LinkBy(n, x)'] /\ asked' = AskedBy(n)'
    BY <1>1, <1>3, Waiting, Sight, SightAfter DEF At, SessionWrites
  <1>6. holders' = holders /\ passwords' = passwords /\ standing' = standing
    BY <1>4, SameHolders DEF passwords, standing
  <1>7. ~Replacing(q) /\ ~Replacing(n)
    BY <1>3, BlankWaits DEF Replacing
  <1>8. links' = links
    <2>1. n.pc \notin {"used", "password"}
      BY <1>3, BlankType
    <2> QED
      BY <1>3, <1>4, <1>5, <2>1 DEF LinkBy, Holds
  <1>9. Lasts(n)' = Lasts(q) \ {q.t}
    BY <1>4, <1>7 DEF Lasts
  <1>a. q.t \in SessionId /\ Known(q.t) /\ session[q.t].user = q.u
    BY <1>1, <1>3 DEF SignInInv, SessionsInv, EndsItsOwn
  <1>b. PICK o : o = session[q.t].origin
    OBVIOUS
  <1>c. Live(q.t) => \A s \in SessionId : Live(s) /\ session[s].origin = o => s = q.t
    BY <1>2, <1>a, <1>b DEF SerialInv, SingleOrigin, Smooth
  <1>d. CASE q.op = "refresh"
    <2>1. Live(q.t) /\ q.origin = o /\ n.origin = o
      BY <1>1, <1>2, <1>3, <1>b, <1>d DEF SerialInv, Exchanged, Exchanging, Smooth
    <2>2. Exchanges(q) = {o} /\ Exchanges(n) = {o}
      BY <1>3, <1>d, <2>1 DEF Exchanges, Exchange, Same
    <2>3. signIns' = signIns
      BY <1>4, <1>5, <1>9, <1>a, <1>b, <2>2 DEF SignInsBy, Lasts
    <2>4. overdue' = overdue
      BY <1>4, <1>5, <1>9, <1>a, <1>b, <2>2 DEF OverdueBy, Lasts
    <2>5. asked' = asked
      <3>1. Asked(n)' = Asked(q)
        <4>1. q.t # 0
          BY <1>a DEF SessionId
        <4> QED
          BY <1>3, <1>4, <1>a, <1>d, <4>1 DEF Asked, Same
      <3> QED
        BY <1>3, <1>5, <1>7, <1>d, <3>1 DEF AskedBy
    <2> QED
      BY <1>6, <1>8, <2>3, <2>4, <2>5 DEF Contract!cvars
  <1>e. CASE q.op # "refresh"
    <2>1. n = Blank /\ asked' = {} /\ asked = {Asked(q)} /\ Exchanges(q) = {}
          /\ Exchanges(n) = {}
      BY <1>3, <1>5, <1>7, <1>e, BlankType DEF AskedBy, Exchanges, Exchange
    <2>2. CASE ~Live(q.t)
      <3>1. Lasts(n)' = Lasts(q)
        BY <1>9, <2>2 DEF Lasts
      <3>2. signIns' = signIns /\ overdue' = overdue
        BY <1>4, <1>5, <2>1, <3>1, SameSight
      <3>3. Contract!Refuse
        BY <1>6, <1>8, <2>1, <3>2 DEF Contract!Refuse
      <3> QED
        BY <3>3 DEF Contract!CNext
    <2>3. CASE Live(q.t)
      <3>1. PICK g : g = Asked(q)
        OBVIOUS
      <3>2. g.op \in {"logout", "revoke"} /\ g.u = q.u /\ g.signIn = o
        <4>1. q.t # 0
          BY <1>a DEF SessionId
        <4> QED
          BY <1>2, <1>3, <1>b, <1>e, <3>1, <4>1 DEF Asked, Fits, Stage
      <3>3. holders[o] = q.u
        BY <1>2, <1>a, <1>b DEF holders, Kin
      <3>4. signIns' = signIns \ {o} /\ overdue' = overdue \ {o}
        <4>1. \A s \in Lasts(q) : s # q.t <=> session[s].origin # o
          BY <1>b, <1>c, <2>3 DEF Lasts
        <4>2. signIns' = signIns \ {o}
          BY <1>4, <1>5, <1>9, <2>1, <4>1 DEF SignInsBy, Lasts
        <4>3. overdue' = overdue \ {o}
          BY <1>4, <1>5, <1>9, <2>1, <4>1 DEF OverdueBy, Lasts
        <4> QED
          BY <4>2, <4>3
      <3>5. Contract!End(g)
        BY <1>6, <1>8, <3>2, <3>3, <3>4 DEF Contract!End, Contract!EndAll
      <3> QED
        BY <2>1, <3>1, <3>5 DEF Contract!CNext, Contract!Decide
    <2> QED
      BY <2>2, <2>3
  <1> QED
    BY <1>d, <1>e

\* A session that is issued begins a sign-in, or carries one on.
LEMMA IsIssue ==
  ASSUME SignInInv, Smooth, NEW r \in Req, Issue(r)
  PROVE  Contract!CNext
  <1>1. PICK q, n : q = req[r] /\ n = req'[r]
    OBVIOUS
  <1>2. TypeOK /\ SerialInv /\ Fits(q) /\ Ready(q) /\ Exchanged(q)
    BY <1>1 DEF SignInInv, SessionsInv, SerialInv, Smooth
  <1>3. /\ UNCHANGED <<mix, account, reset, member>>
        /\ q.pc = "issue" /\ n = Blank
        /\ \E s \in SessionId :
             /\ ~Known(s)
             /\ \A t \in SessionId : t # s => session'[t] = session[t]
             /\ Live(s)' /\ ~session'[s].expired /\ session'[s].user = q.u
             /\ session'[s].origin = IF q.op = "login" THEN s ELSE q.origin
    BY <1>1, <1>2, IssueShape
  <1>4. PICK s \in SessionId :
          /\ ~Known(s)
          /\ \A t \in SessionId : t # s => session'[t] = session[t]
          /\ Live(s)' /\ ~session'[s].expired /\ session'[s].user = q.u
          /\ session'[s].origin = IF q.op = "login" THEN s ELSE q.origin
    BY <1>3
  <1>5. /\ signIns = SignInsBy(q) /\ overdue = OverdueBy(q)
        /\ links = [x \in ResetId |-> LinkBy(q, x)] /\ asked = AskedBy(q)
        /\ signIns' = SignInsBy(n)' /\ overdue' = OverdueBy(n)'
        /\ links' = [x \in ResetId |-> LinkBy(n, x)'] /\ asked' = AskedBy(n)'
    BY <1>1, <1>3, Waiting, Sight, SightAfter DEF At, SessionWrites
  <1>6. ~Replacing(q) /\ ~Replacing(n) /\ n.pc = "idle" /\ Exchanges(n) = {}
    BY <1>3, BlankType DEF Replacing, Exchanges, Exchange
  <1>7. links' = links
    BY <1>3, <1>5, <1>6 DEF LinkBy, Holds
  <1>8. passwords' = passwords /\ standing' = standing
    BY <1>3 DEF passwords, standing
  <1>9. asked = {Asked(q)} /\ asked' = {}
    BY <1>3, <1>5, <1>6 DEF AskedBy
  <1>a. s \notin Lasts(q) /\ Lasts(n)' = Lasts(q) \cup {s}
    <2>1. ~Live(s)
      BY <1>4 DEF Known, Live
    <2>2. \A t \in SessionId : t # s => (Live(t)' <=> Live(t))
      BY <1>4 DEF Live
    <2> QED
      BY <1>4, <1>6, <2>1, <2>2 DEF Lasts
  <1>b. PICK o : o = session'[s].origin
    OBVIOUS
  <1>c. SignInsBy(n)' = {session[t].origin : t \in Lasts(q)} \cup {o}
    <2>1. \A t \in Lasts(q) : session'[t] = session[t]
      BY <1>4, <1>a DEF Lasts
    <2> QED
      BY <1>6, <1>a, <1>b, <2>1 DEF SignInsBy, Exchanges
  <1>d. OverdueBy(n)' = {session[t].origin : t \in {t \in Lasts(q) : session[t].expired}}
    <2>1. \A t \in Lasts(q) : session'[t] = session[t]
      BY <1>4, <1>a DEF Lasts
    <2>2. {t \in Lasts(n)' : session'[t].expired} = {t \in Lasts(q) : session[t].expired}
      BY <1>4, <1>a, <2>1
    <2> QED
      BY <1>6, <2>1, <2>2 DEF OverdueBy, Exchanges
  <1>e. Known(s)' /\ \A t \in SessionId : t # s => (Known(t)' <=> Known(t))
    BY <1>4 DEF Known, Live
  <1>f. CASE q.op = "login"
    <2>1. o = s /\ Exchanges(q) = {}
      BY <1>4, <1>b, <1>f DEF Exchanges, Exchange
    <2>2. signIns' = signIns \cup {s} /\ overdue' = overdue
      BY <1>5, <1>c, <1>d, <2>1 DEF SignInsBy, OverdueBy
    <2>3. holders[s] = "NOBODY" /\ holders' = [holders EXCEPT ![s] = q.u]
      BY <1>4, <1>b, <1>e, <2>1 DEF holders
    <2>4. PICK g : g = Asked(q)
      OBVIOUS
    <2>5. g.op = "login" /\ g.u = q.u /\ g.given = q.given
      BY <1>f, <2>4 DEF Asked
    <2>6. /\ standing[q.u].active /\ ~standing[q.u].deleted
          /\ q.given = passwords[q.u]
      BY <1>1, <1>2, <1>3, <1>f DEF TypeOK, Request, Ready, Usable, standing, passwords
    <2>7. Contract!Begin(g, s)
      BY <1>7, <1>8, <2>2, <2>3, <2>5, <2>6 DEF Contract!Begin, Contract!Usable
    <2> QED
      BY <1>9, <2>4, <2>7 DEF Contract!CNext, Contract!Decide
  <1>g. CASE q.op # "login"
    <2>1. /\ q.op = "refresh" /\ o = q.origin
          /\ o \in SessionId /\ Known(o) /\ o # s
          /\ \A t \in SessionId : Live(t) => session[t].origin # o
      BY <1>2, <1>3, <1>4, <1>b, <1>g DEF Fits, Stage, Exchanged, Going
    <2>2. Exchanges(q) = {o}
      BY <1>3, <2>1 DEF Exchanges, Exchange
    <2>3. signIns' = signIns
      BY <1>5, <1>c, <2>2 DEF SignInsBy
    <2>4. overdue' = overdue
      BY <1>5, <1>d, <2>1, <2>2 DEF OverdueBy, Lasts
    <2>5. holders' = holders
      BY <1>4, <1>b, <1>e, <2>1 DEF holders
    <2>6. Contract!Refuse
      BY <1>7, <1>8, <1>9, <2>3, <2>4, <2>5 DEF Contract!Refuse
    <2> QED
      BY <2>6 DEF Contract!CNext
  <1> QED
    BY <1>f, <1>g

\* The name of a session's sign-in bears the account of the session.
LEMMA HolderOf ==
  ASSUME Kin, NEW s \in SessionId, Live(s)
  PROVE  holders[session[s].origin] = session[s].user
  BY DEF Kin, holders, Known, Live

\* All sessions of the account end at once, with the sign-ins they belong to; when
\* the password has been replaced before, those have ended with it.
LEMMA IsSweep ==
  ASSUME SignInInv, Smooth, NEW r \in Req, RevokeOthers(r) \/ RevokeAll(r)
  PROVE  Contract!CNext \/ UNCHANGED Contract!cvars
  <1>1. PICK q, n : q = req[r] /\ n = req'[r]
    OBVIOUS
  <1>2. TypeOK /\ SerialInv /\ Fits(q) /\ Kin /\ SingleOrigin
    BY <1>1 DEF SignInInv, SessionsInv, SerialInv, Smooth
  <1>3. PICK S \in SUBSET SessionId :
          /\ SetSession(Revoked(S)) /\ n = Blank
          /\ \/ /\ q.pc = "others"
                /\ S = {s \in SessionId : session[s].user = q.u} \ {q.t}
             \/ /\ q.pc = "all"
                /\ S = {s \in SessionId : session[s].user = q.u}
    BY <1>1, <1>2, SweepShape
  <1>4. /\ UNCHANGED <<mix, account, reset, member>>
        /\ \A s \in SessionId : /\ session'[s].user = session[s].user
                                /\ session'[s].origin = session[s].origin
                                /\ session'[s].expired = session[s].expired
                                /\ Known(s)' <=> Known(s)
                                /\ Live(s)' <=> Live(s) /\ s \notin S
    BY <1>2, <1>3, RevokedOnly
  <1>5. /\ signIns = SignInsBy(q) /\ overdue = OverdueBy(q)
        /\ links = [x \in ResetId |-> LinkBy(q, x)] /\ asked = AskedBy(q)
        /\ signIns' = SignInsBy(n)' /\ overdue' = OverdueBy(n)'
        /\ links' = [x \in ResetId |-> LinkBy(n, x)'] /\ asked' = AskedBy(n)'
    BY <1>1, <1>3, Waiting, Sight, SightAfter DEF At, SessionWrites
  <1>6. holders' = holders /\ passwords' = passwords /\ standing' = standing
    BY <1>4, SameHolders DEF passwords, standing
  <1>7. ~Replacing(n) /\ n.pc = "idle" /\ Exchanges(n) = {} /\ Exchanges(q) = {}
    BY <1>3, BlankType DEF Replacing, Exchanges, Exchange
  <1>8. links' = links
    BY <1>3, <1>4, <1>5, <1>7 DEF LinkBy, Holds
  <1>9. asked' = {}
    BY <1>5, <1>7 DEF AskedBy
  <1>a. CASE q.pc = "all"
    <2>1. Lasts(n)' = Lasts(q)
      BY <1>3, <1>4, <1>7, <1>a DEF Lasts, Replacing
    <2>2. signIns' = signIns /\ overdue' = overdue
      BY <1>4, <1>5, <1>7, <2>1, SameSight
    <2>3. asked = {}
      BY <1>5, <1>a DEF AskedBy, Replacing
    <2> QED
      BY <1>6, <1>8, <1>9, <2>2, <2>3 DEF Contract!cvars
  <1>b. CASE q.pc = "others"
    <2>1. ~Replacing(q) /\ asked = {Asked(q)}
      BY <1>5, <1>b DEF AskedBy, Replacing
    <2>2. PICK g : g = Asked(q)
      OBVIOUS
    <2>3. /\ g.op = "others" /\ g.u = q.u
          /\ q.t \in SessionId => g.signIn = session[q.t].origin
      BY <1>2, <1>b, <2>2 DEF Asked, Fits, Stage, SessionId
    <2>4. PICK kept : kept = {s \in SessionId : s = q.t /\ Live(s)}
      OBVIOUS
    <2>5. PICK keep : keep = {session[s].origin : s \in kept}
      OBVIOUS
    <2>6. keep \in SUBSET {g.signIn}
      BY <2>3, <2>4, <2>5
    <2>7. Lasts(q) = {s \in SessionId : Live(s)}
      BY <2>1 DEF Lasts
    <2>8. Lasts(n)' = {s \in SessionId : Live(s) /\ (s \in kept \/ session[s].user # q.u)}
      BY <1>3, <1>4, <1>7, <1>b, <2>4 DEF Lasts
    <2>9. \A s \in SessionId : Live(s) =>
            /\ holders[session[s].origin] = session[s].user
            /\ session[s].origin \in keep <=> s \in kept
      BY <1>2, <2>4, <2>5, HolderOf DEF SingleOrigin
    <2>a. signIns' = signIns \ (Contract!Of(q.u) \ keep)
      <3>1. signIns = {session[s].origin : s \in Lasts(q)}
        BY <1>5, <1>7 DEF SignInsBy
      <3>2. signIns' = {session[s].origin : s \in Lasts(n)'}
        BY <1>4, <1>5, <1>7, <2>8 DEF SignInsBy
      <3> QED
        BY <2>7, <2>8, <2>9, <3>1, <3>2 DEF Contract!Of
    <2>b. overdue' = overdue \ (Contract!Of(q.u) \ keep)
      <3>1. overdue = {session[s].origin : s \in {s \in Lasts(q) : session[s].expired}}
        BY <1>5, <1>7 DEF OverdueBy
      <3>2. overdue' = {session[s].origin : s \in {s \in Lasts(n)' : session[s].expired}}
        <4>1. {s \in Lasts(n)' : session'[s].expired} = {s \in Lasts(n)' : session[s].expired}
          BY <1>4, <2>8
        <4> QED
          BY <1>4, <1>5, <1>7, <2>8, <4>1 DEF OverdueBy
      <3>3. signIns = {session[s].origin : s \in Lasts(q)}
        BY <1>5, <1>7 DEF SignInsBy
      <3> QED
        BY <2>7, <2>8, <2>9, <3>1, <3>2, <3>3 DEF Contract!Of
    <2>c. Contract!EndOthers(g)
      BY <1>6, <1>8, <2>3, <2>6, <2>a, <2>b DEF Contract!EndOthers, Contract!EndAll
    <2> QED
      BY <1>9, <2>1, <2>2, <2>c DEF Contract!CNext, Contract!Decide
  <1> QED
    BY <1>3, <1>a, <1>b

LEMMA IsSelect ==
  ASSUME SignInInv, Smooth, NEW r \in Req, Select(r)
  PROVE  Contract!Refuse
  <1>1. PICK q, n : q = req[r] /\ n = req'[r]
    OBVIOUS
  <1>2. TypeOK
    BY DEF SignInInv, SessionsInv
  <1>3. /\ UNCHANGED <<mix, account, reset, member>>
        /\ q.pc = "select" /\ n = Blank
        /\ \A s \in SessionId : /\ session'[s].user = session[s].user
                                /\ session'[s].origin = session[s].origin
                                /\ session'[s].expired = session[s].expired
                                /\ session'[s].state = session[s].state
    BY <1>1, <1>2, SelectShape
  <1>4. /\ signIns = SignInsBy(q) /\ overdue = OverdueBy(q)
        /\ links = [x \in ResetId |-> LinkBy(q, x)] /\ asked = AskedBy(q)
        /\ signIns' = SignInsBy(n)' /\ overdue' = OverdueBy(n)'
        /\ links' = [x \in ResetId |-> LinkBy(n, x)'] /\ asked' = AskedBy(n)'
    BY <1>1, <1>3, Waiting, Sight, SightAfter DEF At, SessionWrites
  <1>5. holders' = holders /\ passwords' = passwords /\ standing' = standing
    BY <1>3, SameHolders DEF Known, passwords, standing
  <1>6. /\ ~Replacing(n) /\ n.pc = "idle" /\ Exchanges(n) = {}
        /\ ~Replacing(q) /\ Exchanges(q) = {}
    BY <1>3, BlankType DEF Replacing, Exchanges, Exchange
  <1>7. Lasts(n)' = Lasts(q)
    BY <1>3, <1>6 DEF Lasts, Live
  <1>8. signIns' = signIns /\ overdue' = overdue
    BY <1>3, <1>4, <1>6, <1>7, SameSight
  <1>9. links' = links /\ asked' = {}
    BY <1>3, <1>4, <1>6 DEF LinkBy, Holds, AskedBy
  <1> QED
    BY <1>5, <1>8, <1>9 DEF Contract!Refuse

LEMMA IsSendLink ==
  ASSUME SignInInv, Smooth, NEW r \in Req, RequestReset(r)
  PROVE  Contract!CNext
  <1>1. PICK q, n : q = req[r] /\ n = req'[r]
    OBVIOUS
  <1>2. TypeOK /\ Fits(q) /\ Ready(q)
    BY <1>1 DEF SignInInv, SessionsInv, Smooth
  <1>3. /\ UNCHANGED <<mix, account, session, member>>
        /\ q.pc = "request" /\ n = Blank
    BY <1>1, <1>2, LinkShape
  <1>4. PICK x \in ResetId :
          /\ reset[x].state = "none"
          /\ reset' = [reset EXCEPT ![x] = [state |-> "open", user |-> q.u]]
    BY <1>1, <1>2, LinkShape
  <1>5. /\ signIns = SignInsBy(q) /\ overdue = OverdueBy(q)
        /\ links = [y \in ResetId |-> LinkBy(q, y)] /\ asked = AskedBy(q)
        /\ signIns' = SignInsBy(n)' /\ overdue' = OverdueBy(n)'
        /\ links' = [y \in ResetId |-> LinkBy(n, y)'] /\ asked' = AskedBy(n)'
    BY <1>1, <1>3, Waiting, Sight, SightAfter DEF At, OtherWrites
  <1>6. holders' = holders /\ passwords' = passwords /\ standing' = standing
    BY <1>3, SameHolders DEF Known, passwords, standing
  <1>7. /\ ~Replacing(n) /\ n.pc = "idle" /\ Exchanges(n) = {}
        /\ ~Replacing(q) /\ Exchanges(q) = {}
    BY <1>3, BlankType DEF Replacing, Exchanges, Exchange
  <1>8. Lasts(n)' = Lasts(q)
    BY <1>3, <1>7 DEF Lasts, Live
  <1>9. signIns' = signIns /\ overdue' = overdue
    BY <1>3, <1>5, <1>7, <1>8, SameSight
  <1>a. asked = {Asked(q)} /\ asked' = {}
    BY <1>3, <1>5, <1>7 DEF AskedBy
  <1>b. links[x].state = "none"
    <2>1. LinkBy(q, x).state = "none"
      BY <1>4 DEF LinkBy
    <2> QED
      BY <1>5, <2>1
  <1>c. links' = [links EXCEPT ![x] = [state |-> "open", user |-> q.u]]
    <2>1. ASSUME NEW y \in ResetId, y # x PROVE LinkBy(n, y)' = LinkBy(q, y)
      BY <1>3, <1>4, <1>7, <2>1 DEF LinkBy, Holds
    <2>2. reset'[x] = [state |-> "open", user |-> q.u]
      BY <1>2, <1>4 DEF TypeOK
    <2>3. LinkBy(n, x)' = [state |-> "open", user |-> q.u]
      BY <1>7, <2>2 DEF LinkBy, Holds
    <2> QED
      BY <1>5, <2>1, <2>3
  <1>d. PICK g : g = Asked(q)
    OBVIOUS
  <1>e. g.op = "forgot" /\ g.u = q.u
    BY <1>2, <1>3, <1>d DEF Asked, Fits, Stage
  <1>f. standing[q.u].active /\ ~standing[q.u].deleted
    BY <1>1, <1>2, <1>3 DEF TypeOK, Request, Ready, Usable, standing
  <1>g. Contract!SendLink(g, x)
    BY <1>6, <1>9, <1>b, <1>c, <1>e, <1>f DEF Contract!SendLink, Contract!Usable
  <1> QED
    BY <1>a, <1>d, <1>g DEF Contract!CNext, Contract!Decide

\* With the password, all sign-ins of the account are over, and the link is spent.
LEMMA IsNewPassword ==
  ASSUME SignInInv, Smooth, NEW r \in Req, SetPassword(r)
  PROVE  Contract!CNext
  <1>1. PICK q, n : q = req[r] /\ n = req'[r]
    OBVIOUS
  <1>2. TypeOK /\ Fits(q) /\ Ready(q) /\ Kin /\ q \in Request
    BY <1>1 DEF SignInInv, SessionsInv, Smooth, TypeOK
  <1>3. /\ UNCHANGED <<mix, session, reset, member>>
        /\ account' = [account EXCEPT ![q.u].password = q.new]
        /\ q.pc = "password" /\ Same(n, q)
        /\ n.pc = IF q.op = "reset" THEN "used" ELSE "all"
    BY <1>1, <1>2, PasswordShape
  <1>4. /\ signIns = SignInsBy(q) /\ overdue = OverdueBy(q)
        /\ links = [x \in ResetId |-> LinkBy(q, x)] /\ asked = AskedBy(q)
        /\ signIns' = SignInsBy(n)' /\ overdue' = OverdueBy(n)'
        /\ links' = [x \in ResetId |-> LinkBy(n, x)'] /\ asked' = AskedBy(n)'
    BY <1>1, <1>3, Waiting, Sight, SightAfter DEF At, OtherWrites
  <1>5. holders' = holders
    BY <1>3, SameHolders DEF Known
  <1>6. /\ Replacing(n) /\ n.u = q.u /\ Exchanges(n) = {}
        /\ ~Replacing(q) /\ Exchanges(q) = {}
    BY <1>3 DEF Same, Replacing, Exchanges, Exchange
  <1>7. asked = {Asked(q)} /\ asked' = {}
    BY <1>3, <1>4, <1>6 DEF AskedBy
  <1>8. Lasts(q) = {s \in SessionId : Live(s)}
    BY <1>6 DEF Lasts
  <1>9. Lasts(n)' = {s \in SessionId : Live(s) /\ session[s].user # q.u}
    BY <1>3, <1>6 DEF Lasts, Live
  <1>a. \A s \in SessionId : Live(s) => holders[session[s].origin] = session[s].user
    BY <1>2, HolderOf
  <1>b. signIns = {session[s].origin : s \in Lasts(q)}
    BY <1>4, <1>6 DEF SignInsBy
  <1>c. signIns' = signIns \ Contract!Of(q.u)
    <2>1. signIns' = {session[s].origin : s \in Lasts(n)'}
      BY <1>3, <1>4, <1>6, <1>9 DEF SignInsBy
    <2> QED
      BY <1>8, <1>9, <1>a, <1>b, <2>1 DEF Contract!Of
  <1>d. overdue' = overdue \ Contract!Of(q.u)
    <2>1. overdue = {session[s].origin : s \in {s \in Lasts(q) : session[s].expired}}
      BY <1>4, <1>6 DEF OverdueBy
    <2>2. overdue' = {session[s].origin : s \in {s \in Lasts(n)' : session[s].expired}}
      BY <1>3, <1>4, <1>6, <1>9 DEF OverdueBy
    <2> QED
      BY <1>8, <1>9, <1>a, <1>b, <2>1, <2>2 DEF Contract!Of
  <1>e. /\ passwords' = [passwords EXCEPT ![q.u] = q.new]
        /\ standing' = standing
    <2>1. q.u \in User /\ \A u \in User : account[u] \in Account
      BY <1>2 DEF TypeOK, Request
    <2>2. ASSUME NEW u \in User
          PROVE  /\ account'[u].active = account[u].active
                 /\ account'[u].deleted = account[u].deleted
                 /\ account'[u].password = IF u = q.u THEN q.new ELSE account[u].password
      BY <1>2, <1>3, <2>1 DEF TypeOK, Account
    <2> QED
      BY <2>1, <2>2 DEF passwords, standing
  <1>f. PICK g : g = Asked(q)
    OBVIOUS
  <1>g. /\ g.op = q.op /\ g.u = q.u /\ g.given = q.given /\ g.new = q.new /\ g.link = q.x
        /\ q.op \in {"change", "reset"}
    BY <1>2, <1>3, <1>f DEF Asked, Fits, Stage
  <1>h. Contract!NewPassword(g)
    <2>1. standing[q.u].active /\ ~standing[q.u].deleted
      BY <1>2, <1>3 DEF Request, Ready, Usable, standing
    <2> QED
      BY <1>5, <1>c, <1>d, <1>e, <1>g, <2>1
      DEF Contract!NewPassword, Contract!EndAll, Contract!Usable
  <1>i. CASE q.op = "change"
    <2>1. g.given = passwords[g.u]
      BY <1>2, <1>3, <1>g, <1>i DEF Request, Ready, passwords
    <2>2. links' = links
      BY <1>3, <1>4, <1>i DEF LinkBy, Holds, Same
    <2>3. Contract!Change(g)
      BY <1>g, <1>h, <1>i, <2>1, <2>2 DEF Contract!Change
    <2> QED
      BY <1>7, <1>f, <2>3 DEF Contract!CNext, Contract!Decide
  <1>j. CASE q.op = "reset"
    <2>1. /\ q.x \in ResetId /\ reset[q.x].state # "none" /\ reset[q.x].user = q.u
          /\ n.op = "reset" /\ n.x = q.x /\ n.pc = "used"
      BY <1>2, <1>3, <1>j DEF Fits, Same
    <2>2. links[q.x] = [state |-> "open", user |-> q.u]
      BY <1>3, <1>4, <1>j, <2>1 DEF LinkBy, Holds
    <2>3. links' = [links EXCEPT ![q.x].state = "spent"]
      <3>1. ASSUME NEW y \in ResetId, y # q.x PROVE LinkBy(n, y)' = LinkBy(q, y)
        BY <1>3, <2>1, <3>1 DEF LinkBy, Holds
      <3>2. LinkBy(n, q.x)' = [state |-> "spent", user |-> q.u]
        <4>1. /\ reset'[q.x].state # "none" /\ reset'[q.x].user = q.u
              /\ Holds(n, "used", q.x)
          BY <1>3, <2>1 DEF Holds
        <4> QED
          BY <4>1 DEF LinkBy, Holds
      <3> QED
        BY <1>4, <2>1, <2>2, <3>1, <3>2
    <2>4. Contract!Reset(g)
      BY <1>g, <1>h, <1>j, <2>2, <2>3 DEF Contract!Reset
    <2> QED
      BY <1>7, <1>f, <2>4 DEF Contract!CNext, Contract!Decide
  <1> QED
    BY <1>g, <1>i, <1>j

\* That the link has been used is known since the password was replaced.
LEMMA IsUsed ==
  ASSUME SignInInv, Smooth, NEW r \in Req, MarkUsed(r)
  PROVE  UNCHANGED Contract!cvars
  <1>1. PICK q, n : q = req[r] /\ n = req'[r]
    OBVIOUS
  <1>2. TypeOK /\ Fits(q)
    BY <1>1 DEF SignInInv, SessionsInv
  <1>3. /\ UNCHANGED <<mix, account, session, member>>
        /\ reset' = [reset EXCEPT ![q.x].state = "used"]
        /\ q.pc = "used" /\ n.pc = "all" /\ Same(n, q)
    BY <1>1, <1>2, UsedShape
  <1>4. /\ signIns = SignInsBy(q) /\ overdue = OverdueBy(q)
        /\ links = [x \in ResetId |-> LinkBy(q, x)] /\ asked = AskedBy(q)
        /\ signIns' = SignInsBy(n)' /\ overdue' = OverdueBy(n)'
        /\ links' = [x \in ResetId |-> LinkBy(n, x)'] /\ asked' = AskedBy(n)'
    BY <1>1, <1>3, Waiting, Sight, SightAfter DEF At, OtherWrites
  <1>5. holders' = holders /\ passwords' = passwords /\ standing' = standing
    BY <1>3, SameHolders DEF Known, passwords, standing
  <1>6. /\ Replacing(n) /\ Replacing(q) /\ n.u = q.u
        /\ Exchanges(n) = {} /\ Exchanges(q) = {}
    BY <1>3 DEF Same, Replacing, Exchanges, Exchange
  <1>7. Lasts(n)' = Lasts(q)
    BY <1>3, <1>6 DEF Lasts, Live
  <1>8. signIns' = signIns /\ overdue' = overdue
    BY <1>3, <1>4, <1>6, <1>7, SameSight
  <1>9. asked' = asked
    BY <1>4, <1>6 DEF AskedBy
  <1>a. links' = links
    <2>1. q.op = "reset" /\ q.x \in ResetId /\ reset[q.x].state # "none"
      BY <1>2, <1>3 DEF Fits, Stage
    <2>2. ASSUME NEW y \in ResetId, y # q.x PROVE LinkBy(n, y)' = LinkBy(q, y)
      BY <1>3, <2>2 DEF LinkBy, Holds
    <2>3. reset'[q.x].state = "used" /\ reset'[q.x].user = reset[q.x].user
      BY <1>2, <1>3, <2>1 DEF TypeOK, Reset
    <2>4. LinkBy(n, q.x)' = [state |-> "spent", user |-> reset[q.x].user]
      <3>1. ~Holds(n, "used", q.x) /\ ~Holds(n, "password", q.x)
        BY <1>3 DEF Holds
      <3> QED
        BY <2>3, <3>1 DEF LinkBy, Holds
    <2>5. LinkBy(q, q.x) = [state |-> "spent", user |-> reset[q.x].user]
      <3>1. Holds(q, "used", q.x)
        BY <1>3, <2>1 DEF Holds
      <3> QED
        BY <2>1, <3>1 DEF LinkBy
    <2> QED
      BY <1>4, <2>2, <2>4, <2>5
  <1> QED
    BY <1>5, <1>8, <1>9, <1>a DEF Contract!cvars

LEMMA IsFlags ==
  ASSUME SignInInv, Smooth, NEW r \in Req, SetFlags(r)
  PROVE  Contract!CNext
  <1>1. PICK q, n : q = req[r] /\ n = req'[r]
    OBVIOUS
  <1>2. TypeOK /\ Fits(q) /\ Ready(q) /\ q \in Request
    BY <1>1 DEF SignInInv, SessionsInv, Smooth, TypeOK
  <1>3. /\ UNCHANGED <<mix, session, reset, member>>
        /\ account' = [account EXCEPT ![q.u] =
             [account[q.u] EXCEPT !.active = q.op = "activate",
                                  !.deleted = account[q.u].deleted \/ q.op = "delete"]]
        /\ q.pc = "flag" /\ n = Blank
    BY <1>1, <1>2 DEF TypeOK, SetFlags, SetAccount, At, End
  <1>4. /\ signIns = SignInsBy(q) /\ overdue = OverdueBy(q)
        /\ links = [x \in ResetId |-> LinkBy(q, x)] /\ asked = AskedBy(q)
        /\ signIns' = SignInsBy(n)' /\ overdue' = OverdueBy(n)'
        /\ links' = [x \in ResetId |-> LinkBy(n, x)'] /\ asked' = AskedBy(n)'
    BY <1>1, <1>3, Waiting, Sight, SightAfter DEF At, OtherWrites
  <1>5. holders' = holders
    BY <1>3, SameHolders DEF Known
  <1>6. /\ ~Replacing(n) /\ n.pc = "idle" /\ Exchanges(n) = {}
        /\ ~Replacing(q) /\ Exchanges(q) = {}
    BY <1>3, BlankType DEF Replacing, Exchanges, Exchange
  <1>7. Lasts(n)' = Lasts(q)
    BY <1>3, <1>6 DEF Lasts, Live
  <1>8. signIns' = signIns /\ overdue' = overdue
    BY <1>3, <1>4, <1>6, <1>7, SameSight
  <1>9. links' = links /\ asked = {Asked(q)} /\ asked' = {}
    BY <1>3, <1>4, <1>6 DEF LinkBy, Holds, AskedBy
  <1>a. PICK g : g = Asked(q)
    OBVIOUS
  <1>b. g.op = q.op /\ g.u = q.u /\ q.op \in {"activate", "deactivate", "delete"}
    BY <1>2, <1>3, <1>a DEF Asked, Fits, Stage, Administration
  <1>c. q.u \in User /\ \A u \in User : account[u] \in Account
    BY <1>2 DEF TypeOK, Request
  <1>d. ~account[q.u].deleted
    BY <1>2, <1>3 DEF Ready
  <1>e. ASSUME NEW u \in User
        PROVE  /\ account'[u].password = account[u].password
               /\ account'[u].active =
                    IF u = q.u THEN q.op = "activate" ELSE account[u].active
               /\ account'[u].deleted =
                    IF u = q.u THEN q.op = "delete" ELSE account[u].deleted
    BY <1>2, <1>3, <1>c, <1>d DEF TypeOK, Account
  <1>f. /\ passwords' = passwords /\ ~standing[q.u].deleted
        /\ standing' = [standing EXCEPT ![q.u] = [active |-> q.op = "activate",
                                                  deleted |-> q.op = "delete"]]
    BY <1>c, <1>d, <1>e DEF passwords, standing
  <1>g. Contract!SetFlags(g)
    BY <1>5, <1>8, <1>9, <1>b, <1>f DEF Contract!SetFlags
  <1> QED
    BY <1>9, <1>a, <1>g DEF Contract!CNext, Contract!Decide

\* What is seen while no request moves: the one under way, or none.
LEMMA Onlooker ==
  ASSUME SignInInv, Smooth, req' = req
  PROVE  \E q : /\ Fits(q)
                /\ signIns = SignInsBy(q) /\ overdue = OverdueBy(q)
                /\ links = [x \in ResetId |-> LinkBy(q, x)] /\ asked = AskedBy(q)
                /\ signIns' = SignInsBy(q)' /\ overdue' = OverdueBy(q)'
                /\ links' = [x \in ResetId |-> LinkBy(q, x)'] /\ asked' = AskedBy(q)'
  <1> DEFINE Seen(q) ==
        /\ signIns = SignInsBy(q) /\ overdue = OverdueBy(q)
        /\ links = [x \in ResetId |-> LinkBy(q, x)] /\ asked = AskedBy(q)
        /\ signIns' = SignInsBy(q)' /\ overdue' = OverdueBy(q)'
        /\ links' = [x \in ResetId |-> LinkBy(q, x)'] /\ asked' = AskedBy(q)'
  <1> SUFFICES \E q : Fits(q) /\ Seen(q)
    OBVIOUS
  <1>1. CASE \E r \in Req : ~At(r, "idle")
    <2>1. PICK r \in Req : ~At(r, "idle")
      BY <1>1
    <2>2. PICK q : q = req[r] /\ q = req'[r]
      OBVIOUS
    <2>3. \A o \in Req : o # r => req[o].pc = "idle" /\ req'[o].pc = "idle"
      BY <2>1 DEF SignInInv, SerialInv, Smooth, OneByOne, At
    <2>4. Fits(q)
      BY <2>2 DEF SignInInv
    <2>5. Seen(q)
      BY <2>2, <2>3, Sight, SightAfter
    <2> HIDE DEF Seen
    <2> QED
      BY <2>4, <2>5
  <1>2. CASE \A r \in Req : At(r, "idle")
    <2>1. \A r \in Req : req[r].pc = "idle" /\ ~Replacing(req[r]) /\ ~Exchange(req[r])
      BY <1>2 DEF At, Replacing, Exchange
    <2>2. PICK q : q = Blank
      OBVIOUS
    <2>3. /\ q.pc = "idle" /\ ~Replacing(q) /\ ~Exchange(q)
          /\ \A x : ~Holds(q, "used", x) /\ ~Holds(q, "password", x)
      BY <2>2, BlankType DEF Replacing, Exchange, Holds
    <2>4. \A x \in ResetId : ~Holding(x, "used") /\ ~Holding(x, "password")
      BY <2>1 DEF Holding, At
    <2>5. \A x \in ResetId : ~Holding(x, "used")' /\ ~Holding(x, "password")'
      BY <2>1 DEF Holding, At
    <2>6. InForce = Lasts(q) /\ InExchange = Exchanges(q) /\ asked = AskedBy(q)
      BY <2>1, <2>3 DEF InForce, Ending, Lasts, InExchange, Exchanges, asked, AskedBy, At
    <2>7. InForce' = Lasts(q)' /\ InExchange' = Exchanges(q) /\ asked' = AskedBy(q)'
      BY <2>1, <2>3 DEF InForce, Ending, Lasts, InExchange, Exchanges, asked, AskedBy, At,
                        Replacing, Exchange
    <2>8. links = [x \in ResetId |-> LinkBy(q, x)]
      BY <2>3, <2>4 DEF links, LinkBy
    <2>9. links' = [x \in ResetId |-> LinkBy(q, x)']
      BY <2>3, <2>5 DEF links, LinkBy, Holds
    <2>a. Seen(q)
      BY <2>6, <2>7, <2>8, <2>9 DEF signIns, overdue, SignInsBy, OverdueBy, Exchanges
    <2>b. Fits(q)
      BY <2>2, BlankType DEF Blank, Fits, Stage, Exchange
    <2> HIDE DEF Seen
    <2> QED
      BY <2>a, <2>b
  <1> QED
    BY <1>1, <1>2 DEF At

\* Time passes also while a request is under way; one that has found its session
\* or its link in time goes on.
LEMMA IsPassing ==
  ASSUME SignInInv, Smooth, Environment \/ UNCHANGED vars
  PROVE  Contract!Lapse \/ UNCHANGED Contract!cvars
  <1>1. TypeOK /\ SingleOrigin
    BY DEF SignInInv, SessionsInv, SerialInv, Smooth
  <1>2. UNCHANGED <<account, req>>
    BY DEF Environment, ExpireSession, ExpireReset, ChangeMembership, SetSession,
           SetReset, vars
  <1>3. PICK q : /\ Fits(q)
                 /\ signIns = SignInsBy(q) /\ overdue = OverdueBy(q)
                 /\ links = [x \in ResetId |-> LinkBy(q, x)] /\ asked = AskedBy(q)
                 /\ signIns' = SignInsBy(q)' /\ overdue' = OverdueBy(q)'
                 /\ links' = [x \in ResetId |-> LinkBy(q, x)'] /\ asked' = AskedBy(q)'
    BY <1>2, Onlooker
  <1>4. passwords' = passwords /\ standing' = standing
    BY <1>2 DEF passwords, standing
  <1>5. ASSUME NEW s \in SessionId, ExpireSession(s)
        PROVE  Contract!Lapse \/ UNCHANGED Contract!cvars
    <2>1. /\ Live(s) /\ ~session[s].expired /\ reset' = reset
          /\ session'[s].expired
          /\ \A t \in SessionId : /\ session'[t].user = session[t].user
                                  /\ session'[t].origin = session[t].origin
                                  /\ session'[t].state = session[t].state
                                  /\ t # s => session'[t].expired = session[t].expired
      BY <1>1, <1>5 DEF ExpireSession, SetSession, TypeOK, Session
    <2>2. holders' = holders
      BY <2>1, SameHolders DEF Known
    <2>3. links' = links
      BY <1>3, <2>1 DEF LinkBy, Holds
    <2>4. asked' = asked
      <3>1. CASE q.pc = "idle"
        BY <1>3, <3>1 DEF AskedBy
      <3>2. CASE q.pc # "idle"
        <4>1. Asked(q)' = Asked(q)
          BY <1>3, <2>1, <3>2 DEF Asked, Fits
        <4> QED
          BY <1>3, <4>1 DEF AskedBy
      <3> QED
        BY <3>1, <3>2
    <2>5. Lasts(q)' = Lasts(q)
      BY <2>1 DEF Lasts, Live
    <2>6. PICK F : F = Lasts(q) /\ F = Lasts(q)'
      BY <2>5
    <2>7. PICK o : o = session[s].origin
      OBVIOUS
    <2>8. F \subseteq SessionId /\ \A t \in F : Live(t)
      BY <2>6 DEF Lasts
    <2>9. signIns' = signIns
      BY <1>3, <2>1, <2>6, <2>8 DEF SignInsBy, Exchanges
    <2>a. overdue = {session[t].origin : t \in {t \in F : session[t].expired}} \ Exchanges(q)
      BY <1>3, <2>6 DEF OverdueBy
    <2>b. overdue' = {session[t].origin : t \in {t \in F : session[t].expired \/ t = s}}
                       \ Exchanges(q)
      <3>1. {t \in F : session'[t].expired} = {t \in F : session[t].expired \/ t = s}
        BY <2>1, <2>8
      <3>2. overdue' = {session'[t].origin : t \in {t \in F : session'[t].expired}}
                         \ Exchanges(q)
        BY <1>3, <2>6 DEF OverdueBy, Exchanges
      <3> QED
        BY <2>1, <2>8, <3>1, <3>2
    <2>c. CASE s \in F /\ o \notin Exchanges(q)
      <3>1. o \in signIns
        BY <1>3, <2>6, <2>7, <2>c DEF SignInsBy
      <3>2. o \notin overdue
        BY <1>1, <2>1, <2>7, <2>8, <2>a DEF SingleOrigin
      <3>3. overdue' = overdue \cup {o}
        BY <2>7, <2>a, <2>b, <2>c
      <3> QED
        BY <1>4, <2>2, <2>3, <2>4, <2>9, <3>1, <3>2, <3>3 DEF Contract!Lapse
    <2>d. CASE ~(s \in F /\ o \notin Exchanges(q))
      <3>1. overdue' = overdue
        BY <2>7, <2>a, <2>b, <2>d
      <3> QED
        BY <1>4, <2>2, <2>3, <2>4, <2>9, <3>1 DEF Contract!cvars
    <2> QED
      BY <2>c, <2>d
  <1>6. ASSUME session' = session
        PROVE  /\ holders' = holders /\ asked' = asked
               /\ signIns' = signIns /\ overdue' = overdue
    <2>1. holders' = holders /\ AskedBy(q)' = AskedBy(q)
      BY <1>6, SameHolders DEF Known, AskedBy, Asked
    <2>2. Lasts(q)' = Lasts(q)
      BY <1>6 DEF Lasts, Live
    <2> QED
      BY <1>3, <1>6, <2>1, <2>2, SameSight
  <1>7. ASSUME NEW x \in ResetId, ExpireReset(x)
        PROVE  Contract!Lapse \/ UNCHANGED Contract!cvars
    <2>1. /\ session' = session
          /\ reset[x].state = "open" /\ reset'[x].state = "expired"
          /\ reset'[x].user = reset[x].user
          /\ \A y \in ResetId : y # x => reset'[y] = reset[y]
      BY <1>1, <1>7 DEF ExpireReset, SetReset, TypeOK, Reset
    <2>2. \A y \in ResetId : y # x => LinkBy(q, y)' = LinkBy(q, y)
      BY <2>1 DEF LinkBy, Holds
    <2>3. CASE Holds(q, "used", x) \/ Holds(q, "password", x)
      <3>1. LinkBy(q, x)' = LinkBy(q, x)
        BY <2>1, <2>3 DEF LinkBy, Holds
      <3>2. links' = links
        BY <1>3, <2>2, <3>1
      <3> QED
        BY <1>4, <1>6, <2>1, <3>2 DEF Contract!cvars
    <2>4. CASE ~Holds(q, "used", x) /\ ~Holds(q, "password", x)
      <3>1. /\ LinkBy(q, x) = [state |-> "open", user |-> reset[x].user]
            /\ LinkBy(q, x)' = [state |-> "spent", user |-> reset[x].user]
        BY <2>1, <2>4 DEF LinkBy, Holds
      <3>2. links[x].state = "open" /\ links' = [links EXCEPT ![x].state = "spent"]
        BY <1>3, <2>2, <3>1
      <3> QED
        BY <1>4, <1>6, <2>1, <3>2 DEF Contract!Lapse
    <2> QED
      BY <2>3, <2>4
  <1>8. CASE session' = session /\ reset' = reset
    <2>1. links' = links
      BY <1>3, <1>8 DEF LinkBy, Holds
    <2> QED
      BY <1>4, <1>6, <1>8, <2>1 DEF Contract!cvars
  <1> QED
    BY <1>5, <1>7, <1>8 DEF Environment, ChangeMembership, vars

LEMMA ContractStep ==
  ASSUME SignInInv, SignInInv', [Next]_vars
  PROVE  [Smooth => Contract!CNext]_(Contract!cvars)
  <1> SUFFICES ASSUME Smooth PROVE Contract!CNext \/ UNCHANGED Contract!cvars
    OBVIOUS
  <1>1. CASE Environment \/ UNCHANGED vars
    BY <1>1, IsPassing DEF Contract!CNext
  <1>2. ASSUME NEW r \in Req,
               Arrivals(r) \/ Lookups(r) \/ SessionWrites(r) \/ OtherWrites(r) \/ Fail(r)
        PROVE  Contract!CNext \/ UNCHANGED Contract!cvars
    <2>1. CASE Arrivals(r)
      BY <2>1, IsAsk DEF SignInInv, SessionsInv
    <2>2. CASE Lookups(r)
      BY <2>2, IsLookup DEF Contract!CNext
    <2>3. CASE SessionWrites(r)
      BY <2>3, IsRevoke, IsIssue, IsSweep, IsSelect DEF SessionWrites, Contract!CNext
    <2>4. CASE OtherWrites(r)
      BY <2>4, IsSendLink, IsNewPassword, IsUsed, IsFlags DEF OtherWrites
    <2>5. ~Fail(r)
      BY DEF Fail, Smooth
    <2> QED
      BY <1>2, <2>1, <2>2, <2>3, <2>4, <2>5
  <1> QED
    BY <1>1, <1>2 DEF Next

LEMMA ContractBegins == Init => Contract!CInit
  <1> SUFFICES ASSUME Init PROVE Contract!CInit
    OBVIOUS
  <1>1. SomePassword \in Password
    BY DEF SomePassword
  <1>2. \A u \in User : /\ account[u].password = SomePassword
                        /\ account[u].active = TRUE /\ account[u].deleted = FALSE
    BY DEF Init
  <1>3. \A r \in Req : At(r, "idle") /\ ~Exchange(req[r])
    BY BlankType DEF Init, At, Exchange
  <1>4. \A s \in SessionId : ~Known(s) /\ ~Live(s)
    BY DEF Init, Known, Live
  <1>5. passwords \in [User -> Password]
    BY <1>1, <1>2 DEF passwords
  <1>6. standing = [u \in User |-> [active |-> TRUE, deleted |-> FALSE]]
    BY <1>2 DEF standing
  <1>7. holders = [s \in SessionId |-> "NOBODY"]
    BY <1>4 DEF holders
  <1>8. InForce = {} /\ InExchange = {} /\ asked = {}
    BY <1>3, <1>4 DEF InForce, InExchange, asked
  <1>9. signIns = {} /\ overdue = {}
    BY <1>8 DEF signIns, overdue
  <1>a. \A x \in ResetId : links[x].state = "none"
    BY DEF Init, links
  <1> QED
    BY <1>5, <1>6, <1>7, <1>8, <1>9, <1>a DEF Contract!CInit

\* Requests that neither overlap nor are cut off do what the contract of sessions
\* and passwords says, however many accounts, sign-ins, links and requests there are.
THEOREM SignInsKeepTheContract == Spec => KeepsContract
  <1>1. SignInInv /\ SignInInv' /\ [Next]_vars =>
          [~mix.overlap /\ ~mix.crash => Contract!CNext]_(Contract!cvars)
    BY ContractStep DEF Smooth
  <1> QED
    BY InitSignIn, NextSignIn, ContractBegins, <1>1, PTL DEF Spec, KeepsContract

=============================================================================
