------------------------------- MODULE Sessions -------------------------------
(***************************************************************************)
(* Sessions and passwords: sign-in, rotation of refresh tokens, sign-out   *)
(* and revocation, forgotten and changed passwords, the workspace that a   *)
(* session has selected, and the suspension and deletion of accounts.      *)
(*                                                                         *)
(* A session row stands for its refresh token: the token holds its id, the *)
(* row the hash of the token.  An access token names its session and is    *)
(* accepted for as long as it lasts, whatever became of the row.  As in    *)
(* Workspaces, a request stops at every database statement.                *)
(***************************************************************************)
EXTENDS Naturals

CONSTANTS
    User,        \* accounts, verified and without a second factor
    Password,
    Workspace,
    NoWorkspace,
    MaxSession,  \* bound: Session rows
    MaxReset,    \* bound: PasswordReset rows
    Req,         \* requests that can be in flight at the same time
    Mix          \* the ways in which requests come

Operation == {"login", "logout", "refresh", "revoke", "others", "forgot",
              "reset", "change", "select", "activate", "deactivate", "delete"}
Administration == {"activate", "deactivate", "delete"}

ASSUME SessionsAssumption ==
    /\ User # {} /\ Password # {}
    /\ NoWorkspace \notin Workspace
    /\ MaxSession \in Nat /\ MaxReset \in Nat
    /\ Mix \subseteq [ops : SUBSET Operation,   \* the operations that are called
                      callers : SUBSET User,    \* for these accounts,
                      overlap : BOOLEAN,        \* at the same time,
                      crash : BOOLEAN]          \* and may be cut off

VARIABLES
    mix,      \* how requests come in this behaviour
    account,  \* User rows
    session,  \* Session rows, in the order of their creation
    reset,    \* PasswordReset rows
    member,   \* the workspaces of which an account is an active member
    req       \* the requests

vars == <<mix, account, session, reset, member, req>>

SessionId == 1..MaxSession
ResetId == 1..MaxReset

Account == [password : Password, active : BOOLEAN, deleted : BOOLEAN]

\* "origin" and "with" are history: the session of the sign-in that this one
\* continues, and the password given there.
Session == [state : {"none", "live", "revoked"}, expired : BOOLEAN, user : User,
            ws : Workspace \cup {NoWorkspace}, origin : 0..MaxSession,
            with : Password]

Reset == [state : {"none", "open", "used", "expired"}, user : User]

Label == {"idle", "account", "session", "reset", "latest", "member", "issue",
          "revoke", "others", "all", "request", "password", "used", "select",
          "admin", "flag"}

Request == [pc : Label, op : Operation, u : User,
            t : 0..MaxSession,   \* the session concerned
            x : 0..MaxReset,     \* the reset token presented
            given : Password, new : Password,
            ws : Workspace \cup {NoWorkspace},
            origin : 0..MaxSession, with : Password]  \* of the session to issue

SomePassword == CHOOSE p \in Password : TRUE
SomeUser == CHOOSE u \in User : TRUE

Blank == [pc |-> "idle", op |-> "login", u |-> SomeUser, t |-> 0, x |-> 0,
          given |-> SomePassword, new |-> SomePassword, ws |-> NoWorkspace,
          origin |-> 0, with |-> SomePassword]

Known(s) == session[s].state # "none"
Live(s) == session[s].state = "live"
Usable(u) == account[u].active /\ ~account[u].deleted

Init ==
    /\ mix \in Mix
    /\ account = [u \in User |-> [password |-> SomePassword, active |-> TRUE,
                                  deleted |-> FALSE]]
    /\ session = [s \in SessionId |->
                    [state |-> "none", expired |-> FALSE, user |-> SomeUser,
                     ws |-> NoWorkspace, origin |-> 0, with |-> SomePassword]]
    /\ reset = [x \in ResetId |-> [state |-> "none", user |-> SomeUser]]
    /\ member = [u \in User |-> Workspace]
    /\ req = [r \in Req |-> Blank]

-----------------------------------------------------------------------------
(* Steps of a handler                                                      *)

At(r, label) == req[r].pc = label

Goto(r, label) == req' = [req EXCEPT ![r].pc = label]

End(r) == req' = [req EXCEPT ![r] = Blank]

Quiet == \A r \in Req : At(r, "idle")

Arrive(r, op, first) ==
    /\ op \in mix.ops /\ first.u \in mix.callers
    /\ At(r, "idle")
    /\ mix.overlap \/ Quiet
    /\ req' = [req EXCEPT ![r] = [first EXCEPT !.op = op]]
    /\ UNCHANGED <<mix, account, session, reset, member>>

\* A read and the checks on what it returned, which throw when they fail.
Read(r, label, ok, next) ==
    /\ At(r, label)
    /\ req' = [req EXCEPT ![r] = IF ok THEN next ELSE Blank]
    /\ UNCHANGED <<mix, account, session, reset, member>>

SetSession(value) ==
    /\ session' = value
    /\ UNCHANGED <<mix, account, reset, member>>

SetAccount(u, value) ==
    /\ account' = [account EXCEPT ![u] = value]
    /\ UNCHANGED <<mix, session, reset, member>>

SetReset(x, value) ==
    /\ reset' = [reset EXCEPT ![x] = value]
    /\ UNCHANGED <<mix, account, session, member>>

Revoked(S) ==
    [s \in SessionId |-> IF s \in S /\ Live(s)
                         THEN [session[s] EXCEPT !.state = "revoked"]
                         ELSE session[s]]

-----------------------------------------------------------------------------
(* Mutants: operators below with a bug a change of the code could bring in. *)
(* No action uses them; each must break the property named with it.         *)

\* Does not look at isRevoked.  (Inv)
AcceptsRevoked(q) ==
    /\ Known(q.t)
    /\ q.op \in {"logout", "revoke"} => session[q.t].user = q.u
    /\ q.op = "refresh" => ~session[q.t].expired

\* Does not ask whether the link has been used.  (KeepsContract)
FindAnyReset(r) ==
    LET q == req[r]
    IN  Read(r, "reset", Usable(reset[q.x].user), [q EXCEPT !.pc = "password"])

\* Leaves the sessions as they are.  (SessionsKnowThePassword)
RevokeNothing(r) ==
    /\ At(r, "all")
    /\ End(r)
    /\ UNCHANGED <<mix, account, session, reset, member>>

\* Forgets the account in the condition of updateMany.  (EndedByTheirOwner)
RevokeEverybodysOthers(r) ==
    /\ At(r, "others")
    /\ SetSession(Revoked(SessionId \ {req[r].t}))
    /\ End(r)

\* Issues the session under a name that is not a user's.  (Inv)
IssueForNobody(r) ==
    \E s \in SessionId :
        /\ At(r, "issue") /\ ~Known(s)
        /\ \A t \in SessionId : t < s => Known(t)
        /\ SetSession([session EXCEPT ![s] =
             [state |-> "live", expired |-> FALSE, user |-> NoWorkspace,
              ws |-> req[r].ws, origin |-> s, with |-> req[r].with]])
        /\ End(r)

-----------------------------------------------------------------------------
(* Arrivals: the routes and JwtAuthGuard, which asks for an access token   *)

SignedIn(u) == \E s \in SessionId : Known(s) /\ session[s].user = u

LoginArrive(r) ==
    \E u \in User, p \in Password :
        Arrive(r, "login", [Blank EXCEPT !.pc = "account", !.u = u, !.given = p])

ForgotArrive(r) ==
    \E u \in User :
        Arrive(r, "forgot", [Blank EXCEPT !.pc = "account", !.u = u])

ChangeArrive(r) ==
    \E u \in User, p, n \in Password :
        /\ SignedIn(u)
        /\ Arrive(r, "change", [Blank EXCEPT !.pc = "account", !.u = u,
                                             !.given = p, !.new = n])

ResetArrive(r) ==
    \E x \in ResetId, n \in Password :
        /\ reset[x].state # "none"
        /\ Arrive(r, "reset", [Blank EXCEPT !.pc = "reset", !.x = x, !.new = n,
                                            !.u = reset[x].user])

\* The refresh token is enough for refresh.
RefreshArrive(r) ==
    \E t \in SessionId :
        /\ Known(t)
        /\ Arrive(r, "refresh", [Blank EXCEPT !.pc = "session", !.t = t,
                                              !.u = session[t].user])

\* An account presents some refresh token, or names some session.
EndArrive(r) ==
    \E op \in {"logout", "revoke"}, u \in User, t \in SessionId :
        /\ SignedIn(u) /\ Known(t)
        /\ Arrive(r, op, [Blank EXCEPT !.pc = "session", !.u = u, !.t = t])

OthersArrive(r) ==
    \E t \in SessionId :
        /\ Known(t)
        /\ Arrive(r, "others", [Blank EXCEPT !.pc = "others", !.t = t,
                                             !.u = session[t].user])

SelectArrive(r) ==
    \E t \in SessionId, w \in Workspace :
        /\ Known(t)
        /\ Arrive(r, "select", [Blank EXCEPT !.pc = "session", !.t = t, !.ws = w,
                                             !.u = session[t].user])

AdminArrive(r) ==
    \E op \in Administration, u \in User :
        Arrive(r, op, [Blank EXCEPT !.pc = "admin", !.u = u])

-----------------------------------------------------------------------------
(* Look-ups                                                                *)

\* findUserByEmail and getActiveUserOrThrow, and the checks that follow them;
\* forgotPassword answers the same whether the account is usable or not.
FindAccount(r) ==
    LET q == req[r]
    IN  Read(r, "account",
             /\ Usable(q.u)
             /\ q.op \in {"login", "change"} => account[q.u].password = q.given,
             [q EXCEPT !.with = q.given,
                       !.pc = CASE q.op = "login" -> "latest"
                                [] q.op = "forgot" -> "request"
                                [] OTHER -> "password"])

\* findSessionByHash, findSessionById and findSessionContextById with their
\* checks: logout and revoke ask whose session it is, not whether it lives.
Accepts(q) ==
    /\ Known(q.t)
    /\ q.op \in {"logout", "revoke"} => session[q.t].user = q.u
    /\ q.op \in {"refresh", "select"} => Live(q.t)
    /\ q.op = "refresh" => ~session[q.t].expired

FindSession(r) ==
    LET q == req[r]
        s == session[q.t]
    IN  Read(r, "session",
             /\ Accepts(q)
             /\ q.op = "revoke" => Live(q.t),
             CASE q.op = "refresh" ->
                    [q EXCEPT !.pc = "revoke", !.ws = s.ws, !.origin = s.origin,
                              !.with = s.with]
               [] q.op = "select" -> [q EXCEPT !.pc = "member"]
               [] OTHER -> [q EXCEPT !.pc = "revoke"])

FindReset(r) ==
    LET q == req[r]
    IN  Read(r, "reset",
             reset[q.x].state = "open" /\ Usable(reset[q.x].user),
             [q EXCEPT !.pc = "password"])

\* findLatestWorkspaceSelectionSession: any session of the account, the newest
\* that has a workspace.
FindLatest(r) ==
    LET q == req[r]
        chosen == {s \in SessionId : Known(s) /\ session[s].user = q.u
                                              /\ session[s].ws # NoWorkspace}
    IN  \/ /\ chosen = {}
           /\ Read(r, "latest", TRUE, [q EXCEPT !.pc = "issue"])
        \/ \E s \in chosen :
           /\ \A t \in chosen : t <= s
           /\ Read(r, "latest", TRUE,
                   [q EXCEPT !.pc = "member", !.ws = session[s].ws])

\* A session may be issued without the workspace; a selection is refused.
FindMember(r) ==
    LET q == req[r]
        active == q.ws \in member[q.u]
    IN  Read(r, "member", q.op = "select" => active,
             IF q.op = "select" THEN [q EXCEPT !.pc = "select"]
             ELSE [q EXCEPT !.pc = "issue", !.ws = IF active THEN @ ELSE NoWorkspace])

\* getExistingUserOrThrow: suspending, activating and deleting all ask that the
\* account has not been deleted.
FindUser(r) ==
    Read(r, "admin", ~account[req[r].u].deleted, [req[r] EXCEPT !.pc = "flag"])

-----------------------------------------------------------------------------
(* Writes                                                                  *)

\* refresh goes on to issue a session, for the workspace of the old one or else
\* for the latest selection of the account.
Revoke(r) ==
    LET q == req[r]
    IN  /\ At(r, "revoke")
        /\ SetSession(Revoked({q.t}))
        /\ IF q.op # "refresh" THEN End(r)
           ELSE Goto(r, IF q.ws = NoWorkspace THEN "latest" ELSE "member")

\* issueTokenPair
Issue(r) ==
    \E s \in SessionId :
        /\ At(r, "issue")
        /\ ~Known(s) /\ \A t \in SessionId : t < s => Known(t)
        /\ SetSession([session EXCEPT ![s] =
             [state |-> "live", expired |-> FALSE, user |-> req[r].u,
              ws |-> req[r].ws, with |-> req[r].with,
              origin |-> IF req[r].op = "login" THEN s ELSE req[r].origin]])
        /\ End(r)

\* All sessions of the account but the one that asks, by one statement.
RevokeOthers(r) ==
    LET q == req[r]
    IN  /\ At(r, "others")
        /\ SetSession(Revoked({s \in SessionId : session[s].user = q.u} \ {q.t}))
        /\ End(r)

RevokeAll(r) ==
    /\ At(r, "all")
    /\ SetSession(Revoked({s \in SessionId : session[s].user = req[r].u}))
    /\ End(r)

Select(r) ==
    /\ At(r, "select")
    /\ SetSession([session EXCEPT ![req[r].t].ws = req[r].ws])
    /\ End(r)

RequestReset(r) ==
    \E x \in ResetId :
        /\ At(r, "request")
        /\ reset[x].state = "none"
        /\ SetReset(x, [state |-> "open", user |-> req[r].u])
        /\ End(r)

SetPassword(r) ==
    LET q == req[r]
    IN  /\ At(r, "password")
        /\ SetAccount(q.u, [account[q.u] EXCEPT !.password = q.new])
        /\ Goto(r, IF q.op = "reset" THEN "used" ELSE "all")

MarkUsed(r) ==
    /\ At(r, "used")
    /\ SetReset(req[r].x, [reset[req[r].x] EXCEPT !.state = "used"])
    /\ Goto(r, "all")

\* activateUser, deactivateUser and softDeleteUser; no session is touched.
SetFlags(r) ==
    LET q == req[r]
        a == account[q.u]
    IN  /\ At(r, "flag")
        /\ SetAccount(q.u, [a EXCEPT !.active = q.op = "activate",
                                     !.deleted = a.deleted \/ q.op = "delete"])
        /\ End(r)

-----------------------------------------------------------------------------

Fail(r) ==
    /\ mix.crash
    /\ ~At(r, "idle")
    /\ End(r)
    /\ UNCHANGED <<mix, account, session, reset, member>>

\* Time passes; and the account enters or leaves a workspace.
ExpireSession(s) ==
    /\ Live(s) /\ ~session[s].expired
    /\ SetSession([session EXCEPT ![s].expired = TRUE])
    /\ UNCHANGED req

ExpireReset(x) ==
    /\ reset[x].state = "open"
    /\ SetReset(x, [reset[x] EXCEPT !.state = "expired"])
    /\ UNCHANGED req

ChangeMembership(u, w) ==
    /\ "select" \in mix.ops
    /\ member' = [member EXCEPT ![u] = IF w \in @ THEN @ \ {w} ELSE @ \cup {w}]
    /\ UNCHANGED <<mix, account, session, reset, req>>

Arrivals(r) ==
    \/ LoginArrive(r) \/ ForgotArrive(r) \/ ChangeArrive(r) \/ ResetArrive(r)
    \/ RefreshArrive(r) \/ EndArrive(r) \/ OthersArrive(r) \/ SelectArrive(r)
    \/ AdminArrive(r)

Lookups(r) ==
    \/ FindAccount(r) \/ FindSession(r) \/ FindReset(r) \/ FindLatest(r)
    \/ FindMember(r) \/ FindUser(r)

SessionWrites(r) ==
    Revoke(r) \/ Issue(r) \/ RevokeOthers(r) \/ RevokeAll(r) \/ Select(r)

OtherWrites(r) == RequestReset(r) \/ SetPassword(r) \/ MarkUsed(r) \/ SetFlags(r)

Environment ==
    \/ \E s \in SessionId : ExpireSession(s)
    \/ \E x \in ResetId : ExpireReset(x)
    \/ \E u \in User, w \in Workspace : ChangeMembership(u, w)

Next ==
    \/ Environment
    \/ \E r \in Req :
         Arrivals(r) \/ Lookups(r) \/ SessionWrites(r) \/ OtherWrites(r) \/ Fail(r)

Spec == Init /\ [][Next]_vars

-----------------------------------------------------------------------------

TypeOK ==
    /\ mix \in Mix
    /\ account \in [User -> Account]
    /\ session \in [SessionId -> Session]
    /\ reset \in [ResetId -> Reset]
    /\ member \in [User -> SUBSET Workspace]
    /\ req \in [Req -> Request]

\* With refreshes that do not overlap, a sign-in has one live session at most:
\* a refresh token that was exchanged is dead, also when the exchange was cut
\* off in the middle.
OneLivePerSignIn ==
    ~mix.overlap =>
        \A s, t \in SessionId :
            Live(s) /\ Live(t) /\ session[s].origin = session[t].origin => s = t

\* What the rows of sessions and accounts keep to, also when requests are cut off.
Inv == TypeOK /\ OneLivePerSignIn

\* Between requests, every live session goes back to a sign-in with the
\* password the account has now: a changed or reset password ends all others,
\* and a refresh hands nothing on.
SessionsKnowThePassword ==
    ~mix.overlap /\ ~mix.crash /\ Quiet =>
        \A s \in SessionId :
            Live(s) => session[s].with = account[session[s].user].password

\* Whatever overlaps or fails, a session is ended by a request of its own
\* account, or by the refresh that presents its token; and it does not come back.
EndedByTheirOwner ==
    [][\A s \in SessionId :
         /\ Live(s) /\ ~Live(s)' =>
              \E r \in Req : /\ req[r].u = session[s].user
                             /\ req[r].pc \in {"revoke", "others", "all"}
                             /\ req[r].pc = "revoke" => req[r].t = s
                             /\ req[r].pc = "others" => req[r].t # s
         /\ session[s].state = "revoked" => ~Live(s)']_vars

-----------------------------------------------------------------------------
(* The contract: a sign-in is in force while one of its sessions is, and    *)
(* while a refresh has ended one and not yet issued the next.  A request    *)
(* for a new password counts as done when it has set the password: from     *)
(* then on it is busy ending the sessions of its account.                   *)

Replacing(q) == q.pc \in {"used", "all"}

Exchange(q) == q.op = "refresh" /\ q.pc \in {"revoke", "latest", "member", "issue"}

Ending(u) == \E r \in Req : Replacing(req[r]) /\ req[r].u = u

InExchange == {req[r].origin : r \in {r \in Req : Exchange(req[r])}}

InForce == {s \in SessionId : Live(s) /\ ~Ending(session[s].user)}

signIns == {session[s].origin : s \in InForce} \cup InExchange

\* A session that has been found in time lets its exchange pass.
overdue == {session[s].origin : s \in {s \in InForce : session[s].expired}} \ InExchange

passwords == [u \in User |-> account[u].password]

standing ==
    [u \in User |-> [active |-> account[u].active, deleted |-> account[u].deleted]]

\* The session that a sign-in has issued bears its name.
holders ==
    [s \in SessionId |-> IF Known(s) /\ session[s].origin = s THEN session[s].user
                                                            ELSE "NOBODY"]

Holding(x, label) ==
    \E r \in Req : req[r].op = "reset" /\ At(r, label) /\ req[r].x = x

\* A link that has been found open lets its request pass.
links ==
    [x \in ResetId |->
        [user |-> reset[x].user,
         state |-> IF reset[x].state = "none" THEN "none"
                   ELSE IF /\ reset[x].state = "open" \/ Holding(x, "password")
                           /\ ~Holding(x, "used")
                        THEN "open" ELSE "spent"]]

Asked(q) ==
    [op |-> q.op, u |-> q.u, given |-> q.given, new |-> q.new, link |-> q.x,
     signIn |-> IF q.t = 0 THEN 0 ELSE session[q.t].origin]

asked == {Asked(req[r]) : r \in {r \in Req : ~At(r, "idle") /\ ~Replacing(req[r])}}

Contract == INSTANCE SignInContract WITH
    SignIn <- SessionId,
    Link <- ResetId,
    Request <- [op : Operation, u : User, given : Password, new : Password,
                link : 0..MaxReset, signIn : 0..MaxSession],
    password <- passwords,
    flags <- standing,
    holder <- holders,
    inForce <- signIns,
    lapsed <- overdue,
    link <- links,
    asking <- asked

\* Requests that neither overlap nor are cut off do what the contract says: with
\* refreshes a sign-in goes on for as long as its tokens last, and it ends by its
\* own account, with every new password, and together with no other.
KeepsContract ==
    /\ Contract!CInit
    /\ [][~mix.overlap /\ ~mix.crash => Contract!CNext]_(Contract!cvars)

=============================================================================
