------------------------------ MODULE Accounts ------------------------------
(***************************************************************************)
(* How accounts come to be and how their addresses are verified: the       *)
(* registration with a password, the verification e-mails, and the sign-in *)
(* by an OAuth provider, which may create an account or attach itself to   *)
(* the one that has the address; and their telephone numbers, which nobody *)
(* looks up but which belong to one account each.                          *)
(*                                                                         *)
(* Accounts, verification tokens and OAuth states are numbered in the      *)
(* order in which they are made; tokens and states are too long to guess.  *)
(* A user name is a base and the suffix that made it free.  A request      *)
(* stops at every statement, and where it waits for mail or the provider.  *)
(***************************************************************************)
EXTENDS Naturals, FiniteSets

CONSTANTS
    Email, NoEmail,
    Base,        \* user names asked for, or made from an address
    BaseOf,      \* usernameFromProfile, by address
    MaxSuffix,   \* bound: suffixes of the names that people ask for
    Phone, NoPhone,
    Provider,
    Configured,  \* the providers that the configuration has credentials for
    Insists,     \* those whose users are refused when they tell no address
    Subject,     \* the accounts that people have with a provider
    MaxAccount,  \* bound: User rows
    MaxToken,    \* bound: verification tokens
    MaxState,    \* bound: OAuth states
    Req,         \* requests that can be in flight at the same time
    Mix          \* the ways in which requests come

\* "suspend" and "delete" are what an administrator does meanwhile, "expire"
\* the time that goes by.
Operation == {"register", "verify", "resend", "start", "callback", "profile",
              "suspend", "delete", "expire"}

ASSUME AccountsAssumption ==
    /\ NoEmail \notin Email /\ NoPhone \notin Phone
    /\ Base # {} /\ Provider # {} /\ Subject # {}
    /\ BaseOf \in [Email -> Base] /\ MaxSuffix \in Nat
    /\ Provider \cap {"none", "gone"} = {}
    /\ Configured \subseteq Provider
    /\ MaxAccount \in Nat /\ MaxToken \in Nat /\ MaxState \in Nat
    /\ Mix \subseteq [ops : SUBSET Operation,   \* the operations that are called
                      overlap : BOOLEAN,        \* at the same time,
                      crash : BOOLEAN]          \* and may be cut off

VARIABLES
    mix,     \* how requests come in this behaviour
    account, \* User rows
    link,    \* OAuthAccount rows: the account of a provider's subject, 0 for none
    state,   \* OAuth states in Redis: the provider of one that is open
    tokens,  \* how many verification tokens have been made
    mailed,  \* the address that a token was sent to
    served,  \* history: callbacks that have gone on with a state, up to 2
    req      \* the requests

vars == <<mix, account, link, state, tokens, mailed, served, req>>

AccountId == 1..MaxAccount
Token == 1..MaxToken
StateId == 1..MaxState
Name == [base : Base, suffix : Nat]
Identity == [provider : Provider, subject : Subject]

SomeName == [base |-> CHOOSE b \in Base : TRUE, suffix |-> 0]
SomeIdentity == CHOOSE i \in Identity : TRUE

Account == [status : {"none", "active", "suspended", "deleted"},
            email : Email \cup {NoEmail}, username : Name, phone : Phone \cup {NoPhone},
            verified : BOOLEAN, token : 0..MaxToken, fresh : BOOLEAN]

NoAccount == [status |-> "none", email |-> NoEmail, username |-> SomeName,
              phone |-> NoPhone, verified |-> FALSE, token |-> 0, fresh |-> FALSE]

Label == {"idle", "email", "name", "insert", "mail", "token", "verify", "renew",
          "start", "state", "consume", "provider", "link", "relink", "refresh",
          "attach", "session", "user", "phone"}

Request == [pc : Label, op : Operation, email : Email \cup {NoEmail}, name : Name,
            phone : Phone \cup {NoPhone},
            token : 0..MaxToken,   \* presented, or made by this request
            state : 0..MaxState,
            who : Identity,        \* the profile that the provider tells,
            told : BOOLEAN,        \* and whether its address is verified there
            was : BOOLEAN,         \* isEmailVerified as it was read with the link
            id : 0..MaxAccount]    \* the account found, or the caller's own

Blank == [pc |-> "idle", op |-> "register", email |-> NoEmail, name |-> SomeName,
          phone |-> NoPhone, token |-> 0, state |-> 0, who |-> SomeIdentity,
          told |-> FALSE, was |-> FALSE, id |-> 0]

Known(a) == account[a].status # "none"
Present(a) == account[a].status \in {"active", "suspended"}

Init ==
    /\ mix \in Mix
    /\ account = [a \in AccountId |-> NoAccount]
    /\ link = [i \in Identity |-> 0]
    /\ state = [s \in StateId |-> "none"]
    /\ tokens = 0
    /\ mailed = [t \in Token |-> NoEmail]
    /\ served = [s \in StateId |-> 0]
    /\ req = [r \in Req |-> Blank]

-----------------------------------------------------------------------------
(* Steps of a handler                                                      *)

rows == <<mix, account, link>>
secrets == <<state, tokens, mailed, served>>

At(r, label) == req[r].pc = label

Quiet == \A r \in Req : At(r, "idle")

Become(r, q) == req' = [req EXCEPT ![r] = q]
Goto(r, label) == req' = [req EXCEPT ![r].pc = label]
End(r) == Become(r, Blank)

Arrive(r, op, first) ==
    /\ op \in mix.ops
    /\ At(r, "idle")
    /\ mix.overlap \/ Quiet
    /\ Become(r, [first EXCEPT !.op = op])
    /\ UNCHANGED <<rows, secrets>>

\* A read and the checks on what it returned, which throw when they fail.
Read(r, label, ok, next) ==
    /\ At(r, label)
    /\ Become(r, IF ok THEN next ELSE Blank)
    /\ UNCHANGED <<rows, secrets>>

SetAccount(a, value) ==
    /\ account' = [account EXCEPT ![a] = value]
    /\ UNCHANGED <<mix, link>>

\* findUserByEmail and findUserByUsername do not see deleted accounts; the
\* unique indexes do.
WithEmail(email) == {a \in AccountId : Present(a) /\ account[a].email = email}
WithName(name) == {a \in AccountId : Present(a) /\ account[a].username = name}

\* A mutant of PhoneTaken: numbers that several accounts have.  (Inv)
PhoneNeverTaken(a, phone) == FALSE

\* Nobody looks a telephone number up: only its unique index knows.
PhoneTaken(a, phone) ==
    phone # NoPhone /\ \E b \in AccountId \ {a} : Known(b) /\ account[b].phone = phone

Taken(email, name) ==
    \E a \in AccountId :
        Known(a) /\ (account[a].email = email \/ account[a].username = name)

One(S) == IF S = {} THEN 0 ELSE CHOOSE a \in S : TRUE

-----------------------------------------------------------------------------
(* Mutants: operators below with a bug a change of the code could bring in. *)
(* No action uses them; each must break the property named with it.         *)

\* Leaves the state in Redis.  (Inv)
ConsumeNothing(r) ==
    LET q == req[r]
    IN  /\ At(r, "consume")
        /\ served' = [served EXCEPT ![q.state] = IF @ = 0 THEN 1 ELSE 2]
        /\ Goto(r, "provider")
        /\ UNCHANGED <<rows, state, tokens, mailed>>

\* Takes a token whose time is over.  (KeepsContract)
FindTokenAnyTime(r) ==
    LET q == req[r]
        found == One({a \in AccountId : Present(a) /\ account[a].token = q.token})
    IN  Read(r, "token", found # 0, [q EXCEPT !.pc = "verify", !.id = found])

\* Counts on after the look-up, and again.  (SearchesAreShort)
FindNameSkipping(r) ==
    LET q == req[r]
        free == WithName(q.name) = {}
    IN  Read(r, "name", free \/ q.op = "callback",
             IF free THEN [q EXCEPT !.pc = "insert"]
             ELSE [q EXCEPT !.name.suffix = @ + 2])

\* Forgets that the address may be verified already.  (VerificationIsEarned)
FindLinkAsTold(r) ==
    LET q == req[r]
        a == link[q.who]
    IN  Read(r, "link", a # 0 \/ q.email # NoEmail,
             IF a = 0 THEN [q EXCEPT !.pc = "email"]
             ELSE [q EXCEPT !.pc = "relink", !.id = a])

\* Takes the provider's account for a proof of the address, whatever it says of it.
\* (VerificationIsEarned)
RefreshVerified(r) ==
    LET q == req[r]
    IN  /\ At(r, "refresh")
        /\ SetAccount(q.id, [account[q.id] EXCEPT !.verified = TRUE])
        /\ Goto(r, "session")
        /\ UNCHANGED secrets

-----------------------------------------------------------------------------
(* Arrivals                                                                *)

\* People give telephone numbers where they also change them.
PhoneGiven == IF "profile" \in mix.ops THEN Phone \cup {NoPhone} ELSE {NoPhone}

RegisterArrive(r) ==
    \E email \in Email, b \in Base, n \in 0..MaxSuffix, phone \in PhoneGiven :
        /\ \E a \in AccountId : ~Known(a)
        /\ tokens < MaxToken
        /\ Arrive(r, "register", [Blank EXCEPT !.pc = "email", !.email = email,
                                  !.name = [base |-> b, suffix |-> n],
                                  !.phone = phone])

\* Somebody who has got a verification e-mail.
VerifyArrive(r) ==
    \E t \in Token :
        /\ mailed[t] # NoEmail
        /\ Arrive(r, "verify", [Blank EXCEPT !.pc = "token", !.token = t])

ResendArrive(r) ==
    \E email \in Email :
        /\ tokens < MaxToken
        /\ Arrive(r, "resend", [Blank EXCEPT !.pc = "email", !.email = email])

\* getGoogleAuthorizationUrl and getGithubAuthorizationUrl
StartArrive(r) ==
    /\ Configured # {}
    /\ \E s \in StateId : state[s] = "none"
    /\ Arrive(r, "start", [Blank EXCEPT !.pc = "start"])

\* The provider sends the browser back with the state.
CallbackArrive(r) ==
    \E s \in StateId, who \in Identity :
        /\ who.provider \in Configured
        /\ state[s] # "none"
        /\ Arrive(r, "callback", [Blank EXCEPT !.pc = "state", !.state = s, !.who = who])

\* Somebody signed in changes their number, or takes it out.
ProfileArrive(r) ==
    \E a \in AccountId, phone \in PhoneGiven :
        /\ Known(a)
        /\ Arrive(r, "profile", [Blank EXCEPT !.pc = "user", !.id = a, !.phone = phone])

-----------------------------------------------------------------------------
(* Look-ups                                                                *)

\* ensureRegisterInputsAvailable; resendVerification; the account with the
\* address of a profile.
FindEmail(r) ==
    LET q == req[r]
        found == One(WithEmail(q.email))
    IN  Read(r, "email",
             CASE q.op = "register" -> found = 0
               [] q.op = "resend"   -> found # 0 /\ account[found].status = "active"
                                                 /\ ~account[found].verified
               [] q.op = "callback" -> TRUE,
             [q EXCEPT !.id = found,
                       !.pc = CASE q.op = "register" -> "name"
                                [] q.op = "resend"   -> "renew"
                                [] q.op = "callback" -> IF found = 0 THEN "name"
                                                        ELSE "attach",
                       !.name = IF q.op = "callback"
                                THEN [base |-> BaseOf[q.email], suffix |-> 0] ELSE @])

\* A name that is taken is refused by register and gets the next suffix from
\* ensureUniqueUsername.
FindName(r) ==
    LET q == req[r]
        free == WithName(q.name) = {}
    IN  Read(r, "name", free \/ q.op = "callback",
             IF free THEN [q EXCEPT !.pc = "insert"]
             ELSE [q EXCEPT !.name.suffix = @ + 1])

FindToken(r) ==
    LET q == req[r]
        found == One({a \in AccountId : Present(a) /\ account[a].token = q.token})
    IN  Read(r, "token", found # 0 /\ account[found].fresh,
             [q EXCEPT !.pc = "verify", !.id = found])

FindState(r) ==
    Read(r, "state", state[req[r].state] = req[r].who.provider,
         [req[r] EXCEPT !.pc = "consume"])

\* fetchJson: the provider answers or fails.  Google is taken at its word; GitHub
\* is asked for the user's addresses if it tells none, and must have one.
AskProvider(r) ==
    \E email \in Email \cup {NoEmail}, told \in BOOLEAN, answers \in BOOLEAN :
        Read(r, "provider",
             answers /\ (req[r].who.provider \in Insists => email # NoEmail),
             [req[r] EXCEPT !.pc = "link", !.email = email, !.told = told])

\* findOAuthAccount, with the account as it is now.  Without a link the address is
\* needed, and the handler throws where there is none.
FindLink(r) ==
    LET q == req[r]
        a == link[q.who]
    IN  Read(r, "link", a # 0 \/ q.email # NoEmail,
             IF a = 0 THEN [q EXCEPT !.pc = "email"]
             ELSE [q EXCEPT !.pc = "relink", !.id = a, !.was = account[a].verified])

\* getActiveUserOrThrow, for updateProfile.
FindUser(r) ==
    Read(r, "user", account[req[r].id].status = "active", [req[r] EXCEPT !.pc = "phone"])

-----------------------------------------------------------------------------
(* Writes                                                                  *)

\* createUser, for register and for a callback; a duplicate key throws.
Insert(r) ==
    LET q == req[r]
        mine == q.op = "register"
    IN  \E a \in AccountId :
        /\ At(r, "insert")
        /\ ~Known(a) /\ \A b \in AccountId : b < a => Known(b)
        /\ IF Taken(q.email, q.name) \/ PhoneTaken(a, q.phone)
           THEN End(r) /\ UNCHANGED <<rows, tokens>>
           ELSE /\ mine => tokens < MaxToken
                /\ tokens' = IF mine THEN tokens + 1 ELSE tokens
                /\ SetAccount(a, [status |-> "active", email |-> q.email,
                                  username |-> q.name, phone |-> q.phone,
                                  verified |-> q.told,
                                  token |-> IF mine THEN tokens + 1 ELSE 0,
                                  fresh |-> mine])
                /\ Become(r, IF mine THEN [q EXCEPT !.pc = "mail", !.token = tokens + 1]
                             ELSE [q EXCEPT !.pc = "attach", !.id = a])
        /\ UNCHANGED <<state, mailed, served>>

\* resendVerification puts a new token in the place of the old.
Renew(r) ==
    LET q == req[r]
    IN  /\ At(r, "renew")
        /\ tokens < MaxToken
        /\ tokens' = tokens + 1
        /\ SetAccount(q.id, [account[q.id] EXCEPT !.token = tokens + 1, !.fresh = TRUE])
        /\ Become(r, [q EXCEPT !.pc = "mail", !.token = tokens + 1])
        /\ UNCHANGED <<state, mailed, served>>

SendMail(r) ==
    /\ At(r, "mail")
    /\ mailed' = [mailed EXCEPT ![req[r].token] = req[r].email]
    /\ End(r)
    /\ UNCHANGED <<rows, state, tokens, served>>

\* The write is by id: the token may have been replaced since it was found.
Verify(r) ==
    LET a == req[r].id
    IN  /\ At(r, "verify")
        /\ SetAccount(a, [account[a] EXCEPT !.verified = TRUE, !.token = 0,
                                            !.fresh = FALSE])
        /\ End(r)
        /\ UNCHANGED secrets

CreateState(r) ==
    \E s \in StateId, provider \in Configured :
        /\ At(r, "start")
        /\ state[s] = "none" /\ \A i \in StateId : i < s => state[i] # "none"
        /\ state' = [state EXCEPT ![s] = provider]
        /\ End(r)
        /\ UNCHANGED <<rows, tokens, mailed, served>>

\* consumeOAuthState deletes the state that it has read.
Consume(r) ==
    LET q == req[r]
    IN  /\ At(r, "consume")
        /\ state' = [state EXCEPT ![q.state] = "gone"]
        /\ served' = [served EXCEPT ![q.state] = IF @ = 0 THEN 1 ELSE 2]
        /\ Goto(r, "provider")
        /\ UNCHANGED <<rows, tokens, mailed>>

\* updateOAuthAccount: the provider's tokens.
Relink(r) ==
    /\ At(r, "relink")
    /\ Goto(r, "refresh")
    /\ UNCHANGED <<rows, secrets>>

\* updateUser writes isEmailVerified as it was read with the link, or as the
\* provider says.
Refresh(r) ==
    LET q == req[r]
    IN  /\ At(r, "refresh")
        /\ SetAccount(q.id, [account[q.id] EXCEPT !.verified = q.was \/ q.told])
        /\ Goto(r, "session")
        /\ UNCHANGED secrets

\* updateProfile writes by id; a duplicate key throws.
WritePhone(r) ==
    LET q == req[r]
    IN  /\ At(r, "phone")
        /\ IF PhoneTaken(q.id, q.phone) THEN UNCHANGED rows
           ELSE SetAccount(q.id, [account[q.id] EXCEPT !.phone = q.phone])
        /\ End(r)
        /\ UNCHANGED secrets

\* createOAuthAccount; a duplicate key throws.
Attach(r) ==
    LET q == req[r]
    IN  /\ At(r, "attach")
        /\ link' = IF link[q.who] = 0 THEN [link EXCEPT ![q.who] = q.id] ELSE link
        /\ IF link[q.who] = 0 THEN Goto(r, "session") ELSE End(r)
        /\ UNCHANGED <<mix, account, secrets>>

\* issueSessionResponse, or the challenge of TwoFactor.
SignIn(r) ==
    /\ At(r, "session")
    /\ End(r)
    /\ UNCHANGED <<rows, secrets>>

-----------------------------------------------------------------------------

Crash(r) ==
    /\ mix.crash
    /\ ~At(r, "idle")
    /\ End(r)
    /\ UNCHANGED <<rows, secrets>>

Administer(a) ==
    /\ Present(a)
    /\ \E status \in {"active", "suspended", "deleted"} :
         /\ status = "deleted" => "delete" \in mix.ops
         /\ status # "deleted" => "suspend" \in mix.ops
         /\ SetAccount(a, [account[a] EXCEPT !.status = status])
    /\ UNCHANGED <<secrets, req>>

ExpireToken(a) ==
    /\ "expire" \in mix.ops
    /\ Known(a) /\ account[a].fresh
    /\ SetAccount(a, [account[a] EXCEPT !.fresh = FALSE])
    /\ UNCHANGED <<secrets, req>>

ExpireState(s) ==
    /\ "expire" \in mix.ops
    /\ state[s] \in Provider
    /\ state' = [state EXCEPT ![s] = "gone"]
    /\ UNCHANGED <<rows, tokens, mailed, served, req>>

Arrivals(r) ==
    \/ RegisterArrive(r) \/ VerifyArrive(r) \/ ResendArrive(r)
    \/ StartArrive(r) \/ CallbackArrive(r) \/ ProfileArrive(r)

Lookups(r) ==
    \/ FindEmail(r) \/ FindName(r) \/ FindToken(r) \/ FindState(r)
    \/ AskProvider(r) \/ FindLink(r) \/ FindUser(r)

Writes(r) ==
    \/ Insert(r) \/ Renew(r) \/ SendMail(r) \/ Verify(r) \/ CreateState(r)
    \/ Consume(r) \/ Relink(r) \/ Refresh(r) \/ Attach(r) \/ SignIn(r)
    \/ WritePhone(r)

Environment ==
    \/ \E a \in AccountId : Administer(a) \/ ExpireToken(a)
    \/ \E s \in StateId : ExpireState(s)

Next ==
    \/ Environment
    \/ \E r \in Req : Arrivals(r) \/ Lookups(r) \/ Writes(r) \/ Crash(r)

Spec == Init /\ [][Next]_vars

-----------------------------------------------------------------------------

TypeOK ==
    /\ mix \in Mix
    /\ account \in [AccountId -> Account]
    /\ link \in [Identity -> 0..MaxAccount]
    /\ state \in [StateId -> Provider \cup {"none", "gone"}]
    /\ tokens \in 0..MaxToken
    /\ mailed \in [Token -> Email \cup {NoEmail}]
    /\ served \in [StateId -> 0..2]
    /\ req \in [Req -> Request]

\* Of callbacks that do not overlap, also of such that are cut off, one at most
\* goes on with a state.
StatesServeOnce == ~mix.overlap => \A s \in StateId : served[s] <= 1

\* Two accounts, deleted ones included, share neither address nor user name nor
\* telephone number, however their look-ups overlap; and a provider's subject
\* belongs to one that is there.
AccountsAreDistinct ==
    /\ \A a, b \in AccountId :
         a # b /\ Known(a) /\ Known(b) =>
             /\ account[a].email # account[b].email
             /\ account[a].username # account[b].username
             /\ account[a].phone = account[b].phone => account[a].phone = NoPhone
    /\ \A i \in Identity : link[i] # 0 => Known(link[i])

Inv == TypeOK /\ StatesServeOnce /\ AccountsAreDistinct

\* ensureUniqueUsername asks again and again, without a bound and without a lock,
\* while others insert the very names it would try next.  It has never passed over
\* more names than there are accounts, deleted ones included: it ends.
SearchesAreShort ==
    \A r \in Req : req[r].op = "callback" /\ req[r].pc \in {"name", "insert"} =>
        req[r].name.suffix <= Cardinality({a \in AccountId : Known(a)})

\* Whatever overlaps, an account becomes verified by a token that was mailed to
\* its own address, or because the provider has said that the address is verified
\* that it tells for the account's subject: the account's own when it is created,
\* at a later sign-in perhaps another.  A callback that says less only puts back
\* what an overlapping one took away; and of requests that do not overlap none
\* takes it back.
VerificationIsEarned ==
    [][\A a \in AccountId :
         /\ ~account[a].verified /\ account'[a].verified =>
              \E r \in Req :
                  LET q == req[r]
                  IN  \/ At(r, "verify") /\ mailed[q.token] = account[a].email
                      \/ At(r, "insert") /\ q.told /\ q.email = account'[a].email
                      \/ /\ At(r, "refresh") /\ link[q.who] = a
                         /\ q.told \/ (mix.overlap /\ q.was)
         /\ ~mix.overlap /\ Known(a) /\ account[a].verified => account'[a].verified]_vars

-----------------------------------------------------------------------------
(* The contract: a request counts as done from the statement that decides  *)
(* it, and everything it will still write counts as written.               *)

\* The request that is being served, where there is one at most.
now == IF Quiet THEN Blank ELSE req[CHOOSE r \in Req : ~At(r, "idle")]

Undecided(q) == q.pc \in {"email", "name", "insert", "token", "start", "state",
                          "consume", "provider", "link", "user", "phone"}

\* A callback that has been let in by its state, and may still fail.
Holding(q) == q.op = "callback" /\ Undecided(q) /\ q.pc # "state"

Verifying(q, a) ==
    /\ q.id = a
    /\ \/ q.pc = "verify"
       \/ q.pc \in {"relink", "refresh"} /\ q.told

people ==
    [a \in AccountId |->
        [status |-> account[a].status, email |-> account[a].email,
         username |-> account[a].username, phone |-> account[a].phone,
         verified |-> account[a].verified \/ Verifying(now, a)]]

subjects ==
    [i \in Identity |->
        IF now.pc = "attach" /\ now.who = i THEN now.id ELSE link[i]]

letters ==
    [t \in Token |->
        IF \/ now.pc = "mail" /\ now.token = t
           \/ now.pc = "renew" /\ tokens + 1 = t
        THEN now.email ELSE mailed[t]]

keys ==
    [a \in AccountId |->
        IF now.pc = "verify" /\ now.id = a THEN 0
        ELSE IF now.pc = "renew" /\ now.id = a THEN tokens + 1
        ELSE IF account[a].fresh THEN account[a].token ELSE 0]

doors ==
    [s \in StateId |->
        IF Holding(now) /\ now.state = s THEN now.who.provider ELSE state[s]]

\* What the provider will tell is not part of what is asked.
Asked(q) ==
    [op |-> q.op, letter |-> q.token, state |-> q.state, who |-> q.who,
     phone |-> q.phone, person |-> IF q.op = "profile" THEN q.id ELSE 0,
     email |-> IF q.op = "callback" THEN NoEmail ELSE q.email,
     name |-> IF q.op = "callback" THEN SomeName ELSE q.name]

asked == IF Undecided(now) THEN {Asked(now)} ELSE {}

Contract == INSTANCE DirectoryContract WITH
    Person <- AccountId,
    Letter <- Token,
    State <- StateId,
    Request <- [op : Operation, letter : 0..MaxToken, state : 0..MaxState,
                who : Identity, phone : Phone \cup {NoPhone}, person : 0..MaxAccount,
                email : Email \cup {NoEmail}, name : Name],
    directory <- people,
    linked <- subjects,
    sent <- letters,
    opens <- keys,
    state <- doors,
    asking <- asked

\* Requests that neither overlap nor are cut off do what the contract says, also
\* when an administrator or the time comes between their statements: an address
\* belongs to one account for ever, a telephone number until it is given up by the
\* one account that has it, a letter verifies the address it went to, a
\* subject signs in to one account and by a state of its provider, and nobody is
\* refused without a reason.
KeepsContract ==
    /\ Contract!CInit
    /\ [][~mix.overlap /\ ~mix.crash => Contract!CNext]_(Contract!cvars)

=============================================================================
