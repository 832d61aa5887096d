--------------------------- MODULE AccountsProofs ---------------------------
(***************************************************************************)
(* Theorems about Accounts that hold for any number of accounts, addresses,*)
(* tokens, providers and requests.                                         *)
(***************************************************************************)
EXTENDS Accounts, FiniteSetTheorems, TLAPS

USE AccountsAssumption

-----------------------------------------------------------------------------
(* The inductive invariant                                                 *)

\* What a request has found is still there, although others run: the account,
\* its address, the link.  A token that is about to be sent belongs to nobody
\* else; one that is presented was sent to the account it is found at.
RequestOK(q) ==
    /\ q.id # 0 => Known(q.id)
    /\ q.pc \in {"renew", "verify", "relink", "refresh"} => q.id \in AccountId
    /\ q.pc = "email" =>
         q.op \in {"register", "resend", "callback"} /\ q.email \in Email
    /\ q.pc \in {"state", "consume", "provider", "link"} => q.op = "callback"
    /\ q.pc \in {"user", "phone"} => q.op = "profile" /\ q.id \in AccountId
    /\ q.pc = "renew" => account[q.id].email = q.email
    /\ q.pc = "mail" =>
         /\ q.token \in Token /\ q.token <= tokens
         /\ mailed[q.token] = NoEmail
         /\ \A a \in AccountId : account[a].token = q.token => account[a].email = q.email
    /\ q.pc \in {"token", "verify"} => q.token \in Token /\ mailed[q.token] # NoEmail
    /\ q.pc = "verify" => account[q.id].email = mailed[q.token]
    /\ q.pc \in {"relink", "refresh"} => link[q.who] = q.id

\* Tokens are handed out in order, and one that was sent went to the address of
\* the account that has it.
TokensInOrder ==
    /\ \A a \in AccountId : account[a].token <= tokens
    /\ \A t \in Token : mailed[t] # NoEmail =>
         /\ t <= tokens
         /\ \A a \in AccountId : account[a].token = t => account[a].email = mailed[t]

MailsDiffer ==
    \A r, s \in Req : r # s /\ At(r, "mail") /\ At(s, "mail") =>
        req[r].token # req[s].token

\* Of requests that nothing else interrupts: a state that has served is gone,
\* and what is written back is what is there.
ServedAreGone ==
    \A s \in StateId : served[s] <= 1 /\ (state[s] # "gone" => served[s] = 0)

SerialAt(q) ==
    /\ q.pc \in {"state", "consume"} => q.state \in StateId
    /\ q.pc = "consume" => served[q.state] = 0
    /\ q.pc \in {"relink", "refresh"} => (account[q.id].verified <=> q.was)

OneByOne == \A r, s \in Req : r # s => At(r, "idle") \/ At(s, "idle")

Serial == ~mix.overlap =>
              OneByOne /\ ServedAreGone /\ \A r \in Req : SerialAt(req[r])

AccountsInv ==
    /\ Inv /\ TokensInOrder /\ MailsDiffer
    /\ \A r \in Req : RequestOK(req[r])
    /\ Serial

-----------------------------------------------------------------------------
(* Steps in general                                                        *)

LEMMA BlankFacts ==
  /\ NoAccount \in Account /\ NoAccount.status = "none" /\ NoAccount.token = 0
  /\ Blank \in Request /\ Blank.pc = "idle" /\ Blank.id = 0
  /\ SomeName \in Name
  <1>1. SomeName \in Name
    BY DEF SomeName, Name
  <1>2. SomeIdentity \in Identity
    <2>1. PICK provider \in Provider, subject \in Subject : TRUE
      OBVIOUS
    <2>2. [provider |-> provider, subject |-> subject] \in Identity
      BY DEF Identity
    <2> QED
      BY <2>2 DEF SomeIdentity
  <1> QED
    BY <1>1, <1>2 DEF NoAccount, Account, Blank, Request, Label, Operation

LEMMA InitInv == Init => AccountsInv
  <1> SUFFICES ASSUME Init PROVE AccountsInv
    OBVIOUS
  <1>1. TypeOK
    BY BlankFacts DEF Init, TypeOK
  <1>2. StatesServeOnce /\ AccountsAreDistinct
    BY BlankFacts DEF Init, StatesServeOnce, AccountsAreDistinct, Known
  <1>3. TokensInOrder /\ MailsDiffer
    BY BlankFacts DEF Init, TokensInOrder, MailsDiffer, At
  <1>4. \A r \in Req : RequestOK(req[r])
    BY BlankFacts DEF Init, RequestOK
  <1>5. Serial
    BY BlankFacts DEF Init, Serial, OneByOne, ServedAreGone, SerialAt, At
  <1> QED
    BY <1>1, <1>2, <1>3, <1>4, <1>5 DEF AccountsInv, Inv

\* What the other requests have found survives a step that removes no account,
\* changes neither the address of one nor a link, and sends no token of theirs.
Careful(q) ==
    /\ \A a \in AccountId : Known(a) => Known(a)' /\ account'[a].email = account[a].email
    /\ \A a \in AccountId, t \in Token :
         t <= tokens /\ account'[a].token = t =>
             account[a].token = t /\ account'[a].email = account[a].email
    /\ tokens' >= tokens
    /\ \A i \in Identity : link[i] # 0 => link'[i] = link[i]
    /\ \A t \in Token : mailed'[t] # mailed[t] =>
         mailed[t] = NoEmail /\ (q.pc = "mail" => q.token # t)

LEMMA StillOK ==
  ASSUME TypeOK, tokens' \in Nat, NEW q \in Request, RequestOK(q), Careful(q)
  PROVE  RequestOK(q)'
  <1>1. q.id \in 0..MaxAccount /\ q.token \in 0..MaxToken /\ q.who \in Identity
    BY DEF Request
  <1>2. q.id # 0 => q.id \in AccountId
    BY <1>1 DEF AccountId
  <1>3. q.id # 0 => Known(q.id)'
    BY <1>2 DEF RequestOK, Careful
  <1>4. q.pc \in {"renew", "verify", "relink", "refresh"} =>
          q.id \in AccountId /\ q.id # 0 /\ Known(q.id)
            /\ account'[q.id].email = account[q.id].email
    BY DEF RequestOK, Careful, AccountId
  <1>5. q.pc = "mail" =>
         /\ q.token \in Token /\ q.token <= tokens'
         /\ mailed'[q.token] = NoEmail
         /\ \A a \in AccountId : account'[a].token = q.token => account'[a].email = q.email
    <2> SUFFICES ASSUME q.pc = "mail"
                 PROVE  /\ q.token \in Token /\ q.token <= tokens'
                        /\ mailed'[q.token] = NoEmail
                        /\ \A a \in AccountId : account'[a].token = q.token
                                                  => account'[a].email = q.email
      OBVIOUS
    <2>1. /\ q.token \in Token /\ q.token <= tokens /\ mailed[q.token] = NoEmail
          /\ \A a \in AccountId : account[a].token = q.token
                                    => account[a].email = q.email
      BY DEF RequestOK
    <2>2. q.token <= tokens' /\ mailed'[q.token] = NoEmail
      BY <1>1, <2>1 DEF Careful, TypeOK
    <2> QED
      BY <2>1, <2>2 DEF Careful
  <1>6. q.pc \in {"token", "verify"} =>
          q.token \in Token /\ mailed'[q.token] = mailed[q.token]
    BY DEF RequestOK, Careful
  <1>7. q.pc \in {"relink", "refresh"} => link'[q.who] = q.id
    BY <1>1, <1>4 DEF RequestOK, Careful
  <1> QED
    BY <1>3, <1>4, <1>5, <1>6, <1>7 DEF RequestOK

\* A step of one request.
LEMMA StepInv ==
  ASSUME AccountsInv, NEW r \in Req, NEW q \in Request,
         req' = [req EXCEPT ![r] = q], mix' = mix,
         account' \in [AccountId -> Account],
         link' \in [Identity -> 0..MaxAccount],
         state' \in [StateId -> Provider \cup {"none", "gone"}],
         tokens' \in 0..MaxToken,
         mailed' \in [Token -> Email \cup {NoEmail}],
         served' \in [StateId -> 0..2],
         AccountsAreDistinct', TokensInOrder',
         \A s \in Req : s # r => Careful(req[s]),
         RequestOK(q)',
         q.pc = "mail" => \A s \in Req : s # r /\ At(s, "mail") => req[s].token # q.token,
         ~mix.overlap => /\ ~At(r, "idle") \/ Quiet
                         /\ ServedAreGone' /\ SerialAt(q)'
  PROVE  AccountsInv'
  <1>0. /\ TypeOK /\ req'[r] = q
        /\ \A s \in Req : s # r => req'[s] = req[s]
    BY DEF AccountsInv, Inv, TypeOK
  <1>1. TypeOK'
    BY <1>0 DEF TypeOK
  <1>2. \A s \in Req : RequestOK(req[s])'
    <2> SUFFICES ASSUME NEW s \in Req PROVE RequestOK(req[s])'
      OBVIOUS
    <2>1. CASE s = r
      BY <1>0, <2>1 DEF RequestOK
    <2>2. CASE s # r
      <3>1. PICK p \in Request : p = req[s]
        BY <1>0 DEF TypeOK
      <3>2. RequestOK(p) /\ Careful(p)
        BY <2>2, <3>1 DEF AccountsInv
      <3>3. RequestOK(p)'
        BY <1>0, <3>2, StillOK
      <3> QED
        BY <1>0, <2>2, <3>1, <3>3 DEF RequestOK
    <2> QED
      BY <2>1, <2>2
  <1>3. MailsDiffer'
    BY <1>0 DEF AccountsInv, MailsDiffer, At
  <1>4. Serial' /\ StatesServeOnce'
    <2> SUFFICES ASSUME ~mix.overlap
                 PROVE  /\ OneByOne' /\ (\A s \in Req : SerialAt(req[s])')
                        /\ \A s \in StateId : served'[s] <= 1
      BY DEF Serial, StatesServeOnce, ServedAreGone
    <2>1. \A s \in Req : s # r => req[s].pc = "idle"
      BY DEF AccountsInv, Serial, OneByOne, At, Quiet
    <2>2. OneByOne'
      BY <1>0, <2>1 DEF OneByOne, At
    <2>3. \A s \in Req : SerialAt(req[s])'
      BY <1>0, <2>1 DEF SerialAt
    <2> QED
      BY <2>2, <2>3 DEF ServedAreGone
  <1> QED
    BY <1>1, <1>2, <1>3, <1>4 DEF AccountsInv, Inv

\* A step that only reads.
LEMMA LookStep ==
  ASSUME AccountsInv, NEW r \in Req, NEW q \in Request,
         req' = [req EXCEPT ![r] = q], UNCHANGED <<rows, secrets>>,
         RequestOK(q), q.pc # "mail",
         ~mix.overlap => (~At(r, "idle") \/ Quiet) /\ SerialAt(q)
  PROVE  AccountsInv'
  <1>1. /\ mix' = mix /\ account' = account /\ link' = link /\ state' = state
        /\ tokens' = tokens /\ mailed' = mailed /\ served' = served
    BY DEF rows, secrets
  <1>2. TypeOK /\ \A s \in Req : Careful(req[s])
    BY <1>1 DEF AccountsInv, Inv, TypeOK, Careful, Known
  <1>3. AccountsAreDistinct' /\ TokensInOrder'
    BY <1>1 DEF AccountsInv, Inv, AccountsAreDistinct, TokensInOrder, Known
  <1>4. RequestOK(q)'
    BY <1>1 DEF RequestOK, Known
  <1>5. ~mix.overlap => ServedAreGone' /\ SerialAt(q)'
    BY <1>1 DEF AccountsInv, Serial, ServedAreGone, SerialAt
  <1> QED
    BY <1>1, <1>2, <1>3, <1>4, <1>5, StepInv DEF TypeOK

\* What everybody is at first, and after a request.
LEMMA BlankOK == RequestOK(Blank) /\ SerialAt(Blank)
  BY BlankFacts DEF RequestOK, SerialAt

LEMMA ArriveStep ==
  ASSUME AccountsInv, NEW r \in Req, Arrivals(r)
  PROVE  AccountsInv'
  <1>1. ASSUME NEW op \in Operation, NEW q \in Request,
               Arrive(r, op, q), RequestOK(q), q.pc # "mail",
               [q EXCEPT !.op = op] = q, SerialAt(q)
        PROVE  AccountsInv'
    <2>1. /\ req' = [req EXCEPT ![r] = q] /\ UNCHANGED <<rows, secrets>>
          /\ mix.overlap \/ Quiet
      BY <1>1 DEF Arrive, Become
    <2> QED
      BY <1>1, <2>1, LookStep
  <1>2. CASE RegisterArrive(r)
    <2>1. PICK email \in Email, b \in Base, n \in 0..MaxSuffix, phone \in PhoneGiven :
            Arrive(r, "register", [Blank EXCEPT !.pc = "email", !.email = email,
                                                !.name = [base |-> b, suffix |-> n],
                                                !.phone = phone])
      BY <1>2 DEF RegisterArrive
    <2> DEFINE q == [Blank EXCEPT !.pc = "email", !.email = email,
                                  !.name = [base |-> b, suffix |-> n],
                                  !.phone = phone, !.op = "register"]
    <2>2. [base |-> b, suffix |-> n] \in Name /\ phone \in Phone \cup {NoPhone}
      BY DEF Name, PhoneGiven
    <2>3. /\ q \in Request /\ q.pc = "email" /\ q.op = "register" /\ q.email \in Email
          /\ q.id = 0 /\ [q EXCEPT !.op = "register"] = q
      BY <2>2, BlankFacts DEF Request, Label, Operation
    <2>4. Arrive(r, "register", q)
      BY <2>1 DEF Arrive, Become, Blank
    <2> HIDE DEF q
    <2>5. RequestOK(q) /\ SerialAt(q)
      BY <2>3 DEF RequestOK, SerialAt
    <2> QED
      BY <1>1, <2>3, <2>4, <2>5 DEF Operation
  <1>3. CASE VerifyArrive(r)
    <2>1. PICK t \in Token :
            /\ mailed[t] # NoEmail
            /\ Arrive(r, "verify", [Blank EXCEPT !.pc = "token", !.token = t])
      BY <1>3 DEF VerifyArrive
    <2> DEFINE q == [Blank EXCEPT !.pc = "token", !.token = t, !.op = "verify"]
    <2>2. /\ q \in Request /\ q.pc = "token" /\ q.token = t
          /\ q.id = 0 /\ [q EXCEPT !.op = "verify"] = q
      <3>1. t \in 0..MaxToken
        BY DEF Token
      <3> QED
        BY <3>1, BlankFacts DEF Request, Label, Operation
    <2>3. Arrive(r, "verify", q)
      BY <2>1 DEF Arrive, Become, Blank
    <2> HIDE DEF q
    <2>4. RequestOK(q) /\ SerialAt(q)
      BY <2>1, <2>2 DEF RequestOK, SerialAt
    <2> QED
      BY <1>1, <2>2, <2>3, <2>4 DEF Operation
  <1>4. CASE ResendArrive(r)
    <2>1. PICK email \in Email :
            Arrive(r, "resend", [Blank EXCEPT !.pc = "email", !.email = email])
      BY <1>4 DEF ResendArrive
    <2> DEFINE q == [Blank EXCEPT !.pc = "email", !.email = email, !.op = "resend"]
    <2>2. /\ q \in Request /\ q.pc = "email" /\ q.op = "resend" /\ q.email \in Email
          /\ q.id = 0 /\ [q EXCEPT !.op = "resend"] = q
      BY BlankFacts DEF Request, Label, Operation
    <2>3. Arrive(r, "resend", q)
      BY <2>1 DEF Arrive, Become, Blank
    <2> HIDE DEF q
    <2>4. RequestOK(q) /\ SerialAt(q)
      BY <2>2 DEF RequestOK, SerialAt
    <2> QED
      BY <1>1, <2>2, <2>3, <2>4 DEF Operation
  <1>5. CASE StartArrive(r)
    <2> DEFINE q == [Blank EXCEPT !.pc = "start", !.op = "start"]
    <2>1. Arrive(r, "start", q)
      BY <1>5 DEF StartArrive, Arrive, Become, Blank
    <2>2. /\ q \in Request /\ q.pc = "start" /\ q.id = 0
          /\ [q EXCEPT !.op = "start"] = q
      BY BlankFacts DEF Request, Label, Operation
    <2> HIDE DEF q
    <2>3. RequestOK(q) /\ SerialAt(q)
      BY <2>2 DEF RequestOK, SerialAt
    <2> QED
      BY <1>1, <2>1, <2>2, <2>3 DEF Operation
  <1>6. CASE CallbackArrive(r)
    <2>1. PICK s \in StateId, who \in Identity :
            Arrive(r, "callback", [Blank EXCEPT !.pc = "state", !.state = s, !.who = who])
      BY <1>6 DEF CallbackArrive
    <2> DEFINE q == [Blank EXCEPT !.pc = "state", !.state = s, !.who = who,
                                  !.op = "callback"]
    <2>2. /\ q \in Request /\ q.pc = "state" /\ q.state = s /\ q.id = 0
          /\ q.op = "callback"
          /\ [q EXCEPT !.op = "callback"] = q
      <3>1. s \in 0..MaxState
        BY DEF StateId
      <3> QED
        BY <3>1, BlankFacts DEF Request, Label, Operation
    <2>3. Arrive(r, "callback", q)
      BY <2>1 DEF Arrive, Become, Blank
    <2> HIDE DEF q
    <2>4. RequestOK(q) /\ SerialAt(q)
      BY <2>2 DEF RequestOK, SerialAt
    <2> QED
      BY <1>1, <2>2, <2>3, <2>4 DEF Operation
  <1>7. CASE ProfileArrive(r)
    <2>1. PICK a \in AccountId, phone \in PhoneGiven :
            /\ Known(a)
            /\ Arrive(r, "profile",
                      [Blank EXCEPT !.pc = "user", !.id = a, !.phone = phone])
      BY <1>7 DEF ProfileArrive
    <2> DEFINE q == [Blank EXCEPT !.pc = "user", !.id = a, !.phone = phone,
                                  !.op = "profile"]
    <2>2. /\ q \in Request /\ q.pc = "user" /\ q.op = "profile" /\ q.id = a
          /\ [q EXCEPT !.op = "profile"] = q
      <3>1. a \in 0..MaxAccount /\ phone \in Phone \cup {NoPhone}
        BY DEF AccountId, PhoneGiven
      <3> QED
        BY <3>1, BlankFacts DEF Request, Label, Operation
    <2>3. Arrive(r, "profile", q)
      BY <2>1 DEF Arrive, Become, Blank
    <2> HIDE DEF q
    <2>4. RequestOK(q) /\ SerialAt(q)
      BY <2>1, <2>2 DEF RequestOK, SerialAt
    <2> QED
      BY <1>1, <2>2, <2>3, <2>4 DEF Operation
  <1> QED
    BY <1>2, <1>3, <1>4, <1>5, <1>6, <1>7 DEF Arrivals

-----------------------------------------------------------------------------
(* Look-ups                                                                *)

\* A read that fails, and the end of a request without a write.
LEMMA EndStep ==
  ASSUME AccountsInv, NEW r \in Req, ~At(r, "idle"), End(r), UNCHANGED <<rows, secrets>>
  PROVE  AccountsInv'
  BY BlankFacts, BlankOK, LookStep DEF End, Become

LEMMA ReadStep ==
  ASSUME AccountsInv, NEW r \in Req, NEW label, label # "idle", NEW ok \in BOOLEAN,
         NEW next, Read(r, label, ok, next),
         ok => next \in Request /\ RequestOK(next) /\ next.pc # "mail"
                 /\ (~mix.overlap => SerialAt(next))
  PROVE  AccountsInv'
  <1>1. ~At(r, "idle") /\ UNCHANGED <<rows, secrets>>
        /\ Become(r, IF ok THEN next ELSE Blank)
    BY DEF Read, At
  <1>2. CASE ok
    BY <1>1, <1>2, LookStep DEF Become
  <1>3. CASE ~ok
    BY <1>1, <1>3, EndStep DEF Become, End
  <1> QED
    BY <1>2, <1>3

LEMMA OneFacts ==
  ASSUME NEW S \in SUBSET AccountId
  PROVE  One(S) \in 0..MaxAccount /\ (One(S) # 0 => One(S) \in S)
  <1>1. CASE S = {}
    BY <1>1 DEF One
  <1>2. CASE S # {}
    <2>1. PICK a \in S : One(S) = a
      BY <1>2 DEF One
    <2>2. a \in AccountId
      BY <2>1
    <2>3. a \in 0..MaxAccount
      BY <2>2 DEF AccountId
    <2> QED
      BY <2>1, <2>3
  <1> QED
    BY <1>1, <1>2

LEMMA FindEmailStep ==
  ASSUME AccountsInv, NEW r \in Req, FindEmail(r)
  PROVE  AccountsInv'
  <1> DEFINE q == req[r]
             found == One(WithEmail(q.email))
             ok == CASE q.op = "register" -> found = 0
                     [] q.op = "resend"   -> found # 0 /\ account[found].status = "active"
                                                       /\ ~account[found].verified
                     [] q.op = "callback" -> TRUE
             next == [q EXCEPT !.id = found,
                       !.pc = CASE q.op = "register" -> "name"
                                [] q.op = "resend"   -> "renew"
                                [] q.op = "callback" -> IF found = 0 THEN "name"
                                                        ELSE "attach",
                       !.name = IF q.op = "callback"
                                THEN [base |-> BaseOf[q.email], suffix |-> 0] ELSE @]
  <1>1. Read(r, "email", ok, next) /\ At(r, "email") /\ TypeOK /\ q \in Request
    BY DEF FindEmail, Read, AccountsInv, Inv, TypeOK
  <1>2. q.op \in {"register", "resend", "callback"} /\ q.email \in Email
    BY <1>1 DEF AccountsInv, RequestOK, At
  <1>3. /\ found \in 0..MaxAccount
        /\ found # 0 => found \in AccountId /\ Known(found)
                        /\ account[found].email = q.email
    <2>1. WithEmail(q.email) \in SUBSET AccountId
      BY DEF WithEmail
    <2>2. found \in 0..MaxAccount /\ (found # 0 => found \in WithEmail(q.email))
      BY <2>1, OneFacts
    <2> HIDE DEF found
    <2> QED
      BY <2>2 DEF WithEmail, Present, Known
  <1>4. (IF q.op = "callback" THEN [base |-> BaseOf[q.email], suffix |-> 0]
                              ELSE q.name) \in Name
    <2>1. BaseOf[q.email] \in Base
      BY <1>2
    <2> QED
      BY <1>1, <2>1 DEF Request, Name
  <1>5. (CASE q.op = "register" -> "name"
           [] q.op = "resend"   -> "renew"
           [] q.op = "callback" -> IF found = 0 THEN "name" ELSE "attach")
          \in {"name", "renew", "attach"}
    <2> HIDE DEF found
    <2> QED
      BY <1>2
  <1>6. /\ next \in Request /\ next.pc \in {"name", "renew", "attach"}
        /\ next.id = found /\ next.email = q.email
        /\ next.pc = "renew" => q.op = "resend"
    <2> HIDE DEF found
    <2> QED
      BY <1>1, <1>2, <1>3, <1>4, <1>5 DEF Request, Label
  <1>7. ok \in BOOLEAN /\ (ok /\ q.op = "resend" => found # 0)
    <2> HIDE DEF found
    <2>1. account[found].verified \in BOOLEAN \/ found = 0
      BY <1>1, <1>3 DEF TypeOK, Account
    <2> QED
      BY <1>2, <2>1
  <1> HIDE DEF next, ok, found
  <1>8. ok => RequestOK(next) /\ SerialAt(next)
    BY <1>3, <1>6, <1>7 DEF RequestOK, SerialAt
  <1> QED
    BY <1>1, <1>6, <1>7, <1>8, ReadStep

LEMMA FindNameStep ==
  ASSUME AccountsInv, NEW r \in Req, FindName(r)
  PROVE  AccountsInv'
  <1> DEFINE q == req[r]
             free == WithName(q.name) = {}
             next == IF free THEN [q EXCEPT !.pc = "insert"]
                     ELSE [q EXCEPT !.name.suffix = @ + 1]
  <1>1. Read(r, "name", free \/ q.op = "callback", next) /\ At(r, "name")
        /\ q \in Request /\ q.pc = "name" /\ RequestOK(q)
    BY DEF FindName, Read, At, AccountsInv, Inv, TypeOK
  <1>2. /\ [q EXCEPT !.pc = "insert"] \in Request
        /\ [q EXCEPT !.name.suffix = @ + 1] \in Request
    <2>1. [q.name EXCEPT !.suffix = @ + 1] \in Name
      BY <1>1 DEF Request, Name
    <2> QED
      BY <1>1, <2>1 DEF Request, Label
  <1>3. next \in Request /\ next.pc \in {"name", "insert"} /\ next.id = q.id
    BY <1>1, <1>2 DEF Request
  <1>4. (free \/ q.op = "callback") \in BOOLEAN
    OBVIOUS
  <1> HIDE DEF next, free
  <1>5. RequestOK(next) /\ SerialAt(next)
    BY <1>1, <1>3 DEF RequestOK, SerialAt
  <1> QED
    BY <1>1, <1>3, <1>4, <1>5, ReadStep

LEMMA FindTokenStep ==
  ASSUME AccountsInv, NEW r \in Req, FindToken(r)
  PROVE  AccountsInv'
  <1> DEFINE q == req[r]
             owners == {a \in AccountId : Present(a) /\ account[a].token = q.token}
             found == One(owners)
             next == [q EXCEPT !.pc = "verify", !.id = found]
  <1>1. Read(r, "token", found # 0 /\ account[found].fresh, next) /\ At(r, "token")
        /\ TypeOK /\ q \in Request /\ q.pc = "token" /\ RequestOK(q)
    BY DEF FindToken, Read, At, AccountsInv, Inv, TypeOK
  <1>2. /\ found \in 0..MaxAccount
        /\ found # 0 => found \in AccountId /\ Known(found)
                        /\ account[found].token = q.token
    <2>1. owners \in SUBSET AccountId
      OBVIOUS
    <2>2. found \in 0..MaxAccount /\ (found # 0 => found \in owners)
      BY <2>1, OneFacts
    <2> HIDE DEF found
    <2> QED
      BY <2>2 DEF Present, Known
  <1> HIDE DEF found
  <1>3. (found # 0 /\ account[found].fresh) \in BOOLEAN
    OBVIOUS
  <1>4. next \in Request /\ next.pc = "verify" /\ next.id = found /\ next.token = q.token
    BY <1>1, <1>2 DEF Request, Label
  <1>5. q.token \in Token /\ mailed[q.token] # NoEmail
    BY <1>1 DEF RequestOK
  <1>6. found # 0 => account[found].email = mailed[q.token]
    BY <1>2, <1>5 DEF AccountsInv, TokensInOrder
  <1> HIDE DEF next
  <1>7. found # 0 => RequestOK(next) /\ SerialAt(next)
    BY <1>2, <1>4, <1>5, <1>6 DEF RequestOK, SerialAt
  <1> QED
    BY <1>1, <1>3, <1>4, <1>7, ReadStep

LEMMA FindStateStep ==
  ASSUME AccountsInv, NEW r \in Req, FindState(r)
  PROVE  AccountsInv'
  <1> DEFINE q == req[r]
             ok == state[q.state] = q.who.provider
             next == [q EXCEPT !.pc = "consume"]
  <1>1. Read(r, "state", ok, next) /\ At(r, "state")
        /\ TypeOK /\ q \in Request /\ q.pc = "state" /\ RequestOK(q)
    BY DEF FindState, Read, At, AccountsInv, Inv, TypeOK
  <1>2. next \in Request /\ next.pc = "consume" /\ next.id = q.id /\ next.state = q.state
        /\ next.op = q.op
    BY <1>1 DEF Request, Label
  <1>3. ASSUME ok, ~mix.overlap
        PROVE  q.state \in StateId /\ served[q.state] = 0
    <2>1. q.who.provider # "gone"
      BY <1>1 DEF Request, Identity
    <2>2. q.state \in StateId
      BY <1>1, <1>3 DEF AccountsInv, Serial, SerialAt
    <2> QED
      BY <1>3, <2>1, <2>2 DEF AccountsInv, Serial, ServedAreGone
  <1>4. ok \in BOOLEAN
    OBVIOUS
  <1> HIDE DEF next, ok
  <1>5. RequestOK(next) /\ (ok /\ ~mix.overlap => SerialAt(next))
    BY <1>1, <1>2, <1>3 DEF RequestOK, SerialAt
  <1> QED
    BY <1>1, <1>2, <1>4, <1>5, ReadStep

LEMMA AskProviderStep ==
  ASSUME AccountsInv, NEW r \in Req, AskProvider(r)
  PROVE  AccountsInv'
  <1> DEFINE q == req[r]
  <1>1. PICK email \in Email \cup {NoEmail}, told \in BOOLEAN, ok \in BOOLEAN :
          Read(r, "provider", ok, [q EXCEPT !.pc = "link", !.email = email, !.told = told])
    <2>1. PICK email \in Email \cup {NoEmail}, told \in BOOLEAN, answers \in BOOLEAN :
            Read(r, "provider",
                 answers /\ (q.who.provider \in Insists => email # NoEmail),
                 [q EXCEPT !.pc = "link", !.email = email, !.told = told])
      BY DEF AskProvider
    <2>2. (answers /\ (q.who.provider \in Insists => email # NoEmail)) \in BOOLEAN
      OBVIOUS
    <2> QED
      BY <2>1, <2>2
  <1> DEFINE next == [q EXCEPT !.pc = "link", !.email = email, !.told = told]
  <1>2. At(r, "provider") /\ q \in Request /\ q.pc = "provider" /\ RequestOK(q)
    BY <1>1 DEF Read, At, AccountsInv, Inv, TypeOK
  <1>3. next \in Request /\ next.pc = "link" /\ next.id = q.id /\ next.op = q.op
    BY <1>2 DEF Request, Label
  <1>4. Read(r, "provider", ok, next)
    BY <1>1
  <1> HIDE DEF next
  <1>5. RequestOK(next) /\ SerialAt(next)
    BY <1>2, <1>3 DEF RequestOK, SerialAt
  <1> QED
    BY <1>3, <1>4, <1>5, ReadStep

LEMMA FindLinkStep ==
  ASSUME AccountsInv, NEW r \in Req, FindLink(r)
  PROVE  AccountsInv'
  <1> DEFINE q == req[r]
  <1>1. At(r, "link") /\ TypeOK /\ q \in Request /\ q.pc = "link" /\ RequestOK(q)
    BY DEF FindLink, Read, At, AccountsInv, Inv, TypeOK
  <1>2. PICK a \in 0..MaxAccount : a = link[q.who]
    BY <1>1 DEF TypeOK, Request
  <1> DEFINE next == IF a = 0 THEN [q EXCEPT !.pc = "email"]
                     ELSE [q EXCEPT !.pc = "relink", !.id = a,
                                    !.was = account[a].verified]
             ok == a # 0 \/ q.email # NoEmail
  <1>3. Read(r, "link", ok, next) /\ ok \in BOOLEAN
    BY <1>2 DEF FindLink
  <1>4. CASE a = 0
    <2>1. q.op = "callback" /\ (ok => q.email \in Email)
      BY <1>1, <1>4 DEF RequestOK, Request
    <2>2. next = [q EXCEPT !.pc = "email"]
      BY <1>4
    <2>3. /\ next \in Request /\ next.pc = "email" /\ next.id = q.id
          /\ next.op = q.op /\ next.email = q.email
      BY <1>1, <2>2 DEF Request, Label
    <2> HIDE DEF next, ok
    <2>4. ok => RequestOK(next) /\ SerialAt(next)
      BY <1>1, <2>1, <2>3 DEF RequestOK, SerialAt
    <2> QED
      BY <1>3, <2>3, <2>4, ReadStep
  <1>5. CASE a # 0
    <2>1. a \in AccountId /\ Known(a) /\ account[a].verified \in BOOLEAN
      BY <1>1, <1>2, <1>5
        DEF AccountId, AccountsInv, Inv, AccountsAreDistinct, TypeOK, Account, Request
    <2>2. next = [q EXCEPT !.pc = "relink", !.id = a, !.was = account[a].verified]
      BY <1>5
    <2>3. /\ next \in Request /\ next.pc = "relink" /\ next.id = a
          /\ next.who = q.who /\ next.was = account[a].verified
      BY <1>1, <2>1, <2>2 DEF Request, Label
    <2> HIDE DEF next, ok
    <2>4. RequestOK(next) /\ SerialAt(next)
      BY <1>2, <2>1, <2>3 DEF RequestOK, SerialAt
    <2> QED
      BY <1>3, <2>3, <2>4, ReadStep
  <1> QED
    BY <1>4, <1>5

LEMMA FindUserStep ==
  ASSUME AccountsInv, NEW r \in Req, FindUser(r)
  PROVE  AccountsInv'
  <1> DEFINE q == req[r]
             ok == account[q.id].status = "active"
             next == [q EXCEPT !.pc = "phone"]
  <1>1. Read(r, "user", ok, next) /\ At(r, "user")
        /\ q \in Request /\ q.pc = "user" /\ RequestOK(q)
    BY DEF FindUser, Read, At, AccountsInv, Inv, TypeOK
  <1>2. next \in Request /\ next.pc = "phone" /\ next.id = q.id /\ next.op = q.op
    BY <1>1 DEF Request, Label
  <1>3. ok \in BOOLEAN
    OBVIOUS
  <1> HIDE DEF next, ok
  <1>4. RequestOK(next) /\ SerialAt(next)
    BY <1>1, <1>2 DEF RequestOK, SerialAt
  <1> QED
    BY <1>1, <1>2, <1>3, <1>4, ReadStep

-----------------------------------------------------------------------------
(* Writes to Redis and to the table of links                               *)

\* A step that leaves the accounts and the tokens alone.
LEMMA RedisOrLink ==
  ASSUME AccountsInv, NEW r \in Req, NEW q \in Request,
         req' = [req EXCEPT ![r] = q], UNCHANGED <<mix, account, tokens, mailed>>,
         link' \in [Identity -> 0..MaxAccount],
         state' \in [StateId -> Provider \cup {"none", "gone"}],
         served' \in [StateId -> 0..2],
         \A i \in Identity : /\ link[i] # 0 => link'[i] = link[i]
                             /\ link'[i] # 0 => Known(link'[i]),
         RequestOK(q)', q.pc # "mail", ~At(r, "idle"),
         ~mix.overlap => ServedAreGone' /\ SerialAt(q)'
  PROVE  AccountsInv'
  <1>1. TypeOK
    BY DEF AccountsInv, Inv
  <1>2. \A s \in Req : Careful(req[s])
    BY <1>1 DEF Careful, Known, TypeOK
  <1>3. AccountsAreDistinct' /\ TokensInOrder'
    BY DEF AccountsInv, Inv, AccountsAreDistinct, TokensInOrder, Known
  <1> QED
    BY <1>1, <1>2, <1>3, StepInv DEF TypeOK

LEMMA CreateStateStep ==
  ASSUME AccountsInv, NEW r \in Req, CreateState(r)
  PROVE  AccountsInv'
  <1>1. PICK s \in StateId, provider \in Configured :
          state[s] = "none" /\ state' = [state EXCEPT ![s] = provider]
    BY DEF CreateState
  <1>2. /\ At(r, "start") /\ req' = [req EXCEPT ![r] = Blank]
        /\ UNCHANGED <<mix, account, link, tokens, mailed, served>>
    BY DEF CreateState, End, Become, rows
  <1>3. TypeOK /\ AccountsAreDistinct
    BY DEF AccountsInv, Inv
  <1>4. state' \in [StateId -> Provider \cup {"none", "gone"}]
    BY <1>1, <1>3 DEF TypeOK
  <1>5. ~mix.overlap => ServedAreGone'
    BY <1>1, <1>2, <1>3 DEF AccountsInv, Serial, ServedAreGone, TypeOK
  <1>6. RequestOK(Blank)' /\ SerialAt(Blank)'
    BY BlankFacts DEF RequestOK, SerialAt
  <1>7. ~At(r, "idle")
    BY <1>2 DEF At
  <1> QED
    BY <1>2, <1>3, <1>4, <1>5, <1>6, <1>7, BlankFacts, RedisOrLink
      DEF TypeOK, AccountsAreDistinct

LEMMA ConsumeStep ==
  ASSUME AccountsInv, NEW r \in Req, Consume(r)
  PROVE  AccountsInv'
  <1> DEFINE q == req[r]
  <1>1. /\ At(r, "consume") /\ req' = [req EXCEPT ![r] = [q EXCEPT !.pc = "provider"]]
        /\ state' = [state EXCEPT ![q.state] = "gone"]
        /\ served' = [served EXCEPT ![q.state] = IF @ = 0 THEN 1 ELSE 2]
        /\ UNCHANGED <<mix, account, link, tokens, mailed>>
    BY DEF Consume, Goto, rows
  <1>2. TypeOK /\ q \in Request /\ q.pc = "consume" /\ AccountsAreDistinct /\ RequestOK(q)
    BY <1>1 DEF AccountsInv, Inv, TypeOK, At
  <1>3. PICK next \in Request :
          /\ next = [q EXCEPT !.pc = "provider"]
          /\ next.pc = "provider" /\ next.id = q.id /\ next.op = q.op
    <2> DEFINE x == [q EXCEPT !.pc = "provider"]
    <2>1. x \in Request /\ x.pc = "provider" /\ x.id = q.id /\ x.op = q.op
      BY <1>2 DEF Request, Label
    <2> QED
      BY <2>1
  <1>4. /\ state' \in [StateId -> Provider \cup {"none", "gone"}]
        /\ served' \in [StateId -> 0..2]
    <2>1. PICK v \in 0..2 : v = IF served[q.state] = 0 THEN 1 ELSE 2
      OBVIOUS
    <2>2. served' = [served EXCEPT ![q.state] = v]
      BY <1>1, <2>1
    <2> QED
      BY <1>1, <1>2, <2>2 DEF TypeOK
  <1>5. ASSUME ~mix.overlap PROVE ServedAreGone'
    <2>1. q.state \in StateId /\ served[q.state] = 0
      BY <1>1, <1>5 DEF AccountsInv, Serial, SerialAt, At
    <2> QED
      BY <1>1, <1>2, <1>5, <2>1 DEF AccountsInv, Serial, ServedAreGone, TypeOK
  <1>6. RequestOK(next)' /\ SerialAt(next)'
    BY <1>1, <1>2, <1>3 DEF RequestOK, SerialAt, Known
  <1>7. ~At(r, "idle")
    BY <1>1 DEF At
  <1> QED
    BY <1>1, <1>2, <1>3, <1>4, <1>5, <1>6, <1>7, RedisOrLink
      DEF TypeOK, AccountsAreDistinct

LEMMA RelinkStep ==
  ASSUME AccountsInv, NEW r \in Req, Relink(r)
  PROVE  AccountsInv'
  <1> DEFINE q == req[r]
             next == [q EXCEPT !.pc = "refresh"]
  <1>1. /\ At(r, "relink") /\ req' = [req EXCEPT ![r] = next]
        /\ UNCHANGED <<rows, secrets>>
    BY DEF Relink, Goto
  <1>2. q \in Request /\ q.pc = "relink" /\ RequestOK(q) /\ (~mix.overlap => SerialAt(q))
    BY <1>1 DEF AccountsInv, Inv, TypeOK, Serial, At
  <1>3. /\ next \in Request /\ next.pc = "refresh" /\ next.id = q.id
        /\ next.who = q.who /\ next.was = q.was
    BY <1>2 DEF Request, Label
  <1> HIDE DEF next
  <1>4. RequestOK(next) /\ (~mix.overlap => SerialAt(next))
    BY <1>2, <1>3 DEF RequestOK, SerialAt
  <1>5. ~At(r, "idle")
    BY <1>1 DEF At
  <1> QED
    BY <1>1, <1>3, <1>4, <1>5, LookStep

\* The unique key: a link that is there is not replaced.
LEMMA AttachStep ==
  ASSUME AccountsInv, NEW r \in Req, Attach(r)
  PROVE  AccountsInv'
  <1> DEFINE q == req[r]
  <1>1. At(r, "attach") /\ UNCHANGED <<mix, account, state, tokens, mailed, served>>
    BY DEF Attach, secrets
  <1>2. TypeOK /\ q \in Request /\ q.pc = "attach" /\ RequestOK(q) /\ AccountsAreDistinct
    BY <1>1 DEF AccountsInv, Inv, TypeOK, At
  <1>3. CASE link[q.who] = 0
    <2>1. PICK next \in Request :
            /\ next = [q EXCEPT !.pc = "session"]
            /\ next.pc = "session" /\ next.id = q.id
      <3> DEFINE x == [q EXCEPT !.pc = "session"]
      <3>1. x \in Request /\ x.pc = "session" /\ x.id = q.id
        BY <1>2 DEF Request, Label
      <3> QED
        BY <3>1
    <2>2. req' = [req EXCEPT ![r] = next] /\ link' = [link EXCEPT ![q.who] = q.id]
      BY <1>3, <2>1 DEF Attach, Goto
    <2>3. q.id \in 0..MaxAccount /\ q.who \in Identity /\ (q.id # 0 => Known(q.id))
      BY <1>2 DEF Request, RequestOK
    <2>4. link' \in [Identity -> 0..MaxAccount]
      BY <1>2, <2>2, <2>3 DEF TypeOK
    <2>5. \A i \in Identity : /\ link[i] # 0 => link'[i] = link[i]
                              /\ link'[i] # 0 => Known(link'[i])
      BY <1>2, <1>3, <2>2, <2>3 DEF TypeOK, AccountsAreDistinct
    <2>6. RequestOK(next)' /\ SerialAt(next)'
      BY <1>1, <2>1, <2>3 DEF RequestOK, SerialAt, Known
    <2>7. ~mix.overlap => ServedAreGone'
      BY <1>1 DEF AccountsInv, Serial, ServedAreGone
    <2>8. ~At(r, "idle")
      BY <1>1 DEF At
    <2> QED
      BY <1>1, <1>2, <2>1, <2>2, <2>4, <2>5, <2>6, <2>7, <2>8, RedisOrLink DEF TypeOK
  <1>4. CASE link[q.who] # 0
    BY <1>1, <1>4, EndStep DEF Attach, At, rows, secrets
  <1> QED
    BY <1>3, <1>4

-----------------------------------------------------------------------------
(* Writes to the accounts                                                  *)

\* A write to a row that is there keeps its address and name, gives it a telephone
\* number that no other row has, and either keeps or removes its token or gives it
\* a new one.
LEMMA EditAccount ==
  ASSUME AccountsInv, NEW a \in AccountId, Known(a), NEW v \in Account,
         account' = [account EXCEPT ![a] = v],
         v.status # "none", v.email = account[a].email,
         v.username = account[a].username,
         v.phone = account[a].phone \/ ~PhoneTaken(a, v.phone),
         UNCHANGED <<link, mailed>>, tokens' \in 0..MaxToken,
         \/ tokens' = tokens /\ v.token \in {0, account[a].token}
         \/ tokens' = tokens + 1 /\ v.token = tokens + 1
  PROVE  /\ account' \in [AccountId -> Account]
         /\ AccountsAreDistinct' /\ TokensInOrder'
         /\ \A q \in Request : Careful(q)
  <1>1. /\ TypeOK /\ account' \in [AccountId -> Account]
        /\ account'[a] = v /\ \A b \in AccountId : b # a => account'[b] = account[b]
    BY DEF AccountsInv, Inv, TypeOK
  <1>2. \A b \in AccountId : /\ Known(b)' <=> Known(b)
                             /\ account'[b].email = account[b].email
                             /\ account'[b].username = account[b].username
    BY <1>1 DEF Known
  <1>3. AccountsAreDistinct'
    <2>1. \A i \in Identity : link[i] # 0 => link[i] \in AccountId
      BY <1>1 DEF TypeOK, AccountId
    <2>2. \A b, c \in AccountId :
            b # c /\ Known(b) /\ Known(c) /\ account'[b].phone = account'[c].phone =>
                account'[b].phone = NoPhone
      <3>1. \A b, c \in AccountId :
              b # c /\ Known(b) /\ Known(c) /\ account[b].phone = account[c].phone =>
                  account[b].phone = NoPhone
        BY DEF AccountsInv, Inv, AccountsAreDistinct
      <3>2. CASE v.phone = account[a].phone
        <4>1. \A b \in AccountId : account'[b].phone = account[b].phone
          BY <1>1, <3>2
        <4> QED
          BY <3>1, <4>1
      <3>3. CASE ~PhoneTaken(a, v.phone)
        <4>1. \A b \in AccountId :
                b # a /\ Known(b) /\ account[b].phone = v.phone => v.phone = NoPhone
          BY <3>3 DEF PhoneTaken
        <4> QED
          BY <1>1, <3>1, <4>1
      <3> QED
        BY <3>2, <3>3
    <2> QED
      BY <1>2, <2>1, <2>2 DEF AccountsInv, Inv, AccountsAreDistinct
  <1>4. /\ tokens \in Nat /\ tokens' \in Nat /\ tokens' >= tokens
        /\ \A b \in AccountId : account[b].token \in 0..MaxToken
        /\ \A t \in Token : t \in Nat \ {0}
    BY <1>1 DEF TypeOK, Account, Token
  <1>5. \A b \in AccountId, t \in Token :
          t <= tokens /\ account'[b].token = t => account[b].token = t
    BY <1>1, <1>4
  <1>6. TokensInOrder'
    <2>1. \A b \in AccountId : account'[b].token <= tokens'
      BY <1>1, <1>4 DEF AccountsInv, TokensInOrder
    <2>2. \A t \in Token : mailed[t] # NoEmail => t <= tokens'
      BY <1>4 DEF AccountsInv, TokensInOrder
    <2> QED
      BY <1>2, <1>5, <2>1, <2>2 DEF AccountsInv, TokensInOrder
  <1>7. \A q \in Request : Careful(q)
    BY <1>2, <1>4, <1>5 DEF Careful
  <1> QED
    BY <1>1, <1>3, <1>6, <1>7

LEMMA VerifyStep ==
  ASSUME AccountsInv, NEW r \in Req, Verify(r)
  PROVE  AccountsInv'
  <1>1. PICK a : a = req[r].id
    OBVIOUS
  <1>2. /\ At(r, "verify") /\ req' = [req EXCEPT ![r] = Blank]
        /\ UNCHANGED <<mix, link, state, tokens, mailed, served>>
        /\ account' = [account EXCEPT ![a] =
                         [account[a] EXCEPT !.verified = TRUE, !.token = 0,
                                            !.fresh = FALSE]]
    BY <1>1 DEF Verify, SetAccount, End, Become, secrets
  <1>3. TypeOK /\ a \in AccountId /\ Known(a) /\ account[a] \in Account
    BY <1>1, <1>2 DEF AccountsInv, Inv, TypeOK, RequestOK, At, AccountId
  <1>4. PICK v \in Account :
          /\ account' = [account EXCEPT ![a] = v]
          /\ v.status # "none" /\ v.email = account[a].email
          /\ v.username = account[a].username /\ v.phone = account[a].phone
          /\ v.token = 0
    <2> DEFINE x == [account[a] EXCEPT !.verified = TRUE, !.token = 0, !.fresh = FALSE]
    <2>1. /\ x \in Account /\ x.status = account[a].status
          /\ x.email = account[a].email
          /\ x.username = account[a].username /\ x.phone = account[a].phone
          /\ x.token = 0
      <3>1. 0 \in 0..MaxToken
        OBVIOUS
      <3> QED
        BY <1>3, <3>1 DEF Account
    <2> QED
      BY <1>2, <1>3, <2>1 DEF Known
  <1>5. /\ account' \in [AccountId -> Account]
        /\ AccountsAreDistinct' /\ TokensInOrder'
        /\ \A q \in Request : Careful(q)
    BY <1>2, <1>3, <1>4, EditAccount DEF TypeOK
  <1>6. RequestOK(Blank)' /\ SerialAt(Blank)'
    BY BlankFacts DEF RequestOK, SerialAt
  <1>7. ~At(r, "idle") /\ (~mix.overlap => ServedAreGone')
    BY <1>2 DEF At, AccountsInv, Serial, ServedAreGone
  <1> QED
    BY <1>2, <1>3, <1>5, <1>6, <1>7, BlankFacts, StepInv DEF TypeOK

LEMMA RefreshStep ==
  ASSUME AccountsInv, NEW r \in Req, Refresh(r)
  PROVE  AccountsInv'
  <1>1. PICK a, q, v0 : a = req[r].id /\ q = req[r] /\ v0 = (q.was \/ q.told)
    OBVIOUS
  <1>2. /\ At(r, "refresh") /\ req' = [req EXCEPT ![r] = [q EXCEPT !.pc = "session"]]
        /\ UNCHANGED <<mix, link, state, tokens, mailed, served>>
        /\ account' = [account EXCEPT ![a] = [account[a] EXCEPT !.verified = v0]]
    BY <1>1 DEF Refresh, SetAccount, Goto, secrets
  <1>3. /\ TypeOK /\ a \in AccountId /\ Known(a) /\ account[a] \in Account
        /\ q \in Request /\ RequestOK(q) /\ q.id = a /\ v0 \in BOOLEAN
    BY <1>1, <1>2 DEF AccountsInv, Inv, TypeOK, RequestOK, At, AccountId
  <1>4. PICK v \in Account :
          /\ account' = [account EXCEPT ![a] = v]
          /\ v.status # "none" /\ v.email = account[a].email
          /\ v.username = account[a].username /\ v.phone = account[a].phone
          /\ v.token = account[a].token
    <2> DEFINE x == [account[a] EXCEPT !.verified = v0]
    <2>1. /\ x \in Account /\ x.status = account[a].status
          /\ x.email = account[a].email
          /\ x.username = account[a].username /\ x.phone = account[a].phone
          /\ x.token = account[a].token
      BY <1>3 DEF Account, Request
    <2> QED
      BY <1>2, <1>3, <2>1 DEF Known
  <1>5. PICK next \in Request :
          next = [q EXCEPT !.pc = "session"] /\ next.pc = "session" /\ next.id = a
    <2> DEFINE x == [q EXCEPT !.pc = "session"]
    <2>1. x \in Request /\ x.pc = "session" /\ x.id = a
      BY <1>3 DEF Request, Label
    <2> QED
      BY <2>1
  <1>6. /\ account' \in [AccountId -> Account]
        /\ AccountsAreDistinct' /\ TokensInOrder'
        /\ \A p \in Request : Careful(p)
    BY <1>2, <1>3, <1>4, EditAccount DEF TypeOK
  <1>7. RequestOK(next)' /\ SerialAt(next)'
    BY <1>3, <1>5, <1>6 DEF RequestOK, SerialAt, Careful
  <1>8. ~At(r, "idle") /\ (~mix.overlap => ServedAreGone')
    BY <1>2 DEF At, AccountsInv, Serial, ServedAreGone
  <1> QED
    BY <1>2, <1>3, <1>5, <1>6, <1>7, <1>8, StepInv DEF TypeOK

\* The new token is later than all that were sent.
LEMMA RenewStep ==
  ASSUME AccountsInv, NEW r \in Req, Renew(r)
  PROVE  AccountsInv'
  <1>1. PICK a, q, n : a = req[r].id /\ q = req[r] /\ n = tokens + 1
    OBVIOUS
  <1>2. /\ At(r, "renew") /\ tokens < MaxToken /\ tokens' = n
        /\ req' = [req EXCEPT ![r] = [q EXCEPT !.pc = "mail", !.token = n]]
        /\ UNCHANGED <<mix, link, state, mailed, served>>
        /\ account' = [account EXCEPT ![a] = [account[a] EXCEPT !.token = n, !.fresh = TRUE]]
    BY <1>1 DEF Renew, SetAccount, Become
  <1>3. /\ TypeOK /\ a \in AccountId /\ Known(a) /\ account[a] \in Account
        /\ q \in Request /\ RequestOK(q) /\ q.id = a /\ q.pc = "renew"
        /\ account[a].email = q.email
    BY <1>1, <1>2 DEF AccountsInv, Inv, TypeOK, RequestOK, At, AccountId
  <1>4. n \in Token /\ n \in 0..MaxToken /\ n > tokens /\ tokens \in Nat
    BY <1>1, <1>2, <1>3 DEF TypeOK, Token
  <1>5. PICK v \in Account :
          /\ account' = [account EXCEPT ![a] = v]
          /\ v.status # "none" /\ v.email = account[a].email
          /\ v.username = account[a].username /\ v.phone = account[a].phone
          /\ v.token = n
    <2> DEFINE x == [account[a] EXCEPT !.token = n, !.fresh = TRUE]
    <2>1. /\ x \in Account /\ x.status = account[a].status
          /\ x.email = account[a].email
          /\ x.username = account[a].username /\ x.phone = account[a].phone
          /\ x.token = n
      BY <1>3, <1>4 DEF Account
    <2> QED
      BY <1>2, <1>3, <2>1 DEF Known
  <1>6. PICK next \in Request :
          /\ next = [q EXCEPT !.pc = "mail", !.token = n]
          /\ next.pc = "mail" /\ next.id = a /\ next.token = n /\ next.email = q.email
    <2> DEFINE x == [q EXCEPT !.pc = "mail", !.token = n]
    <2>1. x \in Request /\ x.pc = "mail" /\ x.id = a /\ x.token = n /\ x.email = q.email
      BY <1>3, <1>4 DEF Request, Label
    <2> QED
      BY <2>1
  <1>7. /\ account' \in [AccountId -> Account]
        /\ AccountsAreDistinct' /\ TokensInOrder'
        /\ \A p \in Request : Careful(p)
    <2>1. /\ tokens' = tokens + 1 /\ v.token = tokens + 1 /\ tokens' \in 0..MaxToken
          /\ UNCHANGED <<link, mailed>>
      BY <1>1, <1>2, <1>4, <1>5
    <2> QED
      BY <1>3, <1>5, <2>1, EditAccount
  <1>8. /\ \A b \in AccountId : b # a => account[b].token # n
        /\ mailed[n] = NoEmail
        /\ \A s \in Req : At(s, "mail") => req[s].token # n
    <2>1. \A b \in AccountId : account[b].token \in Nat /\ account[b].token <= tokens
      BY <1>3 DEF TypeOK, Account, AccountsInv, TokensInOrder
    <2>2. \A s \in Req : At(s, "mail") => req[s].token \in Nat /\ req[s].token <= tokens
      BY <1>3 DEF TypeOK, Request, AccountsInv, RequestOK, At
    <2> QED
      BY <1>4, <2>1, <2>2 DEF AccountsInv, TokensInOrder
  <1>9. RequestOK(next)' /\ SerialAt(next)'
    <2>1. \A b \in AccountId : account'[b].token = n => account'[b].email = q.email
      BY <1>2, <1>3, <1>5, <1>8 DEF TypeOK
    <2>2. Known(a)' /\ n <= tokens'
      BY <1>2, <1>3, <1>4, <1>6, <1>7 DEF Careful
    <2> QED
      BY <1>2, <1>4, <1>6, <1>8, <2>1, <2>2 DEF RequestOK, SerialAt
  <1>a. ~At(r, "idle") /\ (~mix.overlap => ServedAreGone')
    BY <1>2 DEF At, AccountsInv, Serial, ServedAreGone
  <1> QED
    BY <1>2, <1>3, <1>4, <1>6, <1>7, <1>8, <1>9, <1>a, StepInv DEF TypeOK

LEMMA SendMailStep ==
  ASSUME AccountsInv, NEW r \in Req, SendMail(r)
  PROVE  AccountsInv'
  <1>1. PICK q : q = req[r]
    OBVIOUS
  <1>2. /\ At(r, "mail") /\ req' = [req EXCEPT ![r] = Blank]
        /\ mailed' = [mailed EXCEPT ![q.token] = q.email]
        /\ UNCHANGED <<mix, account, link, state, tokens, served>>
    BY <1>1 DEF SendMail, End, Become, rows
  <1>3. /\ TypeOK /\ q \in Request /\ q.token \in Token /\ q.token <= tokens
        /\ mailed[q.token] = NoEmail
        /\ \A a \in AccountId : account[a].token = q.token => account[a].email = q.email
    BY <1>1, <1>2 DEF AccountsInv, Inv, TypeOK, RequestOK, At
  <1>4. mailed' \in [Token -> Email \cup {NoEmail}]
    BY <1>2, <1>3 DEF TypeOK, Request
  <1>5. AccountsAreDistinct'
    BY <1>2 DEF AccountsInv, Inv, AccountsAreDistinct, Known
  <1>6. \A t \in Token : mailed'[t] = IF t = q.token THEN q.email ELSE mailed[t]
    BY <1>2, <1>3 DEF TypeOK
  <1>7. TokensInOrder'
    BY <1>2, <1>3, <1>6 DEF AccountsInv, TokensInOrder
  <1>8. \A s \in Req : s # r => Careful(req[s])
    <2>1. \A s \in Req : s # r /\ At(s, "mail") => req[s].token # q.token
      BY <1>1, <1>2 DEF AccountsInv, MailsDiffer
    <2> QED
      BY <1>2, <1>3, <1>6, <2>1 DEF Careful, Known, At, TypeOK
  <1>9. RequestOK(Blank)' /\ SerialAt(Blank)'
    BY BlankFacts DEF RequestOK, SerialAt
  <1>a. ~At(r, "idle") /\ (~mix.overlap => ServedAreGone')
    BY <1>2 DEF At, AccountsInv, Serial, ServedAreGone
  <1> QED
    BY <1>2, <1>3, <1>4, <1>5, <1>7, <1>8, <1>9, <1>a, BlankFacts, StepInv DEF TypeOK

LEMMA WritePhoneStep ==
  ASSUME AccountsInv, NEW r \in Req, WritePhone(r)
  PROVE  AccountsInv'
  <1>1. PICK a, phone : a = req[r].id /\ phone = req[r].phone
    OBVIOUS
  <1>2. /\ At(r, "phone") /\ End(r) /\ UNCHANGED secrets
        /\ IF PhoneTaken(a, phone) THEN UNCHANGED rows
           ELSE SetAccount(a, [account[a] EXCEPT !.phone = phone])
    BY <1>1 DEF WritePhone
  <1>3. /\ TypeOK /\ a \in AccountId /\ Known(a) /\ account[a] \in Account
        /\ phone \in Phone \cup {NoPhone}
    BY <1>1, <1>2 DEF AccountsInv, Inv, TypeOK, RequestOK, At, AccountId, Request
  <1>4. CASE PhoneTaken(a, phone)
    BY <1>2, <1>4, EndStep DEF At
  <1>5. CASE ~PhoneTaken(a, phone)
    <2>1. PICK v \in Account :
            /\ account' = [account EXCEPT ![a] = v]
            /\ v.status # "none" /\ v.email = account[a].email
            /\ v.username = account[a].username /\ v.phone = phone
            /\ v.token = account[a].token
      <3> DEFINE x == [account[a] EXCEPT !.phone = phone]
      <3>1. /\ x \in Account /\ x.status = account[a].status
            /\ x.email = account[a].email /\ x.phone = phone
            /\ x.username = account[a].username /\ x.token = account[a].token
        BY <1>3 DEF Account
      <3> QED
        BY <1>2, <1>3, <1>5, <3>1 DEF Known, SetAccount
    <2>2. /\ req' = [req EXCEPT ![r] = Blank]
          /\ UNCHANGED <<mix, link, state, tokens, mailed, served>>
      BY <1>2, <1>5 DEF End, Become, SetAccount, secrets
    <2>3. /\ account' \in [AccountId -> Account]
          /\ AccountsAreDistinct' /\ TokensInOrder'
          /\ \A q \in Request : Careful(q)
      BY <1>3, <1>5, <2>1, <2>2, EditAccount DEF TypeOK
    <2>4. RequestOK(Blank)' /\ SerialAt(Blank)'
      BY BlankFacts DEF RequestOK, SerialAt
    <2>5. ~At(r, "idle") /\ (~mix.overlap => ServedAreGone')
      BY <1>2, <2>2 DEF At, AccountsInv, Serial, ServedAreGone
    <2> QED
      BY <1>3, <2>2, <2>3, <2>4, <2>5, BlankFacts, StepInv DEF TypeOK
  <1> QED
    BY <1>4, <1>5

\* A new row: the unique indexes see to it that nobody has its address, name or number.
LEMMA NewAccount ==
  ASSUME AccountsInv, NEW a \in AccountId, ~Known(a), NEW v \in Account,
         account' = [account EXCEPT ![a] = v],
         v.status = "active", ~Taken(v.email, v.username), ~PhoneTaken(a, v.phone),
         UNCHANGED <<link, mailed>>, tokens' \in 0..MaxToken,
         \/ tokens' = tokens /\ v.token = 0
         \/ tokens' = tokens + 1 /\ v.token = tokens + 1
  PROVE  /\ account' \in [AccountId -> Account]
         /\ AccountsAreDistinct' /\ TokensInOrder'
         /\ \A q \in Request : Careful(q)
  <1>1. /\ TypeOK /\ account' \in [AccountId -> Account]
        /\ account'[a] = v /\ \A b \in AccountId : b # a => account'[b] = account[b]
    BY DEF AccountsInv, Inv, TypeOK
  <1>2. \A b \in AccountId : /\ Known(b)' <=> Known(b) \/ b = a
                             /\ Known(b) => account'[b] = account[b]
                             /\ Known(b) => /\ account[b].email # v.email
                                            /\ account[b].username # v.username
    BY <1>1 DEF Known, Taken
  <1>8. \A b \in AccountId :
          b # a /\ Known(b) /\ account[b].phone = v.phone => v.phone = NoPhone
    BY DEF PhoneTaken
  <1>3. AccountsAreDistinct'
    <2>1. \A i \in Identity : link[i] # 0 => link[i] \in AccountId /\ Known(link[i])
      BY <1>1 DEF TypeOK, AccountId, AccountsInv, Inv, AccountsAreDistinct
    <2>2. \A i \in Identity : link'[i] # 0 => account'[link'[i]].status # "none"
      <3>1. \A i \in Identity : link'[i] = link[i]
        OBVIOUS
      <3>2. \A b \in AccountId : Known(b) => account'[b].status # "none"
        BY <1>2 DEF Known
      <3> QED
        BY <2>1, <3>1, <3>2
    <2>3. \A b, c \in AccountId :
            b # c /\ Known(b)' /\ Known(c)' => /\ account'[b].email # account'[c].email
                                               /\ account'[b].username # account'[c].username
      BY <1>1, <1>2 DEF AccountsInv, Inv, AccountsAreDistinct
    <2>4. \A b, c \in AccountId :
            b # c /\ Known(b)' /\ Known(c)' /\ account'[b].phone = account'[c].phone =>
                account'[b].phone = NoPhone
      BY <1>1, <1>2, <1>8 DEF AccountsInv, Inv, AccountsAreDistinct
    <2> QED
      BY <2>2, <2>3, <2>4 DEF AccountsAreDistinct, Known
  <1>4. /\ tokens \in Nat /\ tokens' \in Nat /\ tokens' >= tokens
        /\ \A b \in AccountId : account[b].token \in 0..MaxToken
        /\ \A t \in Token : t \in Nat \ {0}
        /\ v.token \in Nat /\ v.token <= tokens' /\ (v.token = 0 \/ v.token > tokens)
    BY <1>1 DEF TypeOK, Account, Token
  <1>5. \A b \in AccountId, t \in Token :
          t <= tokens /\ account'[b].token = t => b # a
    BY <1>1, <1>4
  <1>6. TokensInOrder'
    <2>1. \A b \in AccountId : account'[b].token <= tokens'
      BY <1>1, <1>4 DEF AccountsInv, TokensInOrder
    <2>2. \A t \in Token : mailed[t] # NoEmail => t <= tokens /\ t <= tokens'
      BY <1>4 DEF AccountsInv, TokensInOrder
    <2> QED
      BY <1>1, <1>5, <2>1, <2>2 DEF AccountsInv, TokensInOrder
  <1>7. \A q \in Request : Careful(q)
    BY <1>1, <1>2, <1>4, <1>5 DEF Careful
  <1> QED
    BY <1>1, <1>3, <1>6, <1>7

LEMMA InsertStep ==
  ASSUME AccountsInv, NEW r \in Req, Insert(r)
  PROVE  AccountsInv'
  <1> DEFINE row(q) == [status |-> "active", email |-> q.email,
                        username |-> q.name, phone |-> q.phone, verified |-> q.told,
                        token |-> IF q.op = "register" THEN tokens + 1 ELSE 0,
                        fresh |-> q.op = "register"]
             after(q, a) == IF q.op = "register"
                            THEN [q EXCEPT !.pc = "mail", !.token = tokens + 1]
                            ELSE [q EXCEPT !.pc = "attach", !.id = a]
  <1>1. PICK q, n : q = req[r] /\ n = tokens + 1
    OBVIOUS
  <1>2. PICK a \in AccountId :
          /\ ~Known(a)
          /\ IF Taken(q.email, q.name) \/ PhoneTaken(a, q.phone)
             THEN End(r) /\ UNCHANGED <<rows, tokens>>
             ELSE /\ q.op = "register" => tokens < MaxToken
                  /\ tokens' = IF q.op = "register" THEN tokens + 1 ELSE tokens
                  /\ SetAccount(a, row(q))
                  /\ Become(r, after(q, a))
    BY <1>1 DEF Insert
  <1>3. At(r, "insert") /\ UNCHANGED <<state, mailed, served>>
    BY DEF Insert
  <1>4. /\ TypeOK /\ q \in Request /\ RequestOK(q) /\ q.pc = "insert" /\ ~At(r, "idle")
        /\ tokens \in 0..MaxToken
    BY <1>1, <1>3 DEF AccountsInv, Inv, TypeOK, At
  <1>5. CASE Taken(q.email, q.name) \/ PhoneTaken(a, q.phone)
    BY <1>2, <1>3, <1>4, <1>5, EndStep DEF secrets
  <1>6. CASE ~Taken(q.email, q.name) /\ ~PhoneTaken(a, q.phone)
    <2>1. /\ q.op = "register" => tokens < MaxToken
          /\ tokens' = IF q.op = "register" THEN tokens + 1 ELSE tokens
          /\ account' = [account EXCEPT ![a] = row(q)]
          /\ UNCHANGED <<mix, link>>
          /\ req' = [req EXCEPT ![r] = after(q, a)]
      BY <1>2, <1>6 DEF SetAccount, Become
    <2>2. /\ tokens' \in 0..MaxToken
          /\ q.op = "register" => n \in Token /\ n \in 0..MaxToken /\ n > tokens
          /\ (IF q.op = "register" THEN tokens + 1 ELSE 0) \in 0..MaxToken
      BY <1>1, <1>4, <2>1 DEF Token
    <2>3. PICK v \in Account :
            /\ v = row(q)
            /\ v.status = "active" /\ v.email = q.email /\ v.username = q.name
            /\ v.phone = q.phone /\ v.token = IF q.op = "register" THEN tokens + 1 ELSE 0
      <3>1. (q.op = "register") \in BOOLEAN
        OBVIOUS
      <3>2. row(q) \in Account
        BY <1>4, <2>2, <3>1 DEF Account, Request
      <3> QED
        BY <3>2
    <2>4. PICK next \in Request :
            /\ next = after(q, a)
            /\ next.email = q.email
            /\ IF q.op = "register" THEN next.pc = "mail" /\ next.token = n /\ next.id = q.id
                                    ELSE next.pc = "attach" /\ next.id = a
      <3>1. CASE q.op = "register"
        <4> DEFINE x == [q EXCEPT !.pc = "mail", !.token = n]
        <4>1. x \in Request /\ x.pc = "mail" /\ x.token = n /\ x.id = q.id
              /\ x.email = q.email
          BY <1>4, <2>2, <3>1 DEF Request, Label
        <4> QED
          BY <1>1, <3>1, <4>1
      <3>2. CASE q.op # "register"
        <4> DEFINE x == [q EXCEPT !.pc = "attach", !.id = a]
        <4>0. a \in 0..MaxAccount
          BY DEF AccountId
        <4>1. x \in Request /\ x.pc = "attach" /\ x.id = a /\ x.email = q.email
          BY <1>4, <4>0 DEF Request, Label
        <4> QED
          BY <3>2, <4>1
      <3> QED
        BY <3>1, <3>2
    <2>5. /\ account' = [account EXCEPT ![a] = v]
          /\ req' = [req EXCEPT ![r] = next]
      BY <2>1, <2>3, <2>4
    <2> HIDE DEF row, after
    <2>6. ~Taken(v.email, v.username) /\ ~PhoneTaken(a, v.phone)
      BY <1>6, <2>3
    <2>7. /\ account' \in [AccountId -> Account]
          /\ AccountsAreDistinct' /\ TokensInOrder'
          /\ \A p \in Request : Careful(p)
      BY <1>2, <1>3, <2>1, <2>2, <2>3, <2>5, <2>6, NewAccount
    <2>8. /\ \A b \in AccountId : account[b].token \in Nat /\ account[b].token <= tokens
          /\ \A s \in Req : At(s, "mail") => req[s].token \in Nat /\ req[s].token <= tokens
      BY <1>4 DEF TypeOK, Account, Request, AccountsInv, TokensInOrder, RequestOK, At
    <2>9. q.op = "register" =>
            /\ \A b \in AccountId : account[b].token # n
            /\ mailed[n] = NoEmail
            /\ \A s \in Req : At(s, "mail") => req[s].token # n
      BY <1>4, <2>2, <2>8 DEF AccountsInv, TokensInOrder
    <2>a. Known(a)' /\ (q.id # 0 => Known(q.id)')
      <3>1. account'[a] = v
        BY <1>4, <2>5 DEF TypeOK
      <3>2. q.id # 0 => q.id \in AccountId /\ Known(q.id)
        BY <1>4 DEF RequestOK, Request, AccountId
      <3> QED
        BY <1>2, <1>4, <2>3, <2>7, <3>1, <3>2 DEF Known, Careful
    <2>b. RequestOK(next)' /\ SerialAt(next)'
      <3>1. CASE q.op = "register"
        <4>1. \A b \in AccountId : account'[b].token = n => account'[b].email = q.email
          BY <1>4, <2>3, <2>5, <2>9, <3>1 DEF TypeOK
        <4>2. n <= tokens' /\ mailed'[n] = NoEmail /\ n \in Token
          BY <1>1, <1>3, <1>4, <2>1, <2>2, <2>9, <3>1
        <4> QED
          BY <2>4, <2>a, <3>1, <4>1, <4>2 DEF RequestOK, SerialAt
      <3>2. CASE q.op # "register"
        BY <2>4, <2>a, <3>2 DEF RequestOK, SerialAt
      <3> QED
        BY <3>1, <3>2
    <2>c. ~mix.overlap => ServedAreGone'
      BY <1>3, <2>1 DEF AccountsInv, Serial, ServedAreGone
    <2>d. next.pc = "mail" => \A s \in Req : s # r /\ At(s, "mail") => req[s].token # next.token
      BY <2>4, <2>9
    <2> QED
      BY <1>3, <1>4, <2>1, <2>2, <2>5, <2>7, <2>b, <2>c, <2>d, StepInv DEF TypeOK
  <1> QED
    BY <1>5, <1>6

-----------------------------------------------------------------------------
(* The surroundings                                                        *)

LEMMA OutsideStep ==
  ASSUME AccountsInv, UNCHANGED <<mix, link, tokens, mailed, served, req>>,
         account' \in [AccountId -> Account],
         state' \in [StateId -> Provider \cup {"none", "gone"}],
         AccountsAreDistinct', TokensInOrder', \A q \in Request : Careful(q),
         \A a \in AccountId : account'[a].verified = account[a].verified,
         \A s \in StateId : state'[s] # "gone" => state[s] # "gone"
  PROVE  AccountsInv'
  <1>1. TypeOK /\ TypeOK'
    BY DEF AccountsInv, Inv, TypeOK
  <1>2. \A r \in Req : RequestOK(req[r])'
    <2> SUFFICES ASSUME NEW r \in Req PROVE RequestOK(req[r])'
      OBVIOUS
    <2>1. PICK q \in Request : q = req[r]
      BY <1>1 DEF TypeOK
    <2>2. RequestOK(q) /\ Careful(q) /\ tokens' \in Nat
      BY <1>1, <2>1 DEF AccountsInv, TypeOK
    <2>3. RequestOK(q)'
      BY <1>1, <2>2, StillOK
    <2> QED
      BY <2>1, <2>3 DEF RequestOK
  <1>3. MailsDiffer' /\ StatesServeOnce'
    BY DEF AccountsInv, Inv, MailsDiffer, StatesServeOnce, At
  <1>4. Serial'
    <2>1. \A r \in Req : req[r].pc \in {"relink", "refresh"} => req[r].id \in AccountId
      BY DEF AccountsInv, RequestOK
    <2> QED
      BY <2>1 DEF AccountsInv, Serial, OneByOne, ServedAreGone, SerialAt, At
  <1> QED
    BY <1>1, <1>2, <1>3, <1>4 DEF AccountsInv, Inv

LEMMA EnvironmentStep == AccountsInv /\ Environment => AccountsInv'
  <1> SUFFICES ASSUME AccountsInv, Environment PROVE AccountsInv'
    OBVIOUS
  <1>0. TypeOK
    BY DEF AccountsInv, Inv
  <1>1. ASSUME NEW a \in AccountId, Known(a), NEW v \in Account,
               account' = [account EXCEPT ![a] = v],
               v.status # "none", v.email = account[a].email,
               v.username = account[a].username, v.phone = account[a].phone,
               v.token = account[a].token,
               v.verified = account[a].verified, UNCHANGED <<mix, link, secrets, req>>
        PROVE  AccountsInv'
    <2>1. /\ account' \in [AccountId -> Account]
          /\ AccountsAreDistinct' /\ TokensInOrder'
          /\ \A q \in Request : Careful(q)
      BY <1>0, <1>1, EditAccount DEF secrets, TypeOK
    <2>2. \A b \in AccountId : account'[b].verified = account[b].verified
      BY <1>0, <1>1 DEF TypeOK
    <2> QED
      BY <1>0, <1>1, <2>1, <2>2, OutsideStep DEF secrets, TypeOK
  <1>2. ASSUME NEW a \in AccountId, Administer(a)
        PROVE  AccountsInv'
    <2>1. PICK status \in {"active", "suspended", "deleted"} :
            SetAccount(a, [account[a] EXCEPT !.status = status])
      BY <1>2 DEF Administer
    <2> DEFINE v == [account[a] EXCEPT !.status = status]
    <2>2. /\ v \in Account /\ v.status = status /\ v.email = account[a].email
          /\ v.username = account[a].username /\ v.phone = account[a].phone
          /\ v.token = account[a].token /\ v.verified = account[a].verified
      BY <1>0 DEF TypeOK, Account
    <2>3. account' = [account EXCEPT ![a] = v] /\ UNCHANGED <<mix, link, secrets, req>>
      BY <1>2, <2>1 DEF Administer, SetAccount
    <2> HIDE DEF v
    <2> QED
      BY <1>1, <1>2, <2>2, <2>3 DEF Administer, Present, Known
  <1>3. ASSUME NEW a \in AccountId, ExpireToken(a)
        PROVE  AccountsInv'
    <2> DEFINE v == [account[a] EXCEPT !.fresh = FALSE]
    <2>0. account[a] \in Account
      BY <1>0 DEF TypeOK
    <2>1. /\ v \in Account /\ v.status = account[a].status
          /\ v.email = account[a].email
          /\ v.username = account[a].username /\ v.phone = account[a].phone
          /\ v.token = account[a].token /\ v.verified = account[a].verified
      BY <2>0 DEF Account
    <2>2. /\ account' = [account EXCEPT ![a] = v] /\ Known(a)
          /\ UNCHANGED <<mix, link, secrets, req>>
      BY <1>3 DEF ExpireToken, SetAccount
    <2> HIDE DEF v
    <2> QED
      BY <1>1, <2>1, <2>2 DEF Known
  <1>4. ASSUME NEW s \in StateId, ExpireState(s)
        PROVE  AccountsInv'
    <2>1. /\ state' = [state EXCEPT ![s] = "gone"]
          /\ UNCHANGED <<mix, account, link, tokens, mailed, served, req>>
      BY <1>4 DEF ExpireState, rows
    <2>2. /\ state' \in [StateId -> Provider \cup {"none", "gone"}]
          /\ \A i \in StateId : state'[i] # "gone" => state[i] # "gone"
      BY <1>0, <2>1 DEF TypeOK
    <2>3. AccountsAreDistinct' /\ TokensInOrder' /\ \A q \in Request : Careful(q)
      BY <1>0, <2>1
        DEF AccountsInv, Inv, AccountsAreDistinct, TokensInOrder, Careful, Known, TypeOK
    <2> QED
      BY <1>0, <2>1, <2>2, <2>3, OutsideStep DEF TypeOK
  <1> QED
    BY <1>2, <1>3, <1>4 DEF Environment

-----------------------------------------------------------------------------
(* The theorems                                                            *)

LEMMA NextInv ==
  ASSUME AccountsInv, [Next]_vars
  PROVE  AccountsInv'
  <1>1. CASE Environment
    BY <1>1, EnvironmentStep
  <1>2. ASSUME NEW r \in Req, Arrivals(r)
        PROVE  AccountsInv'
    BY <1>2, ArriveStep
  <1>3. ASSUME NEW r \in Req, Lookups(r)
        PROVE  AccountsInv'
    BY <1>3, FindEmailStep, FindNameStep, FindTokenStep, FindStateStep, AskProviderStep,
       FindLinkStep, FindUserStep DEF Lookups
  <1>4. ASSUME NEW r \in Req, Writes(r)
        PROVE  AccountsInv'
    <2>1. CASE SignIn(r)
      BY <2>1, EndStep DEF SignIn, At
    <2> QED
      BY <1>4, <2>1, InsertStep, RenewStep, SendMailStep, VerifyStep, CreateStateStep,
         ConsumeStep, RelinkStep, RefreshStep, AttachStep, WritePhoneStep DEF Writes
  <1>5. ASSUME NEW r \in Req, Crash(r)
        PROVE  AccountsInv'
    BY <1>5, EndStep DEF Crash
  <1>6. CASE UNCHANGED vars
    BY <1>6 DEF vars, AccountsInv, Inv, TypeOK, StatesServeOnce, AccountsAreDistinct,
                TokensInOrder, MailsDiffer, RequestOK, Serial, OneByOne, ServedAreGone,
                SerialAt, At, Known
  <1> QED
    BY <1>1, <1>2, <1>3, <1>4, <1>5, <1>6 DEF Next

LEMMA Reachable == Spec => []AccountsInv
  BY InitInv, NextInv, PTL DEF Spec

\* For any number of accounts and requests: no two accounts share an address, a
\* user name or a telephone number, links lead to accounts that are there, and
\* callbacks that do not overlap use a state once: register, updateProfile,
\* handleOAuthLogin.
THEOREM AccountsStayDistinct == Spec => []Inv
  <1>1. AccountsInv => Inv
    BY DEF AccountsInv
  <1> QED
    BY <1>1, Reachable, PTL

\* What a step may do to the verification of one account.
Earned(a) ==
    /\ ~account[a].verified /\ account'[a].verified =>
         \E r \in Req :
             LET q == req[r]
             IN  \/ At(r, "verify") /\ mailed[q.token] = account[a].email
                 \/ At(r, "insert") /\ q.told /\ q.email = account'[a].email
                 \/ /\ At(r, "refresh") /\ link[q.who] = a
                    /\ q.told \/ (mix.overlap /\ q.was)
    /\ ~mix.overlap /\ Known(a) /\ account[a].verified => account'[a].verified

LEMMA VerifyEarns ==
  ASSUME AccountsInv, NEW r \in Req, Verify(r), NEW a \in AccountId
  PROVE  Earned(a)
  <1>1. PICK b : b = req[r].id
    OBVIOUS
  <1>2. TypeOK /\ At(r, "verify") /\ b \in AccountId
        /\ mailed[req[r].token] = account[b].email
    BY <1>1 DEF Verify, AccountsInv, Inv, RequestOK, At
  <1>3. account' = [account EXCEPT ![b] = [account[b] EXCEPT !.verified = TRUE,
                                             !.token = 0, !.fresh = FALSE]]
    BY <1>1 DEF Verify, SetAccount
  <1>4. CASE a = b
    <2>1. account[b] \in Account
      BY <1>2 DEF TypeOK
    <2>2. [account[b] EXCEPT !.verified = TRUE, !.token = 0, !.fresh = FALSE].verified
      BY <2>1 DEF Account
    <2>3. account'[a].verified
      BY <1>2, <1>3, <1>4, <2>2 DEF TypeOK
    <2> QED
      BY <1>2, <1>4, <2>3 DEF Earned
  <1>5. CASE a # b
    BY <1>2, <1>3, <1>5 DEF TypeOK, Earned
  <1> QED
    BY <1>4, <1>5

LEMMA RefreshEarns ==
  ASSUME AccountsInv, NEW r \in Req, Refresh(r), NEW a \in AccountId
  PROVE  Earned(a)
  <1>1. PICK b, q, v : b = q.id /\ q = req[r] /\ v = (q.was \/ q.told)
    OBVIOUS
  <1>2. /\ TypeOK /\ At(r, "refresh") /\ b \in AccountId /\ link[q.who] = b /\ v \in BOOLEAN
        /\ ~mix.overlap => (account[b].verified <=> q.was)
    BY <1>1 DEF Refresh, AccountsInv, Inv, RequestOK, Serial, SerialAt, At
  <1>3. account' = [account EXCEPT ![b] = [account[b] EXCEPT !.verified = v]]
    BY <1>1 DEF Refresh, SetAccount
  <1>4. CASE a = b
    <2>1. account[b] \in Account
      BY <1>2 DEF TypeOK
    <2>2. [account[b] EXCEPT !.verified = v].verified = v
      BY <2>1 DEF Account
    <2>3. account'[a].verified = v
      BY <1>2, <1>3, <1>4, <2>2 DEF TypeOK
    <2> QED
      BY <1>1, <1>2, <1>4, <2>3 DEF Earned
  <1>5. CASE a # b
    BY <1>2, <1>3, <1>5 DEF TypeOK, Earned
  <1> QED
    BY <1>4, <1>5

LEMMA InsertEarns ==
  ASSUME AccountsInv, NEW r \in Req, Insert(r), NEW a \in AccountId
  PROVE  Earned(a)
  <1>1. PICK q, n : q = req[r] /\ n = tokens + 1
    OBVIOUS
  <1>2. TypeOK /\ At(r, "insert")
    BY DEF Insert, AccountsInv, Inv
  <1> DEFINE row == [status |-> "active", email |-> q.email, username |-> q.name,
                     phone |-> q.phone, verified |-> q.told,
                     token |-> IF q.op = "register" THEN n ELSE 0,
                     fresh |-> q.op = "register"]
  <1>0. PICK b \in AccountId :
          /\ ~Known(b)
          /\ \/ UNCHANGED rows
             \/ account' = [account EXCEPT ![b] = row]
    BY <1>1 DEF Insert, SetAccount
  <1>3. CASE UNCHANGED rows
    BY <1>3 DEF rows, Earned
  <1>4. CASE ~UNCHANGED rows
    <2>0. row.email = q.email /\ row.verified = q.told
      OBVIOUS
    <2> HIDE DEF row
    <2>1. PICK v : /\ account' = [account EXCEPT ![b] = v]
                   /\ v.email = q.email /\ v.verified = q.told
      BY <1>0, <1>4, <2>0
    <2>2. CASE a = b
      <3>1. account'[a].email = q.email /\ account'[a].verified = q.told
        BY <1>2, <2>1, <2>2 DEF TypeOK
      <3>2. ~Known(a)
        BY <1>0, <2>2
      <3> QED
        BY <1>1, <1>2, <3>1, <3>2 DEF Earned
    <2>3. CASE a # b
      BY <1>2, <2>1, <2>3 DEF TypeOK, Earned
    <2> QED
      BY <2>2, <2>3
  <1> QED
    BY <1>3, <1>4

LEMMA RestKeeps ==
  ASSUME AccountsInv, [Next]_vars, \A r \in Req : ~Verify(r) /\ ~Refresh(r) /\ ~Insert(r),
         NEW a \in AccountId
  PROVE  account'[a].verified = account[a].verified
  <1>0. TypeOK
    BY DEF AccountsInv, Inv
  <1>1. CASE Environment
    <2>1. ASSUME NEW b \in AccountId, Administer(b) \/ ExpireToken(b)
          PROVE  account'[a].verified = account[a].verified
      <3>1. account[b] \in Account
        BY <1>0 DEF TypeOK
      <3>2. \A status : [account[b] EXCEPT !.status = status].verified = account[b].verified
        BY <3>1 DEF Account
      <3>3. [account[b] EXCEPT !.fresh = FALSE].verified = account[b].verified
        BY <3>1 DEF Account
      <3>4. PICK v : v.verified = account[b].verified /\ account' = [account EXCEPT ![b] = v]
        BY <2>1, <3>2, <3>3 DEF Administer, ExpireToken, SetAccount
      <3>5. CASE a = b
        BY <1>0, <3>4, <3>5 DEF TypeOK
      <3>6. CASE a # b
        BY <1>0, <3>4, <3>6 DEF TypeOK
      <3> QED
        BY <3>5, <3>6
    <2> QED
      BY <1>1, <2>1 DEF Environment, ExpireState, rows
  <1>2. ASSUME NEW r \in Req, WritePhone(r)
        PROVE  account'[a].verified = account[a].verified
    <2>1. PICK b, phone :
            /\ b = req[r].id /\ phone = req[r].phone
            /\ \/ account' = account
               \/ account' = [account EXCEPT ![b] = [account[b] EXCEPT !.phone = phone]]
      BY <1>2 DEF WritePhone, SetAccount, rows
    <2>2. CASE a = b
      <3>1. account[b] \in Account
        BY <1>0, <2>2 DEF TypeOK
      <3>2. [account[b] EXCEPT !.phone = phone].verified = account[b].verified
        BY <3>1 DEF Account
      <3> QED
        BY <1>0, <2>1, <2>2, <3>2 DEF TypeOK
    <2>3. CASE a # b
      BY <1>0, <2>1, <2>3 DEF TypeOK
    <2> QED
      BY <2>2, <2>3
  <1>3. ASSUME NEW r \in Req, Renew(r)
        PROVE  account'[a].verified = account[a].verified
    <2>1. PICK b, n : /\ b = req[r].id /\ n = tokens + 1
                      /\ account' = [account EXCEPT ![b] = [account[b] EXCEPT !.token = n,
                                                                              !.fresh = TRUE]]
      BY <1>3 DEF Renew, SetAccount
    <2>2. CASE a = b
      <3>1. account[b] \in Account
        BY <1>0, <2>2 DEF TypeOK
      <3>2. [account[b] EXCEPT !.token = n, !.fresh = TRUE].verified = account[b].verified
        BY <3>1 DEF Account
      <3> QED
        BY <1>0, <2>1, <2>2, <3>2 DEF TypeOK
    <2>3. CASE a # b
      BY <1>0, <2>1, <2>3 DEF TypeOK
    <2> QED
      BY <2>2, <2>3
  <1>4. ASSUME NEW r \in Req,
               Arrivals(r) \/ Lookups(r) \/ Crash(r) \/ SendMail(r) \/ CreateState(r)
                 \/ Consume(r) \/ Relink(r) \/ Attach(r) \/ SignIn(r)
        PROVE  account' = account
    BY <1>4 DEF Arrivals, RegisterArrive, VerifyArrive, ResendArrive, StartArrive,
                CallbackArrive, ProfileArrive, Arrive, Lookups, FindEmail, FindName, FindToken,
                FindState, AskProvider, FindLink, FindUser, Read, Crash, SendMail, CreateState,
                Consume, Relink, Attach, SignIn, rows
  <1>5. CASE UNCHANGED vars
    BY <1>5 DEF vars
  <1> QED
    BY <1>1, <1>2, <1>3, <1>4, <1>5 DEF Next, Writes

\* For any number of accounts and requests, an account becomes verified by a letter
\* that went to its address or because the provider tells, for its subject, an
\* address that is verified there: verifyEmail and handleOAuthLogin.
THEOREM VerificationsAreEarned == Spec => VerificationIsEarned
  <1>1. AccountsInv /\ [Next]_vars => [\A a \in AccountId : Earned(a)]_vars
    <2> SUFFICES ASSUME AccountsInv, [Next]_vars, NEW a \in AccountId
                 PROVE  Earned(a)
      OBVIOUS
    <2>1. ASSUME NEW r \in Req, Verify(r) \/ Refresh(r) \/ Insert(r)
          PROVE  Earned(a)
      BY <2>1, VerifyEarns, RefreshEarns, InsertEarns
    <2>2. CASE \A r \in Req : ~Verify(r) /\ ~Refresh(r) /\ ~Insert(r)
      BY <2>2, RestKeeps DEF Earned
    <2> QED
      BY <2>1, <2>2
  <1>2. Spec => [][\A a \in AccountId : Earned(a)]_vars
    BY <1>1, Reachable, PTL DEF Spec
  <1> QED
    BY <1>2 DEF VerificationIsEarned, Earned

-----------------------------------------------------------------------------
(* The contract: what the request that is being served has established     *)

\* A callback that goes on has used its state up, and finds the subject without
\* a link, and brings no telephone number; the suffixes that it has passed over are
\* taken.
Fits(q) ==
    /\ q.pc \in {"name", "insert"} => q.op \in {"register", "callback"}
    /\ q.pc = "token" => q.op = "verify"
    /\ q.pc = "start" => q.op = "start"
    /\ q.pc \in {"email", "name", "insert"} => q.email \in Email
    /\ q.pc \in {"email", "name", "insert"} /\ q.op = "register" => ~q.told
    /\ q.pc = "email" /\ q.op = "resend" => tokens < MaxToken
    /\ q.pc \in {"name", "insert"} /\ q.op = "callback" =>
         /\ q.name.base = BaseOf[q.email]
         /\ \A n \in Nat : n < q.name.suffix =>
              \E a \in AccountId : Known(a) /\ account[a].username = [base |-> q.name.base,
                                                                      suffix |-> n]
    /\ q.pc \in {"provider", "link", "email", "name", "insert"} /\ q.op = "callback" =>
         q.state \in StateId /\ state[q.state] = "gone"
    /\ q.pc \in {"email", "name", "insert"} /\ q.op = "callback" => link[q.who] = 0
    /\ q.pc \in {"state", "consume", "provider", "link", "email", "name", "insert"}
         /\ q.op = "callback" => q.phone = NoPhone
    /\ q.pc = "attach" => q.id # 0 /\ link[q.who] = 0

FreshKnown == \A a \in AccountId : ~Known(a) => ~account[a].fresh

Alone == AccountsInv /\ ~mix.overlap

DirectoryInv == FreshKnown /\ (~mix.overlap => Fits(now))

LEMMA NowIs ==
  ASSUME OneByOne, NEW r \in Req, ~At(r, "idle")
  PROVE  now = req[r]
  <1>1. PICK c : c = CHOOSE s \in Req : ~At(s, "idle")
    OBVIOUS
  <1>2. c \in Req /\ ~At(c, "idle")
    BY <1>1
  <1>3. c = r
    BY <1>2 DEF OneByOne
  <1> QED
    BY <1>1, <1>3 DEF now, Quiet

LEMMA NowBlank == Quiet => now = Blank
  BY DEF now

\* A step of the request that is served, or the arrival of one.
LEMMA Turn ==
  ASSUME Alone, AccountsInv', mix' = mix, NEW r \in Req, NEW m,
         req' = [req EXCEPT ![r] = m], ~At(r, "idle") \/ Quiet,
         m.pc = "idle" => m = Blank
  PROVE  /\ now' = m
         /\ ~At(r, "idle") => now = req[r]
         /\ At(r, "idle") => now = Blank
  <1>1. /\ OneByOne /\ OneByOne' /\ req'[r] = m
        /\ \A s \in Req : s # r => req'[s] = req[s]
    BY DEF Alone, AccountsInv, Inv, TypeOK, Serial
  <1>2. \A s \in Req : s # r => At(s, "idle")
    BY <1>1 DEF OneByOne, Quiet
  <1>3. CASE m.pc = "idle"
    <2>1. Quiet'
      BY <1>1, <1>2, <1>3 DEF Quiet, At
    <2>2. now' = Blank
      BY <2>1 DEF now
    <2> QED
      BY <1>1, <1>3, <2>2, NowIs, NowBlank DEF At
  <1>4. CASE m.pc # "idle"
    <2>1. ~At(r, "idle")' /\ req'[r] = m
      BY <1>1, <1>4 DEF At
    <2>2. now' = req'[r]
      <3>1. PICK c : c = CHOOSE s \in Req : ~At(s, "idle")'
        OBVIOUS
      <3>2. c \in Req /\ ~At(c, "idle")'
        BY <2>1, <3>1
      <3>3. c = r
        BY <1>1, <2>1, <3>2 DEF OneByOne
      <3> QED
        BY <2>1, <3>1, <3>3 DEF now, Quiet
    <2> QED
      BY <1>1, <2>1, <2>2, NowIs, NowBlank DEF At
  <1> QED
    BY <1>3, <1>4

LEMMA Served ==
  ASSUME Alone, NEW r \in Req, ~At(r, "idle")
  PROVE  /\ now = req[r] /\ now \in Request /\ RequestOK(now) /\ SerialAt(now)
         /\ TypeOK /\ AccountsAreDistinct /\ TokensInOrder
  BY NowIs DEF Alone, AccountsInv, Inv, TypeOK, Serial

LEMMA BlankFits == Fits(Blank) /\ Fits(Blank)'
  BY BlankFacts DEF Fits

-----------------------------------------------------------------------------
(* The look-ups, as steps from one request that is served to the next      *)

Same == UNCHANGED <<mix, account, link, state, tokens, mailed>>

SameAsk(n, m) ==
    /\ m.op = n.op /\ m.email = n.email /\ m.token = n.token
    /\ m.state = n.state /\ m.who = n.who /\ m.phone = n.phone

\* What is known of a request that is served.
Serving(n) ==
    n = now /\ n \in Request /\ RequestOK(n) /\ SerialAt(n) /\ TypeOK

LEMMA ReadTurn ==
  ASSUME Alone, AccountsInv', NEW r \in Req, NEW label, label # "idle",
         NEW ok, NEW next, Read(r, label, ok, next), ok => next.pc # "idle"
  PROVE  /\ Serving(req[r]) /\ req[r].pc = label /\ Same
         /\ ok => now' = next
         /\ ~ok => now' = Blank
  <1>1. /\ ~At(r, "idle") /\ Same
        /\ req' = [req EXCEPT ![r] = IF ok THEN next ELSE Blank]
    BY DEF Read, At, Become, rows, secrets, Same
  <1>2. now' = IF ok THEN next ELSE Blank
    <2>1. CASE ok
      BY <1>1, <2>1, Turn DEF Same
    <2>2. CASE ~ok
      <3>1. req' = [req EXCEPT ![r] = Blank]
        BY <1>1, <2>2
      <3> QED
        BY <1>1, <2>2, <3>1, Turn DEF Same
    <2> QED
      BY <2>1, <2>2
  <1> QED
    BY <1>1, <1>2, Served DEF Read, At, Serving

LEMMA FindEmailShape ==
  ASSUME Alone, AccountsInv', NEW r \in Req, FindEmail(r)
  PROVE  \E n, m \in Request, f \in 0..MaxAccount :
           /\ Serving(n) /\ n.pc = "email" /\ m = now' /\ Same
           /\ f # 0 => f \in AccountId /\ Present(f) /\ account[f].email = n.email
           /\ f = 0 => WithEmail(n.email) = {}
           /\ \/ /\ m = Blank
                 /\ \/ n.op = "register" /\ f # 0
                    \/ /\ n.op = "resend"
                       /\ f = 0 \/ account[f].status # "active" \/ account[f].verified
              \/ /\ SameAsk(n, m) /\ m.id = f /\ m.told = n.told
                 /\ \/ n.op = "register" /\ f = 0 /\ m.pc = "name" /\ m.name = n.name
                    \/ /\ n.op = "resend" /\ f # 0 /\ m.pc = "renew"
                       /\ account[f].status = "active" /\ ~account[f].verified
                    \/ /\ n.op = "callback" /\ f = 0 /\ m.pc = "name"
                       /\ m.name = [base |-> BaseOf[n.email], suffix |-> 0]
                    \/ n.op = "callback" /\ f # 0 /\ m.pc = "attach"
  <1> DEFINE ok(q, f) ==
               CASE q.op = "register" -> f = 0
                 [] q.op = "resend"   -> f # 0 /\ account[f].status = "active"
                                               /\ ~account[f].verified
                 [] q.op = "callback" -> TRUE
             next(q, f) ==
               [q EXCEPT !.id = f,
                         !.pc = CASE q.op = "register" -> "name"
                                  [] q.op = "resend"   -> "renew"
                                  [] q.op = "callback" -> IF f = 0 THEN "name"
                                                          ELSE "attach",
                         !.name = IF q.op = "callback"
                                  THEN [base |-> BaseOf[q.email], suffix |-> 0] ELSE @]
  <1>0. req[r] \in Request /\ RequestOK(req[r]) /\ At(r, "email")
    BY DEF Alone, AccountsInv, Inv, TypeOK, FindEmail, Read
  <1>1. PICK n \in Request : n = req[r]
    BY <1>0
  <1>2. n.pc = "email" /\ n.op \in {"register", "resend", "callback"} /\ n.email \in Email
    BY <1>0, <1>1 DEF RequestOK, At
  <1>3. WithEmail(n.email) \in SUBSET AccountId
    BY DEF WithEmail
  <1>4. PICK f \in 0..MaxAccount : f = One(WithEmail(n.email))
    BY <1>3, OneFacts
  <1>5. /\ f # 0 => f \in WithEmail(n.email)
        /\ f = 0 => WithEmail(n.email) = {}
    <2>1. f # 0 => f \in WithEmail(n.email)
      BY <1>3, <1>4, OneFacts
    <2>2. ASSUME WithEmail(n.email) # {} PROVE f # 0
      <3>1. One(WithEmail(n.email)) \in WithEmail(n.email)
        BY <2>2 DEF One
      <3> QED
        BY <1>3, <1>4, <3>1 DEF AccountId
    <2> QED
      BY <2>1, <2>2
  <1>6. f # 0 => f \in AccountId /\ Present(f) /\ account[f].email = n.email
    BY <1>5 DEF WithEmail
  <1>7. Read(r, "email", ok(n, f), next(n, f))
    BY <1>1, <1>4 DEF FindEmail
  <1>8. BaseOf[n.email] \in Base
    BY <1>2
  <1>9. ASSUME NEW m, m = next(n, f), m \in Request, m.pc # "idle"
        PROVE  /\ Serving(n) /\ Same
               /\ ok(n, f) => now' = m
               /\ ~ok(n, f) => now' = Blank
    <2> HIDE DEF ok, next
    <2> QED
      BY <1>1, <1>7, <1>9, ReadTurn
  <1>a. CASE n.op = "register"
    <2>1. ok(n, f) <=> f = 0
      BY <1>a
    <2> DEFINE m == [n EXCEPT !.id = f, !.pc = "name"]
    <2>2. next(n, f) = m
      BY <1>a DEF Request
    <2>3. /\ m \in Request /\ m.pc = "name" /\ m.id = f /\ m.name = n.name
          /\ m.told = n.told /\ SameAsk(n, m)
      BY DEF Request, Label, SameAsk
    <2> HIDE DEF ok, next, m
    <2> QED
      BY <1>2, <1>5, <1>6, <1>9, <1>a, <2>1, <2>2, <2>3, BlankFacts
  <1>b. CASE n.op = "resend"
    <2>1. ok(n, f) <=> f # 0 /\ account[f].status = "active" /\ ~account[f].verified
      BY <1>b
    <2> DEFINE m == [n EXCEPT !.id = f, !.pc = "renew"]
    <2>2. next(n, f) = m
      BY <1>b DEF Request
    <2>3. /\ m \in Request /\ m.pc = "renew" /\ m.id = f
          /\ m.told = n.told /\ SameAsk(n, m)
      BY DEF Request, Label, SameAsk
    <2> HIDE DEF ok, next, m
    <2> QED
      BY <1>2, <1>5, <1>6, <1>9, <1>b, <2>1, <2>2, <2>3, BlankFacts
  <1>c. CASE n.op = "callback"
    <2>1. ok(n, f)
      BY <1>c
    <2>0. PICK pc : pc = IF f = 0 THEN "name" ELSE "attach"
      OBVIOUS
    <2> DEFINE m == [n EXCEPT !.id = f, !.pc = pc,
                              !.name = [base |-> BaseOf[n.email], suffix |-> 0]]
    <2>2. next(n, f) = m
      BY <1>c, <2>0
    <2>3. [base |-> BaseOf[n.email], suffix |-> 0] \in Name
      BY <1>8 DEF Name
    <2>4. /\ m \in Request /\ m.pc = pc /\ m.id = f
          /\ m.name = [base |-> BaseOf[n.email], suffix |-> 0]
          /\ m.told = n.told /\ SameAsk(n, m)
      BY <2>0, <2>3 DEF Request, Label, SameAsk
    <2> HIDE DEF ok, next, m
    <2> QED
      BY <1>2, <1>5, <1>6, <1>9, <1>c, <2>0, <2>1, <2>2, <2>4, BlankFacts
  <1> QED
    BY <1>2, <1>a, <1>b, <1>c

LEMMA FindNameShape ==
  ASSUME Alone, AccountsInv', NEW r \in Req, FindName(r)
  PROVE  \E n, m \in Request :
           /\ Serving(n) /\ n.pc = "name" /\ m = now' /\ Same
           /\ \/ /\ m = Blank /\ n.op # "callback"
                 /\ \E a \in AccountId : Known(a) /\ account[a].username = n.name
              \/ /\ SameAsk(n, m) /\ m.told = n.told
                 /\ \/ m.pc = "insert" /\ m.name = n.name
                    \/ /\ m.pc = "name" /\ n.op = "callback"
                       /\ m.name.base = n.name.base /\ m.name.suffix = n.name.suffix + 1
                       /\ \E a \in AccountId :
                            Known(a) /\ account[a].username = n.name
  <1>1. PICK n : n = req[r]
    OBVIOUS
  <1>2. n \in Request
    BY <1>1 DEF Alone, AccountsInv, Inv, TypeOK
  <1>3. PICK free \in BOOLEAN : free <=> WithName(n.name) = {}
    OBVIOUS
  <1>4. ~free => \E a \in AccountId : Known(a) /\ account[a].username = n.name
    BY <1>3 DEF WithName, Present, Known
  <1>5. Read(r, "name", free \/ n.op = "callback",
             IF free THEN [n EXCEPT !.pc = "insert"]
             ELSE [n EXCEPT !.name.suffix = @ + 1])
    BY <1>1, <1>3 DEF FindName
  <1>6. CASE free
    <2> DEFINE m == [n EXCEPT !.pc = "insert"]
    <2>1. /\ m \in Request /\ m.pc = "insert" /\ m.name = n.name
          /\ m.told = n.told /\ SameAsk(n, m)
      BY <1>2 DEF Request, Label, SameAsk
    <2>2. Read(r, "name", TRUE, m)
      BY <1>5, <1>6
    <2> HIDE DEF m
    <2>3. Serving(n) /\ n.pc = "name" /\ Same /\ now' = m
      BY <1>1, <2>1, <2>2, ReadTurn
    <2> QED
      BY <1>2, <2>1, <2>3
  <1>7. CASE ~free /\ n.op = "callback"
    <2> DEFINE m == [n EXCEPT !.name.suffix = @ + 1]
    <2>0. Read(r, "name", TRUE, m)
      BY <1>5, <1>7
    <2>1. [n.name EXCEPT !.suffix = @ + 1] \in Name
      BY <1>2 DEF Request, Name
    <2>2. At(r, "name")
      BY <2>0 DEF Read
    <2>3. n.pc = "name"
      BY <1>1, <2>2 DEF At
    <2>4. m = [n EXCEPT !.name = [n.name EXCEPT !.suffix = @ + 1]]
      OBVIOUS
    <2>5. /\ m \in Request /\ m.pc = "name" /\ m.name = [n.name EXCEPT !.suffix = @ + 1]
          /\ m.told = n.told /\ SameAsk(n, m)
      BY <1>2, <2>1, <2>3, <2>4 DEF Request, Label, SameAsk
    <2>6. m.name.base = n.name.base /\ m.name.suffix = n.name.suffix + 1
      <3>1. n.name \in Name
        BY <1>2 DEF Request
      <3> QED
        BY <2>5, <3>1 DEF Name
    <2> HIDE DEF m
    <2>7. Serving(n) /\ Same /\ now' = m
      BY <1>1, <2>0, <2>5, ReadTurn
    <2> QED
      BY <1>2, <1>4, <1>7, <2>3, <2>5, <2>6, <2>7
  <1>8. CASE ~free /\ n.op # "callback"
    <2>1. Read(r, "name", FALSE, Blank)
      BY <1>5, <1>8 DEF Read
    <2>2. Serving(n) /\ n.pc = "name" /\ Same /\ now' = Blank
      BY <1>1, <2>1, ReadTurn
    <2> QED
      BY <1>2, <1>4, <1>8, <2>2, BlankFacts
  <1> QED
    BY <1>6, <1>7, <1>8

LEMMA FindTokenShape ==
  ASSUME Alone, AccountsInv', NEW r \in Req, FindToken(r)
  PROVE  \E n, m \in Request, f \in 0..MaxAccount :
           /\ Serving(n) /\ n.pc = "token" /\ m = now' /\ Same
           /\ f # 0 => f \in AccountId /\ Present(f) /\ account[f].token = n.token
           /\ f = 0 => ~\E a \in AccountId : Present(a) /\ account[a].token = n.token
           /\ \/ m = Blank /\ (f = 0 \/ ~account[f].fresh)
              \/ f # 0 /\ account[f].fresh /\ m.pc = "verify" /\ m.id = f
  <1>1. PICK n : n = req[r]
    OBVIOUS
  <1>2. n \in Request
    BY <1>1 DEF Alone, AccountsInv, Inv, TypeOK
  <1> DEFINE owners == {a \in AccountId : Present(a) /\ account[a].token = n.token}
  <1>3. owners \in SUBSET AccountId
    OBVIOUS
  <1>4. PICK f \in 0..MaxAccount : f = One(owners)
    BY <1>3, OneFacts
  <1>5. (f # 0 => f \in owners) /\ (f = 0 => owners = {})
    <2>1. f # 0 => f \in owners
      BY <1>3, <1>4, OneFacts
    <2>2. ASSUME owners # {} PROVE f # 0
      <3>1. One(owners) \in owners
        BY <2>2 DEF One
      <3> QED
        BY <1>4, <3>1 DEF AccountId
    <2> QED
      BY <2>1, <2>2
  <1> DEFINE m == [n EXCEPT !.pc = "verify", !.id = f]
  <1>6. Read(r, "token", f # 0 /\ account[f].fresh, m)
    BY <1>1, <1>4 DEF FindToken
  <1>7. m \in Request /\ m.pc = "verify" /\ m.id = f
    BY <1>2 DEF Request, Label
  <1>a. /\ f # 0 => f \in AccountId /\ Present(f) /\ account[f].token = n.token
        /\ f = 0 => ~\E a \in AccountId : Present(a) /\ account[a].token = n.token
    BY <1>5
  <1> HIDE DEF m, owners
  <1>8. /\ Serving(n) /\ n.pc = "token" /\ Same
        /\ f # 0 /\ account[f].fresh => now' = m
        /\ ~(f # 0 /\ account[f].fresh) => now' = Blank
    BY <1>1, <1>6, <1>7, ReadTurn
  <1> QED
    BY <1>2, <1>7, <1>8, <1>a, BlankFacts

LEMMA FindStateShape ==
  ASSUME Alone, AccountsInv', NEW r \in Req, FindState(r)
  PROVE  \E n, m \in Request :
           /\ Serving(n) /\ n.pc = "state" /\ n.op = "callback" /\ m = now' /\ Same
           /\ \/ m = Blank
              \/ /\ state[n.state] = n.who.provider
                 /\ m.pc = "consume" /\ SameAsk(n, m) /\ m.told = n.told
  <1>1. PICK n : n = req[r]
    OBVIOUS
  <1>2. n \in Request /\ RequestOK(n)
    BY <1>1 DEF Alone, AccountsInv, Inv, TypeOK
  <1> DEFINE m == [n EXCEPT !.pc = "consume"]
  <1>3. Read(r, "state", state[n.state] = n.who.provider, m)
    BY <1>1 DEF FindState
  <1>4. m \in Request /\ m.pc = "consume" /\ SameAsk(n, m) /\ m.told = n.told
    BY <1>2 DEF Request, Label, SameAsk
  <1> HIDE DEF m
  <1>5. /\ Serving(n) /\ n.pc = "state" /\ Same
        /\ state[n.state] = n.who.provider => now' = m
        /\ state[n.state] # n.who.provider => now' = Blank
    BY <1>1, <1>3, <1>4, ReadTurn
  <1>6. n.op = "callback"
    BY <1>2, <1>5 DEF RequestOK
  <1> QED
    BY <1>2, <1>4, <1>5, <1>6, BlankFacts

LEMMA AskProviderShape ==
  ASSUME Alone, AccountsInv', NEW r \in Req, AskProvider(r)
  PROVE  \E n, m \in Request :
           /\ Serving(n) /\ n.pc = "provider" /\ n.op = "callback" /\ m = now' /\ Same
           /\ \/ m = Blank
              \/ /\ m.pc = "link" /\ m.op = n.op /\ m.token = n.token
                 /\ m.state = n.state /\ m.who = n.who /\ m.phone = n.phone
  <1>1. PICK email \in Email \cup {NoEmail}, told \in BOOLEAN, answers \in BOOLEAN :
          Read(r, "provider", answers /\ (req[r].who.provider \in Insists => email # NoEmail),
               [req[r] EXCEPT !.pc = "link", !.email = email, !.told = told])
    BY DEF AskProvider
  <1>2. PICK n, ok : /\ n = req[r]
                     /\ ok = (answers /\ (n.who.provider \in Insists => email # NoEmail))
    OBVIOUS
  <1>3. n \in Request /\ RequestOK(n)
    BY <1>2 DEF Alone, AccountsInv, Inv, TypeOK
  <1> DEFINE m == [n EXCEPT !.pc = "link", !.email = email, !.told = told]
  <1>4. /\ m \in Request /\ m.pc = "link" /\ m.op = n.op /\ m.token = n.token
        /\ m.state = n.state /\ m.who = n.who /\ m.phone = n.phone
    BY <1>3 DEF Request, Label
  <1>5. Read(r, "provider", ok, m)
    BY <1>1, <1>2
  <1> HIDE DEF m
  <1>6. /\ Serving(n) /\ n.pc = "provider" /\ Same
        /\ ok => now' = m
        /\ ~ok => now' = Blank
    BY <1>2, <1>4, <1>5, ReadTurn
  <1>7. n.op = "callback"
    BY <1>3, <1>6 DEF RequestOK
  <1> QED
    BY <1>3, <1>4, <1>6, <1>7, BlankFacts

LEMMA FindLinkShape ==
  ASSUME Alone, AccountsInv', NEW r \in Req, FindLink(r)
  PROVE  \E n, m \in Request, a \in 0..MaxAccount :
           /\ Serving(n) /\ n.pc = "link" /\ n.op = "callback"
           /\ m = now' /\ Same /\ a = link[n.who]
           /\ \/ m = Blank
              \/ /\ a = 0 /\ n.email \in Email /\ m.pc = "email" /\ SameAsk(n, m)
              \/ /\ a \in AccountId /\ m.pc = "relink" /\ m.id = a /\ m.who = n.who
                 /\ m.told = n.told
  <1>1. PICK n : n = req[r]
    OBVIOUS
  <1>2. n \in Request /\ RequestOK(n) /\ TypeOK
    BY <1>1 DEF Alone, AccountsInv, Inv, TypeOK
  <1>3. PICK a \in 0..MaxAccount : a = link[n.who]
    BY <1>2 DEF TypeOK, Request
  <1>4. Read(r, "link", a # 0 \/ n.email # NoEmail,
             IF a = 0 THEN [n EXCEPT !.pc = "email"]
             ELSE [n EXCEPT !.pc = "relink", !.id = a, !.was = account[a].verified])
    BY <1>1, <1>3 DEF FindLink
  <1>5. At(r, "link")
    BY <1>4 DEF Read
  <1>6. n.pc = "link" /\ n.op = "callback"
    BY <1>1, <1>2, <1>5 DEF At, RequestOK
  <1>7. CASE a = 0
    <2> DEFINE m == [n EXCEPT !.pc = "email"]
    <2>1. m \in Request /\ m.pc = "email" /\ SameAsk(n, m)
      BY <1>2 DEF Request, Label, SameAsk
    <2>2. Read(r, "link", n.email # NoEmail, m)
      BY <1>4, <1>7
    <2> HIDE DEF m
    <2>3. /\ Serving(n) /\ Same
          /\ n.email # NoEmail => now' = m
          /\ n.email = NoEmail => now' = Blank
      BY <1>1, <2>1, <2>2, ReadTurn
    <2>4. n.email # NoEmail => n.email \in Email
      BY <1>2 DEF Request
    <2> QED
      BY <1>2, <1>3, <1>6, <1>7, <2>1, <2>3, <2>4, BlankFacts
  <1>8. CASE a # 0
    <2>1. a \in AccountId /\ account[a].verified \in BOOLEAN
      BY <1>2, <1>8 DEF AccountId, TypeOK, Account
    <2> DEFINE m == [n EXCEPT !.pc = "relink", !.id = a, !.was = account[a].verified]
    <2>2. /\ m \in Request /\ m.pc = "relink" /\ m.id = a /\ m.who = n.who
          /\ m.told = n.told
      BY <1>2, <2>1 DEF Request, Label
    <2>3. Read(r, "link", TRUE, m)
      BY <1>4, <1>8
    <2> HIDE DEF m
    <2>4. Serving(n) /\ Same /\ now' = m
      BY <1>1, <2>2, <2>3, ReadTurn
    <2> QED
      BY <1>2, <1>3, <1>6, <2>1, <2>2, <2>4
  <1> QED
    BY <1>7, <1>8

LEMMA FindUserShape ==
  ASSUME Alone, AccountsInv', NEW r \in Req, FindUser(r)
  PROVE  \E n, m \in Request :
           /\ Serving(n) /\ n.pc = "user" /\ m = now' /\ Same
           /\ \/ m = Blank /\ account[n.id].status # "active"
              \/ m.pc = "phone" /\ SameAsk(n, m) /\ m.id = n.id /\ m.name = n.name
  <1>1. PICK n : n = req[r]
    OBVIOUS
  <1>2. n \in Request
    BY <1>1 DEF Alone, AccountsInv, Inv, TypeOK
  <1> DEFINE m == [n EXCEPT !.pc = "phone"]
  <1>3. Read(r, "user", account[n.id].status = "active", m)
    BY <1>1 DEF FindUser
  <1>4. m \in Request /\ m.pc = "phone" /\ SameAsk(n, m) /\ m.id = n.id /\ m.name = n.name
    BY <1>2 DEF Request, Label, SameAsk
  <1> HIDE DEF m
  <1>5. /\ Serving(n) /\ n.pc = "user" /\ Same
        /\ account[n.id].status = "active" => now' = m
        /\ account[n.id].status # "active" => now' = Blank
    BY <1>1, <1>3, <1>4, ReadTurn
  <1> QED
    BY <1>2, <1>4, <1>5, BlankFacts

-----------------------------------------------------------------------------
(* The look-ups keep what the contract needs, and are steps of it          *)

Facing(n, m) == n = now /\ m = now' /\ n \in Request /\ m \in Request /\ TypeOK

KeepsSeen == [Contract!CNext]_(Contract!cvars)

\* What a request that will decide later sees of the tables.
LEMMA Pondering ==
  ASSUME NEW n, NEW m, Facing(n, m), UNCHANGED <<account, link, tokens, mailed>>,
         Undecided(n), Undecided(m),
         m.op = n.op, m.token = n.token, m.state = n.state, m.who = n.who,
         m.phone = n.phone, n.op # "profile" \/ m.id = n.id,
         n.op = "callback" \/ (m.email = n.email /\ m.name = n.name),
         doors' = doors
  PROVE  KeepsSeen
  <1>1. /\ n.pc \notin {"verify", "relink", "refresh", "attach", "mail", "renew"}
        /\ m.pc \notin {"verify", "relink", "refresh", "attach", "mail", "renew"}
    BY DEF Undecided
  <1>2. people' = people /\ subjects' = subjects /\ letters' = letters /\ keys' = keys
    BY <1>1 DEF Facing, people, Verifying, subjects, letters, keys
  <1>3. Asked(m) = Asked(n)
    BY DEF Asked
  <1>4. asked' = asked
    BY <1>3 DEF Facing, asked
  <1> QED
    BY <1>2, <1>4 DEF KeepsSeen, Contract!cvars

LEMMA DoorsSame ==
  ASSUME NEW n, NEW m, Facing(n, m), state' = state, Holding(n) <=> Holding(m),
         n.state = m.state, n.who = m.who
  PROVE  doors' = doors
  BY DEF doors, Facing

\* An end without a decision.
LEMMA Giving ==
  ASSUME NEW n \in Request, Facing(n, Blank), Same, Undecided(n),
         Holding(n) => state[n.state] = "gone",
         \/ /\ n.op = "register"
            /\ \/ ~Contract!AddressFree(n.email) \/ ~Contract!NameFree(n.name)
               \/ \A a \in AccountId : ~Contract!Known(a) => ~Contract!PhoneFree(a, n.phone)
         \/ /\ n.op = "profile"
            /\ people[n.id].status # "active" \/ ~Contract!PhoneFree(n.id, n.phone)
         \/ n.op = "resend" /\ ~\E a \in AccountId : Contract!Awaits(a, n.email)
         \/ n.op = "verify" /\ ~\E a \in AccountId :
                                   Contract!Present(a) /\ keys[a] = n.token
         \/ n.op = "callback"
  PROVE  KeepsSeen
  <1>1. /\ n.pc \notin {"verify", "relink", "refresh", "attach", "mail", "renew"}
        /\ Blank.pc = "idle"
    BY BlankFacts DEF Undecided
  <1>2. people' = people /\ subjects' = subjects /\ letters' = letters /\ keys' = keys
    BY <1>1 DEF Facing, people, Verifying, subjects, letters, keys, Same
  <1>3. doors' # doors => n.op = "callback" /\ doors' = [doors EXCEPT ![n.state] = "gone"]
    <2>1. ~Holding(Blank)
      BY <1>1 DEF Holding, Undecided
    <2>2. doors' = state
      <3>1. state = [s \in StateId |-> state[s]]
        BY DEF Facing, TypeOK
      <3>2. doors' = [s \in StateId |-> state[s]]
        BY <2>1 DEF doors, Facing, Same
      <3> QED
        BY <3>1, <3>2
    <2>3. CASE Holding(n)
      <3>1. n.op = "callback"
        BY <2>3 DEF Holding
      <3>2. \A s \in StateId : state[s] = IF s = n.state THEN "gone" ELSE doors[s]
        BY <2>3 DEF doors, Facing
      <3>3. doors \in [StateId -> {doors[s] : s \in StateId}]
        BY DEF doors
      <3>4. state = [doors EXCEPT ![n.state] = "gone"]
        <4>1. state \in [StateId -> Provider \cup {"none", "gone"}]
          BY DEF Facing, TypeOK
        <4>2. DOMAIN doors = StateId
          BY DEF doors
        <4> QED
          BY <3>2, <3>3, <4>1, <4>2
      <3> QED
        BY <2>2, <3>1, <3>4
    <2>4. CASE ~Holding(n)
      <3>1. doors = [s \in StateId |-> state[s]]
        BY <2>4 DEF doors, Facing
      <3>2. state = [s \in StateId |-> state[s]]
        BY DEF Facing, TypeOK
      <3> QED
        BY <2>2, <3>1, <3>2
    <2> QED
      BY <2>3, <2>4
  <1>4. asked = {Asked(n)} /\ asked' = {}
    BY <1>1 DEF asked, Facing, Undecided
  <1>5. PICK g : g = Asked(n)
    OBVIOUS
  <1>6. /\ g.op = n.op /\ g.letter = n.token /\ g.state = n.state
        /\ g.phone = n.phone /\ (n.op = "profile" => g.person = n.id)
        /\ n.op # "callback" => g.email = n.email /\ g.name = n.name
    BY <1>5 DEF Asked
  <1>7. /\ \/ /\ g.op = "register"
              /\ \/ ~Contract!AddressFree(g.email) \/ ~Contract!NameFree(g.name)
                 \/ \A a \in AccountId :
                       ~Contract!Known(a) => ~Contract!PhoneFree(a, g.phone)
           \/ /\ g.op = "profile"
              /\ people[g.person].status # "active" \/ ~Contract!PhoneFree(g.person, g.phone)
           \/ g.op = "resend" /\ ~\E a \in AccountId : Contract!Awaits(a, g.email)
           \/ g.op = "verify" /\ ~\E a \in AccountId :
                                     Contract!Present(a) /\ keys[a] = g.letter
           \/ g.op = "callback"
    <2>1. CASE n.op = "register"
      BY <1>6, <2>1
    <2>2. CASE n.op = "resend"
      BY <1>6, <2>2
    <2>3. CASE n.op = "verify"
      BY <1>6, <2>3
    <2>4. CASE n.op = "callback"
      BY <1>6, <2>4
    <2>5. CASE n.op = "profile"
      BY <1>6, <2>5
    <2> QED
      BY <2>1, <2>2, <2>3, <2>4, <2>5
  <1>8. Contract!Refuse(g)
    BY <1>2, <1>3, <1>6, <1>7 DEF Contract!Refuse
  <1>9. Contract!Decide(g) /\ g \in asked
    BY <1>4, <1>5, <1>8 DEF Contract!Decide
  <1> QED
    BY <1>9 DEF Contract!CNext, KeepsSeen

Ready == Alone /\ DirectoryInv

\* What the contract sees of the rows.
LEMMA Rows ==
  ASSUME NEW n, n = now
  PROVE  /\ \A a \in AccountId :
              /\ people[a].status = account[a].status
              /\ people[a].email = account[a].email
              /\ people[a].username = account[a].username
              /\ people[a].phone = account[a].phone
              /\ people[a].verified = (account[a].verified \/ Verifying(n, a))
              /\ Contract!Known(a) <=> Known(a)
              /\ Contract!Present(a) <=> Present(a)
         /\ people = [a \in AccountId |-> people[a]]
  <1>1. people = [a \in AccountId |->
                    [status |-> account[a].status, email |-> account[a].email,
                     username |-> account[a].username, phone |-> account[a].phone,
                     verified |-> account[a].verified \/ Verifying(n, a)]]
    BY DEF people
  <1>2. \A a \in AccountId :
              /\ people[a].status = account[a].status
              /\ people[a].email = account[a].email
              /\ people[a].username = account[a].username
              /\ people[a].phone = account[a].phone
              /\ people[a].verified = (account[a].verified \/ Verifying(n, a))
    BY <1>1
  <1>3. people = [a \in AccountId |-> people[a]]
    BY <1>1
  <1> QED
    BY <1>2, <1>3 DEF Contract!Known, Contract!Present, Known, Present

LEMMA FitsSame ==
  ASSUME NEW m, Same, Fits(m)
  PROVE  Fits(m)'
  BY DEF Same, Fits, Known

LEMMA DoorsLeave ==
  ASSUME NEW n, NEW m, Facing(n, m), state' = state, Holding(n), ~Holding(m),
         n.state \in StateId, state[n.state] = "gone"
  PROVE  /\ doors[n.state] = n.who.provider
         /\ doors' = [doors EXCEPT ![n.state] = "gone"]
  <1>1. \A s \in StateId : doors[s] = IF s = n.state THEN n.who.provider ELSE state[s]
    BY DEF doors, Facing
  <1>2. doors' = [s \in StateId |-> state[s]]
    BY DEF doors, Facing
  <1>3. doors = [s \in StateId |-> IF s = n.state THEN n.who.provider ELSE state[s]]
    BY DEF doors, Facing
  <1> QED
    BY <1>1, <1>2, <1>3

\* A decision: what is asked is asked no more.
LEMMA Deciding ==
  ASSUME NEW n, NEW m, Facing(n, m), Undecided(n), ~Undecided(m),
         NEW g, g = Asked(n),
         \/ Contract!Register(g) \/ Contract!Resend(g) \/ Contract!Verify(g)
         \/ Contract!Start(g) \/ Contract!SignIn(g) \/ Contract!SetPhone(g)
  PROVE  KeepsSeen
  <1>1. asked = {g} /\ asked' = {}
    BY DEF asked, Facing
  <1> QED
    BY <1>1 DEF Contract!Decide, Contract!CNext, KeepsSeen

LEMMA OneWithEmail ==
  ASSUME AccountsAreDistinct, NEW a \in AccountId, NEW b \in AccountId,
         Known(a), Known(b), account[a].email = account[b].email
  PROVE  a = b
  BY DEF AccountsAreDistinct

\* A callback that ends in its account: by the subject or by the address.
LEMMA SigningIn ==
  ASSUME NEW n, NEW m, Facing(n, m), n.op = "callback", Undecided(n), ~Undecided(m),
         n.pc \in {"link", "email", "insert"}, state' = state, n.state \in StateId,
         state[n.state] = "gone", letters' = letters, keys' = keys,
         \E told \in BOOLEAN :
            \/ Contract!Return(n.who, told)
            \/ /\ n.email \in Email
               /\ Contract!Adopt(n.who, n.email) \/ Contract!Create(n.who, n.email, told)
  PROVE  KeepsSeen
  <1>1. Holding(n) /\ ~Holding(m)
    BY DEF Holding
  <1>2. /\ doors[n.state] = n.who.provider
        /\ doors' = [doors EXCEPT ![n.state] = "gone"]
    BY <1>1, DoorsLeave
  <1>3. PICK g : g = Asked(n)
    OBVIOUS
  <1>4. g.op = "callback" /\ g.state = n.state /\ g.who = n.who
    BY <1>3 DEF Asked
  <1>5. Contract!SignIn(g)
    BY <1>2, <1>4 DEF Contract!SignIn
  <1> QED
    BY <1>3, <1>5, Deciding

LEMMA FindEmailKeeps ==
  ASSUME Ready, AccountsInv', NEW r \in Req, FindEmail(r)
  PROVE  Fits(now)' /\ KeepsSeen
  <1>1. PICK n, m \in Request, f \in 0..MaxAccount :
           /\ Serving(n) /\ n.pc = "email" /\ m = now' /\ Same
           /\ f # 0 => f \in AccountId /\ Present(f) /\ account[f].email = n.email
           /\ f = 0 => WithEmail(n.email) = {}
           /\ \/ /\ m = Blank
                 /\ \/ n.op = "register" /\ f # 0
                    \/ /\ n.op = "resend"
                       /\ f = 0 \/ account[f].status # "active" \/ account[f].verified
              \/ /\ SameAsk(n, m) /\ m.id = f /\ m.told = n.told
                 /\ \/ n.op = "register" /\ f = 0 /\ m.pc = "name" /\ m.name = n.name
                    \/ /\ n.op = "resend" /\ f # 0 /\ m.pc = "renew"
                       /\ account[f].status = "active" /\ ~account[f].verified
                    \/ /\ n.op = "callback" /\ f = 0 /\ m.pc = "name"
                       /\ m.name = [base |-> BaseOf[n.email], suffix |-> 0]
                    \/ n.op = "callback" /\ f # 0 /\ m.pc = "attach"
    BY FindEmailShape DEF Ready
  <1>2. /\ Facing(n, m) /\ Fits(n) /\ Undecided(n) /\ n.email \in Email
        /\ AccountsAreDistinct /\ TokensInOrder /\ FreshKnown
    BY <1>1 DEF Facing, Serving, Ready, Alone, DirectoryInv, AccountsInv, Inv, Fits,
                Undecided
  <1>3. f # 0 => Known(f)
    BY <1>1 DEF Present, Known
  <1>4. CASE m = Blank
    <2>1. Fits(now)'
      BY <1>1, <1>4, BlankFits
    <2>2. ~Holding(n)
      BY <1>1, <1>4, BlankFacts DEF Holding
    <2>3. CASE n.op = "register" /\ f # 0
      <3>1. ~Contract!AddressFree(n.email)
        BY <1>1, <1>2, <1>3, <2>3, Rows DEF Contract!AddressFree, Facing
      <3> QED
        BY <1>2, <1>4, <1>1, <2>1, <2>2, <2>3, <3>1, Giving
    <2>4. CASE n.op = "resend"
      <3>1. ASSUME NEW a \in AccountId, Contract!Awaits(a, n.email)
            PROVE  FALSE
        <4>1. /\ account[a].status = "active" /\ account[a].email = n.email
              /\ ~account[a].verified
          BY <1>2, <3>1, Rows DEF Contract!Awaits, Facing
        <4>2. Present(a) /\ Known(a) /\ a \in WithEmail(n.email)
          BY <4>1 DEF Present, Known, WithEmail
        <4>3. a = f
          BY <1>1, <1>2, <1>3, <4>1, <4>2, OneWithEmail
        <4> QED
          BY <1>1, <1>4, <2>4, <4>1, <4>2, <4>3, BlankFacts
      <3> QED
        BY <1>2, <1>4, <1>1, <2>1, <2>2, <2>4, <3>1, Giving
    <2> QED
      BY <1>1, <1>4, <2>3, <2>4, BlankFacts
  <1>5. CASE n.op = "register" /\ m.pc = "name" /\ m.name = n.name /\ SameAsk(n, m)
             /\ m.told = n.told
    <2>1. Fits(m)
      BY <1>1, <1>2, <1>5 DEF Fits, SameAsk
    <2>2. Undecided(m) /\ (Holding(n) <=> Holding(m))
      BY <1>5 DEF Undecided, Holding, SameAsk
    <2>3. KeepsSeen
      BY <1>1, <1>2, <1>5, <2>2, Pondering, DoorsSame DEF SameAsk, Same
    <2> QED
      BY <1>1, <2>1, <2>3, FitsSame
  <1>6. CASE /\ n.op = "callback" /\ m.pc = "name" /\ SameAsk(n, m)
             /\ m.name = [base |-> BaseOf[n.email], suffix |-> 0]
    <2>1. /\ m.name.base = BaseOf[m.email]
          /\ \A i \in Nat : ~(i < m.name.suffix)
      BY <1>6 DEF SameAsk
    <2>2. Fits(m)
      BY <1>1, <1>2, <1>6, <2>1 DEF Fits, SameAsk
    <2>3. Undecided(m) /\ (Holding(n) <=> Holding(m))
      BY <1>1, <1>2, <1>6 DEF Undecided, Holding, SameAsk
    <2>4. KeepsSeen
      BY <1>1, <1>2, <1>6, <2>3, Pondering, DoorsSame DEF SameAsk, Same
    <2> QED
      BY <1>1, <2>2, <2>4, FitsSame
  <1>7. CASE /\ n.op = "resend" /\ f # 0 /\ m.pc = "renew" /\ SameAsk(n, m) /\ m.id = f
             /\ account[f].status = "active" /\ ~account[f].verified
    <2>1. Fits(m)
      BY <1>7 DEF Fits
    <2>2. ~Undecided(m) /\ ~Holding(n) /\ ~Holding(m)
      BY <1>7 DEF Undecided, Holding, SameAsk
    <2>3. people' = people /\ subjects' = subjects /\ doors' = doors
      BY <1>1, <1>2, <1>7, <2>2
        DEF Facing, people, Verifying, subjects, doors, Same
    <2>4. PICK t : t = tokens + 1
      OBVIOUS
    <2>5. t \in Token /\ t > tokens /\ tokens \in Nat
      BY <1>1, <1>2, <1>7, <2>4 DEF Fits, Facing, TypeOK, Token
    <2>6. mailed[t] = NoEmail
      BY <1>2, <2>5 DEF TokensInOrder, Token
    <2>7. letters = [x \in Token |-> mailed[x]]
      BY <1>1, <1>2 DEF letters, Facing
    <2>8. letters' = [x \in Token |-> IF x = t THEN n.email ELSE mailed[x]]
      BY <1>1, <1>2, <1>7, <2>4 DEF letters, Facing, Same, SameAsk
    <2>9. keys = [a \in AccountId |-> IF account[a].fresh THEN account[a].token ELSE 0]
      BY <1>1, <1>2 DEF keys, Facing
    <2>a. keys' = [a \in AccountId |-> IF a = f THEN t
                     ELSE IF account[a].fresh THEN account[a].token ELSE 0]
      BY <1>1, <1>2, <1>7, <2>4 DEF keys, Facing, Same
    <2>b. letters[t] = NoEmail /\ letters' = [letters EXCEPT ![t] = n.email]
      BY <2>5, <2>6, <2>7, <2>8
    <2>c. keys' = [keys EXCEPT ![f] = t]
      BY <2>9, <2>a
    <2>d. PICK g : g = Asked(n)
      OBVIOUS
    <2>e. g.op = "resend" /\ g.email = n.email
      BY <1>7, <2>d DEF Asked
    <2>f. Contract!Awaits(f, g.email) /\ f \in AccountId
      <3>1. ~people[f].verified
        BY <1>1, <1>2, <1>7, Rows DEF Facing, Verifying
      <3> QED
        BY <1>1, <1>2, <1>7, <2>e, <3>1, Rows DEF Facing, Contract!Awaits
    <2>g. Contract!Send(f, g.email)
      BY <2>5, <2>b, <2>c, <2>e DEF Contract!Send
    <2>h. Contract!Resend(g)
      BY <2>3, <2>e, <2>f, <2>g DEF Contract!Resend
    <2> QED
      BY <1>1, <1>2, <2>1, <2>2, <2>d, <2>h, Deciding, FitsSame
  <1>8. CASE n.op = "callback" /\ f # 0 /\ m.pc = "attach" /\ SameAsk(n, m) /\ m.id = f
    <2>1. link[n.who] = 0 /\ n.state \in StateId /\ state[n.state] = "gone"
      BY <1>1, <1>2, <1>8 DEF Fits
    <2>2. Fits(m)
      BY <1>8, <2>1 DEF Fits, SameAsk
    <2>3. ~Undecided(m)
      BY <1>8 DEF Undecided
    <2>4. /\ people' = people /\ letters' = letters /\ keys' = keys
      BY <1>1, <1>2, <1>8 DEF Facing, people, Verifying, letters, keys, Same
    <2>5. subjects = [i \in Identity |-> link[i]]
      BY <1>1, <1>2 DEF subjects, Facing
    <2>6. subjects' = [i \in Identity |-> IF i = n.who THEN f ELSE link[i]]
      BY <1>1, <1>2, <1>8 DEF subjects, Facing, Same, SameAsk
    <2>7. n.who \in Identity
      BY DEF Request
    <2>8. subjects[n.who] = 0 /\ subjects' = [subjects EXCEPT ![n.who] = f]
      BY <2>1, <2>5, <2>6, <2>7
    <2>9. Contract!Present(f) /\ people[f].email = n.email
      BY <1>1, <1>2, <1>8, Rows DEF Facing
    <2>a. Contract!Adopt(n.who, n.email)
      BY <1>1, <1>8, <2>4, <2>8, <2>9 DEF Contract!Adopt
    <2> QED
      BY <1>1, <1>2, <1>8, <2>1, <2>2, <2>3, <2>4, <2>a, SigningIn, FitsSame DEF Same
  <1> QED
    BY <1>1, <1>4, <1>5, <1>6, <1>7, <1>8

\* Records that differ in one field.
LEMMA SetVerified ==
  ASSUME NEW S, NEW E, NEW U, NEW P,
         NEW p \in [status : S, email : E, username : U, phone : P, verified : BOOLEAN],
         NEW q \in [status : S, email : E, username : U, phone : P, verified : BOOLEAN],
         p.status = q.status, p.email = q.email, p.username = q.username,
         p.phone = q.phone, q.verified
  PROVE  q = [p EXCEPT !.verified = TRUE]
  <1> DEFINE e == [p EXCEPT !.verified = TRUE]
  <1>1. e \in [status : S, email : E, username : U, phone : P, verified : BOOLEAN]
    OBVIOUS
  <1>2. /\ e.status = p.status /\ e.email = p.email /\ e.username = p.username
        /\ e.phone = p.phone /\ e.verified = TRUE
    OBVIOUS
  <1>3. q.verified = e.verified
    BY <1>2
  <1> HIDE DEF e
  <1>4. \A x, y \in [status : S, email : E, username : U, phone : P, verified : BOOLEAN] :
          x.status = y.status /\ x.email = y.email /\ x.username = y.username
            /\ x.phone = y.phone /\ x.verified = y.verified => x = y
    OBVIOUS
  <1>5. q = e
    BY <1>1, <1>2, <1>3, <1>4
  <1> QED
    BY <1>5 DEF e

Row == [status : {"none", "active", "suspended", "deleted"},
        email : Email \cup {NoEmail}, username : Name, phone : Phone \cup {NoPhone},
        verified : BOOLEAN]

LEMMA PeopleType ==
  ASSUME TypeOK, TypeOK'
  PROVE  people \in [AccountId -> Row] /\ people' \in [AccountId -> Row]
  <1>1. \A a \in AccountId :
          /\ account[a].status \in {"none", "active", "suspended", "deleted"}
          /\ account[a].email \in Email \cup {NoEmail}
          /\ account[a].username \in Name /\ account[a].phone \in Phone \cup {NoPhone}
          /\ (account[a].verified \/ Verifying(now, a)) \in BOOLEAN
    BY DEF TypeOK, Account
  <1>2. \A a \in AccountId :
          /\ account'[a].status \in {"none", "active", "suspended", "deleted"}
          /\ account'[a].email \in Email \cup {NoEmail}
          /\ account'[a].username \in Name /\ account'[a].phone \in Phone \cup {NoPhone}
          /\ (account'[a].verified \/ Verifying(now, a)') \in BOOLEAN
    BY DEF TypeOK, Account
  <1> QED
    BY <1>1, <1>2 DEF people, Row

LEMMA FindNameKeeps ==
  ASSUME Ready, AccountsInv', NEW r \in Req, FindName(r)
  PROVE  Fits(now)' /\ KeepsSeen
  <1>1. PICK n, m \in Request :
           /\ Serving(n) /\ n.pc = "name" /\ m = now' /\ Same
           /\ \/ /\ m = Blank /\ n.op # "callback"
                 /\ \E a \in AccountId : Known(a) /\ account[a].username = n.name
              \/ /\ SameAsk(n, m) /\ m.told = n.told
                 /\ \/ m.pc = "insert" /\ m.name = n.name
                    \/ /\ m.pc = "name" /\ n.op = "callback"
                       /\ m.name.base = n.name.base /\ m.name.suffix = n.name.suffix + 1
                       /\ \E a \in AccountId :
                            Known(a) /\ account[a].username = n.name
    BY FindNameShape DEF Ready
  <1>2. /\ Facing(n, m) /\ Fits(n) /\ Undecided(n) /\ n.email \in Email
        /\ n.op \in {"register", "callback"}
    BY <1>1 DEF Facing, Serving, Ready, Alone, DirectoryInv, Fits, Undecided
  <1>3. CASE m = Blank
    <2>0. n.op # "callback"
      BY <1>1, <1>3, BlankFacts
    <2>1. ~Holding(n) /\ n.op = "register"
      BY <1>2, <2>0 DEF Holding
    <2>2. \E a \in AccountId : Known(a) /\ account[a].username = n.name
      BY <1>1, <1>3, BlankFacts
    <2>3. ~Contract!NameFree(n.name)
      BY <1>2, <2>2, Rows DEF Contract!NameFree, Facing
    <2> QED
      BY <1>1, <1>2, <1>3, <2>1, <2>3, Giving, BlankFits
  <1>4. CASE SameAsk(n, m) /\ m.pc \in {"name", "insert"} /\ m.told = n.told
    <2>1. Undecided(m) /\ (Holding(n) <=> Holding(m))
      BY <1>1, <1>2, <1>4 DEF Undecided, Holding, SameAsk
    <2>2. n.op = "callback" \/ m.name = n.name
      BY <1>1, <1>4, BlankFacts
    <2>3. KeepsSeen
      BY <1>1, <1>2, <1>4, <2>1, <2>2, Pondering, DoorsSame DEF SameAsk, Same
    <2>4. n.op = "callback" =>
            /\ m.name.base = BaseOf[m.email]
            /\ \A i \in Nat : i < m.name.suffix =>
                 \E a \in AccountId :
                   Known(a) /\ account[a].username = [base |-> m.name.base, suffix |-> i]
      <3> SUFFICES ASSUME n.op = "callback"
                   PROVE  /\ m.name.base = BaseOf[m.email]
                          /\ \A i \in Nat : i < m.name.suffix =>
                               \E a \in AccountId :
                                 Known(a) /\ account[a].username =
                                               [base |-> m.name.base, suffix |-> i]
        OBVIOUS
      <3>1. /\ n.name.base = BaseOf[n.email]
            /\ \A i \in Nat : i < n.name.suffix =>
                 \E a \in AccountId :
                   Known(a) /\ account[a].username = [base |-> n.name.base, suffix |-> i]
        BY <1>1, <1>2 DEF Fits
      <3>2. CASE m.name = n.name
        BY <1>4, <3>1, <3>2 DEF SameAsk
      <3>3. CASE /\ m.name.base = n.name.base /\ m.name.suffix = n.name.suffix + 1
                 /\ \E a \in AccountId : Known(a) /\ account[a].username = n.name
        <4>1. n.name = [base |-> n.name.base, suffix |-> n.name.suffix]
              /\ n.name.suffix \in Nat
          BY DEF Request, Name
        <4>2. \A i \in Nat : i < m.name.suffix => i < n.name.suffix \/ i = n.name.suffix
          BY <3>3, <4>1
        <4>3. \A i \in Nat : i < m.name.suffix =>
                \E a \in AccountId :
                   Known(a) /\ account[a].username = [base |-> n.name.base, suffix |-> i]
          BY <3>1, <3>3, <4>1, <4>2
        <4> QED
          BY <1>4, <3>1, <3>3, <4>3 DEF SameAsk
      <3> QED
        BY <1>1, <1>4, <3>2, <3>3, BlankFacts
    <2>5. Fits(m)
      <3>1. /\ m.op = n.op /\ m.email = n.email /\ m.state = n.state /\ m.who = n.who
            /\ m.phone = n.phone
        BY <1>4 DEF SameAsk
      <3>2. /\ n.op = "register" => ~n.told
            /\ n.op = "callback" => /\ n.state \in StateId /\ state[n.state] = "gone"
                                    /\ link[n.who] = 0 /\ n.phone = NoPhone
        BY <1>1, <1>2 DEF Fits
      <3> QED
        BY <1>2, <1>4, <2>4, <3>1, <3>2 DEF Fits
    <2> QED
      BY <1>1, <2>3, <2>5, FitsSame
  <1> QED
    BY <1>1, <1>3, <1>4

LEMMA FindTokenKeeps ==
  ASSUME Ready, AccountsInv', NEW r \in Req, FindToken(r)
  PROVE  Fits(now)' /\ KeepsSeen
  <1>1. PICK n, m \in Request, f \in 0..MaxAccount :
           /\ Serving(n) /\ n.pc = "token" /\ m = now' /\ Same
           /\ f # 0 => f \in AccountId /\ Present(f) /\ account[f].token = n.token
           /\ f = 0 => ~\E a \in AccountId : Present(a) /\ account[a].token = n.token
           /\ \/ m = Blank /\ (f = 0 \/ ~account[f].fresh)
              \/ f # 0 /\ account[f].fresh /\ m.pc = "verify" /\ m.id = f
    BY FindTokenShape DEF Ready
  <1>2. /\ Facing(n, m) /\ Fits(n) /\ Undecided(n) /\ n.op = "verify"
        /\ AccountsAreDistinct /\ TokensInOrder
        /\ n.token \in Token /\ mailed[n.token] # NoEmail /\ n.token # 0
    BY <1>1 DEF Facing, Serving, Ready, Alone, DirectoryInv, AccountsInv, Inv, Fits,
                Undecided, RequestOK, Token
  <1>3. /\ keys = [a \in AccountId |-> IF account[a].fresh THEN account[a].token ELSE 0]
        /\ letters = [x \in Token |-> mailed[x]]
    BY <1>1, <1>2 DEF keys, letters, Facing
  <1>4. CASE m = Blank
    <2>1. ASSUME NEW a \in AccountId, Contract!Present(a), keys[a] = n.token
          PROVE  FALSE
      <3>1. account[a].fresh /\ account[a].token = n.token /\ Present(a)
        BY <1>2, <1>3, <2>1, Rows DEF Facing
      <3>2. f # 0
        BY <1>1, <3>1
      <3>3. account[a].email = account[f].email
        BY <1>1, <1>2, <3>1, <3>2 DEF TokensInOrder
      <3>4. a = f
        BY <1>1, <1>2, <3>1, <3>2, <3>3, OneWithEmail DEF Present, Known
      <3> QED
        BY <1>1, <1>4, <3>1, <3>2, <3>4, BlankFacts
    <2>2. ~Holding(n)
      BY <1>2 DEF Holding
    <2> QED
      BY <1>1, <1>2, <1>4, <2>1, <2>2, Giving, BlankFits
  <1>5. CASE f # 0 /\ account[f].fresh /\ m.pc = "verify" /\ m.id = f
    <2>1. f \in AccountId /\ Present(f) /\ account[f].token = n.token
      BY <1>1, <1>5
    <2>2. Fits(m) /\ ~Undecided(m) /\ ~Holding(n) /\ ~Holding(m)
      BY <1>2, <1>5 DEF Fits, Undecided, Holding
    <2>3. subjects' = subjects /\ doors' = doors /\ letters' = letters
      BY <1>1, <1>2, <1>5, <2>2 DEF Facing, subjects, doors, letters, Same
    <2>4. keys' = [a \in AccountId |-> IF a = f THEN 0
                     ELSE IF account[a].fresh THEN account[a].token ELSE 0]
      BY <1>1, <1>2, <1>5 DEF keys, Facing, Same
    <2>5. keys[f] = n.token /\ keys' = [keys EXCEPT ![f] = 0]
      BY <1>3, <1>5, <2>1, <2>4
    <2>6. letters[n.token] = account[f].email
      BY <1>2, <1>3, <2>1 DEF TokensInOrder
    <2>7. people' = [people EXCEPT ![f].verified = TRUE]
      <3>1. \A a \in AccountId :
              /\ people'[a].status = people[a].status /\ people'[a].email = people[a].email
              /\ people'[a].username = people[a].username
              /\ people'[a].phone = people[a].phone
        BY <1>1 DEF people, Same
      <3>2. \A a \in AccountId : ~Verifying(n, a) /\ (Verifying(m, a) <=> a = f)
        BY <1>1, <1>5 DEF Verifying
      <3>3. \A a \in AccountId : a # f => people'[a] = people[a]
        BY <1>1, <1>2, <3>2 DEF people, Facing, Same
      <3>4. people'[f].verified
        BY <1>2, <2>1, <3>2 DEF people, Facing
      <3>5. TypeOK'
        BY DEF AccountsInv, Inv
      <3>6. PICK p, q : p = people[f] /\ q = people'[f]
        OBVIOUS
      <3>7. people \in [AccountId -> Row] /\ people' \in [AccountId -> Row]
        BY <1>2, <3>5, PeopleType DEF Facing
      <3>8. p \in Row /\ q \in Row
        BY <2>1, <3>6, <3>7
      <3>9. q = [p EXCEPT !.verified = TRUE]
        BY <2>1, <3>1, <3>4, <3>6, <3>8, SetVerified DEF Row
      <3> QED
        BY <2>1, <3>3, <3>6, <3>7, <3>9
    <2>8. PICK g : g = Asked(n)
      OBVIOUS
    <2>9. g.op = "verify" /\ g.letter = n.token
      BY <1>2, <2>8 DEF Asked
    <2>a. Contract!Present(f) /\ people[f].email = account[f].email
      BY <1>2, <2>1, Rows DEF Facing
    <2>b. Contract!Verify(g)
      BY <2>1, <2>3, <2>5, <2>6, <2>7, <2>9, <2>a DEF Contract!Verify
    <2> QED
      BY <1>1, <1>2, <2>2, <2>8, <2>b, Deciding, FitsSame
  <1> QED
    BY <1>1, <1>4, <1>5

LEMMA FindStateKeeps ==
  ASSUME Ready, AccountsInv', NEW r \in Req, FindState(r)
  PROVE  Fits(now)' /\ KeepsSeen
  <1>1. PICK n, m \in Request :
           /\ Serving(n) /\ n.pc = "state" /\ n.op = "callback" /\ m = now' /\ Same
           /\ \/ m = Blank
              \/ /\ state[n.state] = n.who.provider
                 /\ m.pc = "consume" /\ SameAsk(n, m) /\ m.told = n.told
    BY FindStateShape DEF Ready
  <1>2. Facing(n, m) /\ Fits(n) /\ Undecided(n) /\ ~Holding(n)
    BY <1>1 DEF Facing, Serving, Ready, Alone, DirectoryInv, Undecided, Holding
  <1>3. CASE m = Blank
    BY <1>1, <1>2, <1>3, Giving, BlankFits
  <1>4. CASE /\ state[n.state] = n.who.provider
             /\ m.pc = "consume" /\ SameAsk(n, m) /\ m.told = n.told
    <2>1. Fits(m) /\ Undecided(m) /\ Holding(m)
      BY <1>1, <1>2, <1>4 DEF Fits, Undecided, Holding, SameAsk
    <2>2. doors' = doors
      BY <1>1, <1>2, <1>4, <2>1 DEF doors, Facing, Same, SameAsk
    <2> QED
      BY <1>1, <1>2, <1>4, <2>1, <2>2, Pondering, FitsSame DEF Same, SameAsk
  <1> QED
    BY <1>1, <1>3, <1>4

LEMMA AskProviderKeeps ==
  ASSUME Ready, AccountsInv', NEW r \in Req, AskProvider(r)
  PROVE  Fits(now)' /\ KeepsSeen
  <1>1. PICK n, m \in Request :
           /\ Serving(n) /\ n.pc = "provider" /\ n.op = "callback" /\ m = now' /\ Same
           /\ \/ m = Blank
              \/ /\ m.pc = "link" /\ m.op = n.op /\ m.token = n.token
                 /\ m.state = n.state /\ m.who = n.who /\ m.phone = n.phone
    BY AskProviderShape DEF Ready
  <1>2. /\ Facing(n, m) /\ Fits(n) /\ Undecided(n) /\ Holding(n)
        /\ n.state \in StateId /\ state[n.state] = "gone"
    BY <1>1 DEF Facing, Serving, Ready, Alone, DirectoryInv, Undecided, Holding, Fits
  <1>3. CASE m = Blank
    BY <1>1, <1>2, <1>3, Giving, BlankFits
  <1>4. CASE /\ m.pc = "link" /\ m.op = n.op /\ m.token = n.token
             /\ m.state = n.state /\ m.who = n.who /\ m.phone = n.phone
    <2>1. Fits(m) /\ Undecided(m) /\ Holding(m)
      BY <1>1, <1>2, <1>4 DEF Fits, Undecided, Holding
    <2>2. doors' = doors
      BY <1>1, <1>2, <1>4, <2>1, DoorsSame DEF Same
    <2> QED
      BY <1>1, <1>2, <1>4, <2>1, <2>2, Pondering, FitsSame DEF Same
  <1> QED
    BY <1>1, <1>3, <1>4

LEMMA FindLinkKeeps ==
  ASSUME Ready, AccountsInv', NEW r \in Req, FindLink(r)
  PROVE  Fits(now)' /\ KeepsSeen
  <1>1. PICK n, m \in Request, a \in 0..MaxAccount :
           /\ Serving(n) /\ n.pc = "link" /\ n.op = "callback"
           /\ m = now' /\ Same /\ a = link[n.who]
           /\ \/ m = Blank
              \/ /\ a = 0 /\ n.email \in Email /\ m.pc = "email" /\ SameAsk(n, m)
              \/ /\ a \in AccountId /\ m.pc = "relink" /\ m.id = a /\ m.who = n.who
                 /\ m.told = n.told
    BY FindLinkShape DEF Ready
  <1>2. /\ Facing(n, m) /\ Fits(n) /\ Undecided(n) /\ Holding(n)
        /\ n.state \in StateId /\ state[n.state] = "gone"
    BY <1>1 DEF Facing, Serving, Ready, Alone, DirectoryInv, Undecided, Holding, Fits
  <1>5. CASE m = Blank
    BY <1>1, <1>2, <1>5, Giving, BlankFits
  <1>3. CASE a = 0 /\ n.email \in Email /\ m.pc = "email" /\ SameAsk(n, m)
    <2>1. Undecided(m) /\ Holding(m)
      BY <1>1, <1>3 DEF Undecided, Holding, SameAsk
    <2>2. Fits(m)
      BY <1>1, <1>2, <1>3 DEF Fits, SameAsk
    <2>3. doors' = doors
      BY <1>1, <1>2, <1>3, <2>1, DoorsSame DEF Same, SameAsk
    <2> QED
      BY <1>1, <1>2, <1>3, <2>1, <2>2, <2>3, Pondering, FitsSame DEF Same, SameAsk
  <1>4. CASE /\ a \in AccountId /\ m.pc = "relink" /\ m.id = a /\ m.who = n.who
             /\ m.told = n.told
    <2>1. Fits(m) /\ ~Undecided(m)
      BY <1>4 DEF Fits, Undecided
    <2>2. subjects' = subjects /\ letters' = letters /\ keys' = keys
      BY <1>1, <1>2, <1>4 DEF Facing, subjects, letters, keys, Same
    <2>3. PICK told \in BOOLEAN : told = n.told
      BY DEF Request
    <2>4. people' = [people EXCEPT ![a].verified = @ \/ told]
      <3>1. people = [b \in AccountId |->
                        [status |-> account[b].status, email |-> account[b].email,
                         username |-> account[b].username, phone |-> account[b].phone,
                         verified |-> account[b].verified \/ FALSE]]
        BY <1>1, <1>2 DEF people, Facing, Verifying
      <3>2. people' = [b \in AccountId |->
                        [status |-> account[b].status, email |-> account[b].email,
                         username |-> account[b].username, phone |-> account[b].phone,
                         verified |-> account[b].verified \/ (a = b /\ m.told)]]
        BY <1>1, <1>2, <1>4 DEF people, Facing, Verifying, Same
      <3>3. \A b \in AccountId : account[b].verified \in BOOLEAN
        BY <1>2 DEF Facing, TypeOK, Account
      <3>4. [people[a] EXCEPT !.verified = @ \/ told] =
               [status |-> account[a].status, email |-> account[a].email,
                username |-> account[a].username, phone |-> account[a].phone,
                verified |-> account[a].verified \/ told]
        BY <1>4, <3>1, <3>3
      <3>5. \A b \in AccountId :
              people'[b] = IF b = a THEN [people[a] EXCEPT !.verified = @ \/ told]
                                    ELSE people[b]
        BY <1>4, <2>3, <3>1, <3>2, <3>3, <3>4
      <3>6. people' = [b \in AccountId |-> people'[b]]
        BY <3>2
      <3>7. people = [b \in AccountId |-> people[b]]
        BY <3>1
      <3> QED
        BY <1>4, <3>5, <3>6, <3>7
    <2>5. subjects[n.who] = a /\ a # 0
      <3>1. n.who \in Identity
        BY DEF Request
      <3> QED
        BY <1>1, <1>2, <1>4, <3>1 DEF subjects, Facing, AccountId
    <2>6. Contract!Return(n.who, told)
      BY <2>2, <2>4, <2>5 DEF Contract!Return
    <2> QED
      BY <1>1, <1>2, <1>4, <2>1, <2>2, <2>6, SigningIn, FitsSame DEF Same
  <1> QED
    BY <1>1, <1>3, <1>4, <1>5

LEMMA FindUserKeeps ==
  ASSUME Ready, AccountsInv', NEW r \in Req, FindUser(r)
  PROVE  Fits(now)' /\ KeepsSeen
  <1>1. PICK n, m \in Request :
           /\ Serving(n) /\ n.pc = "user" /\ m = now' /\ Same
           /\ \/ m = Blank /\ account[n.id].status # "active"
              \/ m.pc = "phone" /\ SameAsk(n, m) /\ m.id = n.id /\ m.name = n.name
    BY FindUserShape DEF Ready
  <1>2. Facing(n, m) /\ Undecided(n) /\ n.op = "profile" /\ n.id \in AccountId
    BY <1>1 DEF Facing, Serving, Undecided, RequestOK
  <1>3. ~Holding(n) /\ (SameAsk(n, m) => ~Holding(m))
    BY <1>2 DEF Holding, SameAsk
  <1>4. CASE m = Blank /\ account[n.id].status # "active"
    <2>1. people[n.id].status # "active"
      BY <1>2, <1>4, Rows DEF Facing
    <2> QED
      BY <1>1, <1>2, <1>3, <1>4, <2>1, Giving, BlankFits
  <1>5. CASE m.pc = "phone" /\ SameAsk(n, m) /\ m.id = n.id /\ m.name = n.name
    <2>1. Undecided(m) /\ Fits(m)
      BY <1>5 DEF Undecided, Fits
    <2>2. doors' = doors
      BY <1>1, <1>2, <1>3, <1>5, DoorsSame DEF Same, SameAsk
    <2> QED
      BY <1>1, <1>2, <1>5, <2>1, <2>2, Pondering, FitsSame DEF Same, SameAsk
  <1> QED
    BY <1>1, <1>4, <1>5

LEMMA LookupsKeep ==
  ASSUME Ready, AccountsInv', NEW r \in Req, Lookups(r)
  PROVE  Fits(now)' /\ KeepsSeen
  BY FindEmailKeeps, FindNameKeeps, FindTokenKeeps, FindStateKeeps, AskProviderKeeps,
     FindLinkKeeps, FindUserKeeps DEF Lookups

-----------------------------------------------------------------------------
(* The arrivals                                                            *)

\* The arrival of a request is its question.
LEMMA Asking ==
  ASSUME Ready, AccountsInv', NEW r \in Req, NEW op \in Operation, NEW q \in Request,
         Arrive(r, op, q), [q EXCEPT !.op = op] = q, Undecided(q), ~Holding(q), Fits(q)
  PROVE  Fits(now)' /\ KeepsSeen
  <1>1. /\ req' = [req EXCEPT ![r] = q] /\ Same /\ At(r, "idle") /\ Quiet
    BY DEF Arrive, Become, rows, secrets, Same, Ready, Alone
  <1>2. q.pc # "idle"
    BY DEF Undecided
  <1>3. now' = q /\ now = Blank
    BY <1>1, <1>2, Turn DEF Ready, Same
  <1>4. Fits(now)'
    BY <1>1, <1>3, FitsSame
  <1>5. /\ q.pc \notin {"verify", "relink", "refresh", "attach", "mail", "renew"}
        /\ Blank.pc = "idle"
    BY BlankFacts DEF Undecided
  <1>6. people' = people /\ subjects' = subjects /\ letters' = letters /\ keys' = keys
    BY <1>1, <1>3, <1>5 DEF people, Verifying, subjects, letters, keys, Same
  <1>7. doors' = doors
    BY <1>1, <1>3, <1>5 DEF doors, Holding, Undecided, Same
  <1>8. PICK g : g = Asked(q)
    OBVIOUS
  <1>9. asked = {} /\ asked' = {g}
    BY <1>3, <1>5, <1>8 DEF asked, Undecided
  <1>a. g \in [op : Operation, letter : 0..MaxToken, state : 0..MaxState,
               who : Identity, phone : Phone \cup {NoPhone}, person : 0..MaxAccount,
               email : Email \cup {NoEmail}, name : Name]
    <2>1. /\ q.op \in Operation /\ q.token \in 0..MaxToken /\ q.state \in 0..MaxState
          /\ q.who \in Identity /\ q.email \in Email \cup {NoEmail} /\ q.name \in Name
          /\ q.phone \in Phone \cup {NoPhone} /\ q.id \in 0..MaxAccount
      BY DEF Request
    <2>2. PICK e, m, i : /\ e = IF q.op = "callback" THEN NoEmail ELSE q.email
                         /\ m = IF q.op = "callback" THEN SomeName ELSE q.name
                         /\ i = IF q.op = "profile" THEN q.id ELSE 0
      OBVIOUS
    <2>3. e \in Email \cup {NoEmail} /\ m \in Name /\ i \in 0..MaxAccount
      BY <2>1, <2>2, BlankFacts, AccountsAssumption
    <2>4. g = [op |-> q.op, letter |-> q.token, state |-> q.state, who |-> q.who,
               phone |-> q.phone, person |-> i, email |-> e, name |-> m]
      BY <1>8, <2>2 DEF Asked
    <2> QED
      BY <2>1, <2>3, <2>4
  <1>b. Contract!Ask
    BY <1>6, <1>7, <1>9, <1>a DEF Contract!Ask
  <1> QED
    BY <1>4, <1>b DEF Contract!CNext, KeepsSeen

LEMMA ArrivalsKeep ==
  ASSUME Ready, AccountsInv', NEW r \in Req, Arrivals(r)
  PROVE  Fits(now)' /\ KeepsSeen
  <1>1. CASE RegisterArrive(r)
    <2>1. PICK email \in Email, b \in Base, i \in 0..MaxSuffix, phone \in PhoneGiven :
            Arrive(r, "register", [Blank EXCEPT !.pc = "email", !.email = email,
                                                !.name = [base |-> b, suffix |-> i],
                                                !.phone = phone])
      BY <1>1 DEF RegisterArrive
    <2> DEFINE q == [Blank EXCEPT !.pc = "email", !.email = email,
                                  !.name = [base |-> b, suffix |-> i],
                                  !.phone = phone, !.op = "register"]
    <2>2. [base |-> b, suffix |-> i] \in Name /\ phone \in Phone \cup {NoPhone}
      BY DEF Name, PhoneGiven
    <2>3. /\ q \in Request /\ q.pc = "email" /\ q.op = "register" /\ q.email \in Email
          /\ [q EXCEPT !.op = "register"] = q
      BY <2>2, BlankFacts DEF Request, Label, Operation
    <2>4. ~q.told
      BY DEF Blank
    <2>5. Arrive(r, "register", q)
      BY <2>1 DEF Arrive, Become, Blank
    <2> HIDE DEF q
    <2>6. Undecided(q) /\ ~Holding(q) /\ Fits(q)
      BY <2>3, <2>4 DEF Undecided, Holding, Fits
    <2> QED
      BY <2>3, <2>5, <2>6, Asking DEF Operation
  <1>2. CASE VerifyArrive(r)
    <2>1. PICK t \in Token :
            Arrive(r, "verify", [Blank EXCEPT !.pc = "token", !.token = t])
      BY <1>2 DEF VerifyArrive
    <2> DEFINE q == [Blank EXCEPT !.pc = "token", !.token = t, !.op = "verify"]
    <2>2. t \in 0..MaxToken
      BY DEF Token
    <2>3. /\ q \in Request /\ q.pc = "token" /\ q.op = "verify"
          /\ [q EXCEPT !.op = "verify"] = q
      BY <2>2, BlankFacts DEF Request, Label, Operation
    <2>4. Arrive(r, "verify", q)
      BY <2>1 DEF Arrive, Become, Blank
    <2> HIDE DEF q
    <2>5. Undecided(q) /\ ~Holding(q) /\ Fits(q)
      BY <2>3 DEF Undecided, Holding, Fits
    <2> QED
      BY <2>3, <2>4, <2>5, Asking DEF Operation
  <1>3. CASE ResendArrive(r)
    <2>1. PICK email \in Email :
            /\ tokens < MaxToken
            /\ Arrive(r, "resend", [Blank EXCEPT !.pc = "email", !.email = email])
      BY <1>3 DEF ResendArrive
    <2> DEFINE q == [Blank EXCEPT !.pc = "email", !.email = email, !.op = "resend"]
    <2>2. /\ q \in Request /\ q.pc = "email" /\ q.op = "resend" /\ q.email \in Email
          /\ [q EXCEPT !.op = "resend"] = q
      BY BlankFacts DEF Request, Label, Operation
    <2>3. Arrive(r, "resend", q)
      BY <2>1 DEF Arrive, Become, Blank
    <2> HIDE DEF q
    <2>4. Undecided(q) /\ ~Holding(q) /\ Fits(q)
      BY <2>1, <2>2 DEF Undecided, Holding, Fits
    <2> QED
      BY <2>2, <2>3, <2>4, Asking DEF Operation
  <1>4. CASE StartArrive(r)
    <2> DEFINE q == [Blank EXCEPT !.pc = "start", !.op = "start"]
    <2>1. Arrive(r, "start", q)
      BY <1>4 DEF StartArrive, Arrive, Become, Blank
    <2>2. /\ q \in Request /\ q.pc = "start" /\ q.op = "start"
          /\ [q EXCEPT !.op = "start"] = q
      BY BlankFacts DEF Request, Label, Operation
    <2> HIDE DEF q
    <2>3. Undecided(q) /\ ~Holding(q) /\ Fits(q)
      BY <2>2 DEF Undecided, Holding, Fits
    <2> QED
      BY <2>1, <2>2, <2>3, Asking DEF Operation
  <1>5. CASE CallbackArrive(r)
    <2>1. PICK s \in StateId, who \in Identity :
            Arrive(r, "callback", [Blank EXCEPT !.pc = "state", !.state = s, !.who = who])
      BY <1>5 DEF CallbackArrive
    <2> DEFINE q == [Blank EXCEPT !.pc = "state", !.state = s, !.who = who,
                                  !.op = "callback"]
    <2>2. s \in 0..MaxState
      BY DEF StateId
    <2>3. /\ q \in Request /\ q.pc = "state" /\ q.op = "callback"
          /\ [q EXCEPT !.op = "callback"] = q
      BY <2>2, BlankFacts DEF Request, Label, Operation
    <2>6. q.phone = NoPhone
      BY DEF Blank
    <2>4. Arrive(r, "callback", q)
      BY <2>1 DEF Arrive, Become, Blank
    <2> HIDE DEF q
    <2>5. Undecided(q) /\ ~Holding(q) /\ Fits(q)
      BY <2>3, <2>6 DEF Undecided, Holding, Fits
    <2> QED
      BY <2>3, <2>4, <2>5, Asking DEF Operation
  <1>6. CASE ProfileArrive(r)
    <2>1. PICK a \in AccountId, phone \in PhoneGiven :
            Arrive(r, "profile", [Blank EXCEPT !.pc = "user", !.id = a, !.phone = phone])
      BY <1>6 DEF ProfileArrive
    <2> DEFINE q == [Blank EXCEPT !.pc = "user", !.id = a, !.phone = phone,
                                  !.op = "profile"]
    <2>2. a \in 0..MaxAccount /\ phone \in Phone \cup {NoPhone}
      BY DEF AccountId, PhoneGiven
    <2>3. /\ q \in Request /\ q.pc = "user" /\ q.op = "profile"
          /\ [q EXCEPT !.op = "profile"] = q
      BY <2>2, BlankFacts DEF Request, Label, Operation
    <2>4. Arrive(r, "profile", q)
      BY <2>1 DEF Arrive, Become, Blank
    <2> HIDE DEF q
    <2>5. Undecided(q) /\ ~Holding(q) /\ Fits(q)
      BY <2>3 DEF Undecided, Holding, Fits
    <2> QED
      BY <2>3, <2>4, <2>5, Asking DEF Operation
  <1> QED
    BY <1>1, <1>2, <1>3, <1>4, <1>5, <1>6 DEF Arrivals

-----------------------------------------------------------------------------
(* The writes, as steps of the contract or of none                         *)

\* A write of the request that is served.
LEMMA WriteTurn ==
  ASSUME Alone, AccountsInv', mix' = mix, NEW r \in Req, NEW label, label # "idle",
         At(r, label), NEW m \in Request, Become(r, m), m.pc = "idle" => m = Blank
  PROVE  /\ Serving(req[r]) /\ req[r].pc = label /\ now' = m
         /\ Facing(req[r], m)
  <1>1. ~At(r, "idle") /\ req' = [req EXCEPT ![r] = m] /\ req[r].pc = label
    BY DEF Become, At
  <1>2. now' = m
    BY <1>1, Turn
  <1>3. Serving(req[r])
    BY <1>1, Served DEF Serving
  <1> QED
    BY <1>1, <1>2, <1>3 DEF Facing, Serving

LEMMA GotoIs ==
  ASSUME TypeOK, NEW r \in Req, NEW label \in Label, Goto(r, label),
         NEW m, m = [req[r] EXCEPT !.pc = label]
  PROVE  m \in Request /\ m.pc = label /\ Become(r, m)
         /\ SameAsk(req[r], m) /\ m.id = req[r].id /\ m.told = req[r].told
         /\ m.name = req[r].name
  <1>1. req[r] \in Request
    BY DEF TypeOK
  <1>2. m \in Request /\ m.pc = label
    BY <1>1 DEF Request
  <1>3. /\ SameAsk(req[r], m) /\ m.id = req[r].id /\ m.told = req[r].told
        /\ m.name = req[r].name
    BY <1>1 DEF Request, SameAsk
  <1>4. Become(r, m)
    BY DEF Goto, Become
  <1> QED
    BY <1>2, <1>3, <1>4

\* What a request does after its decision is nothing to the contract.
LEMMA Finishing ==
  ASSUME NEW n, NEW m, Facing(n, m), ~Undecided(n), ~Undecided(m),
         people' = people, subjects' = subjects, letters' = letters, keys' = keys,
         state' = state
  PROVE  KeepsSeen
  <1>1. doors' = doors /\ asked' = asked
    BY DEF Facing, doors, asked, Holding
  <1> QED
    BY <1>1 DEF KeepsSeen, Contract!cvars

LEMMA RenewKeeps ==
  ASSUME Ready, AccountsInv', NEW r \in Req, Renew(r)
  PROVE  Fits(now)' /\ KeepsSeen
  <1>1. PICK n, t : n = req[r] /\ t = tokens + 1
    OBVIOUS
  <1>2. /\ n \in Request /\ TypeOK /\ At(r, "renew") /\ tokens < MaxToken /\ tokens' = t
        /\ mix' = mix /\ link' = link /\ state' = state /\ mailed' = mailed
        /\ account' = [account EXCEPT ![n.id] =
                         [account[n.id] EXCEPT !.token = t, !.fresh = TRUE]]
        /\ Become(r, [n EXCEPT !.pc = "mail", !.token = t])
    BY <1>1 DEF Ready, Alone, AccountsInv, Inv, TypeOK, Renew, SetAccount
  <1>3. t \in 0..MaxToken
    BY <1>1, <1>2 DEF TypeOK
  <1> DEFINE m == [n EXCEPT !.pc = "mail", !.token = t]
  <1>4. /\ m \in Request /\ m.pc = "mail" /\ m.token = t /\ m.email = n.email
    BY <1>2, <1>3 DEF Request, Label
  <1>5. Become(r, m)
    BY <1>2
  <1> HIDE DEF m
  <1>6. Serving(n) /\ n.pc = "renew" /\ now' = m /\ Facing(n, m)
    BY <1>1, <1>2, <1>4, <1>5, WriteTurn DEF Ready
  <1>7. n.id \in AccountId /\ n = now
    BY <1>6 DEF Serving, RequestOK
  <1>8. account[n.id] \in Account
    BY <1>2, <1>7 DEF TypeOK
  <1>9. /\ \A a \in AccountId : a # n.id => account'[a] = account[a]
        /\ account'[n.id].token = t /\ account'[n.id].fresh
        /\ account'[n.id].status = account[n.id].status
        /\ account'[n.id].email = account[n.id].email
        /\ account'[n.id].username = account[n.id].username
        /\ account'[n.id].phone = account[n.id].phone
        /\ account'[n.id].verified = account[n.id].verified
    BY <1>2, <1>7, <1>8 DEF TypeOK, Account
  <1>a. people' = people
    <2>1. \A a \in AccountId :
            /\ account'[a].status = account[a].status
            /\ account'[a].email = account[a].email
            /\ account'[a].username = account[a].username
            /\ account'[a].phone = account[a].phone
            /\ account'[a].verified = account[a].verified
      BY <1>9
    <2>2. \A a \in AccountId : ~Verifying(n, a) /\ ~Verifying(m, a)
      BY <1>4, <1>6 DEF Verifying
    <2> QED
      BY <1>6, <1>7, <2>1, <2>2 DEF people, Verifying
  <1>b. subjects' = subjects
    BY <1>2, <1>4, <1>6, <1>7 DEF subjects
  <1>c. letters' = letters
    BY <1>1, <1>2, <1>4, <1>6, <1>7 DEF letters
  <1>d. keys' = keys
    BY <1>1, <1>2, <1>4, <1>6, <1>7, <1>9 DEF keys
  <1>e. ~Undecided(n) /\ ~Undecided(m)
    BY <1>4, <1>6 DEF Undecided
  <1>f. Fits(now)'
    BY <1>4, <1>6 DEF Fits
  <1> QED
    BY <1>2, <1>6, <1>a, <1>b, <1>c, <1>d, <1>e, <1>f, Finishing

LEMMA SendMailKeeps ==
  ASSUME Ready, AccountsInv', NEW r \in Req, SendMail(r)
  PROVE  Fits(now)' /\ KeepsSeen
  <1>1. PICK n : n = req[r]
    OBVIOUS
  <1>2. /\ n \in Request /\ TypeOK /\ At(r, "mail") /\ mix' = mix /\ account' = account
        /\ link' = link /\ state' = state /\ tokens' = tokens
        /\ mailed' = [mailed EXCEPT ![n.token] = n.email] /\ Become(r, Blank)
    BY <1>1 DEF Ready, Alone, AccountsInv, Inv, TypeOK, SendMail, rows, End
  <1>3. Serving(n) /\ n.pc = "mail" /\ now' = Blank /\ Facing(n, Blank)
    BY <1>1, <1>2, BlankFacts, WriteTurn DEF Ready
  <1>4. n.token \in Token /\ n = now /\ Blank.pc = "idle"
    BY <1>3, BlankFacts DEF Serving, RequestOK
  <1>5. people' = people /\ subjects' = subjects /\ keys' = keys
    BY <1>2, <1>3, <1>4 DEF people, Verifying, subjects, keys
  <1>6. letters' = letters
    <2>1. letters' = [t \in Token |-> mailed'[t]]
      BY <1>3, <1>4 DEF letters
    <2>2. letters = [t \in Token |-> IF n.token = t THEN n.email ELSE mailed[t]]
      BY <1>3, <1>4 DEF letters
    <2>3. \A t \in Token : mailed'[t] = IF n.token = t THEN n.email ELSE mailed[t]
      BY <1>2, <1>4 DEF TypeOK
    <2> QED
      BY <2>1, <2>2, <2>3
  <1>7. ~Undecided(n) /\ ~Undecided(Blank)
    BY <1>3, <1>4 DEF Undecided
  <1> QED
    BY <1>2, <1>3, <1>5, <1>6, <1>7, Finishing, BlankFits

LEMMA VerifyKeeps ==
  ASSUME Ready, AccountsInv', NEW r \in Req, Verify(r)
  PROVE  Fits(now)' /\ KeepsSeen
  <1>1. PICK n : n = req[r]
    OBVIOUS
  <1>2. /\ n \in Request /\ TypeOK /\ At(r, "verify") /\ mix' = mix
        /\ link' = link /\ state' = state /\ tokens' = tokens /\ mailed' = mailed
        /\ account' = [account EXCEPT ![n.id] =
                   [account[n.id] EXCEPT !.verified = TRUE, !.token = 0, !.fresh = FALSE]]
        /\ Become(r, Blank)
    BY <1>1 DEF Ready, Alone, AccountsInv, Inv, TypeOK, Verify, SetAccount, End, secrets
  <1>3. Serving(n) /\ n.pc = "verify" /\ now' = Blank /\ Facing(n, Blank)
    BY <1>1, <1>2, BlankFacts, WriteTurn DEF Ready
  <1>4. n.id \in AccountId /\ n = now /\ Blank.pc = "idle"
    BY <1>3, BlankFacts DEF Serving, RequestOK
  <1>5. account[n.id] \in Account
    BY <1>2, <1>4 DEF TypeOK
  <1>6. /\ \A a \in AccountId : a # n.id => account'[a] = account[a]
        /\ ~account'[n.id].fresh /\ account'[n.id].verified = TRUE
        /\ account'[n.id].status = account[n.id].status
        /\ account'[n.id].email = account[n.id].email
        /\ account'[n.id].username = account[n.id].username
        /\ account'[n.id].phone = account[n.id].phone
    BY <1>2, <1>4, <1>5 DEF TypeOK, Account
  <1>7. people' = people
    <2>1. \A a \in AccountId :
            /\ account'[a].status = account[a].status
            /\ account'[a].email = account[a].email
            /\ account'[a].username = account[a].username
            /\ account'[a].phone = account[a].phone
      BY <1>6
    <2>2. \A a \in AccountId : account[a].verified \in BOOLEAN
      BY <1>2 DEF TypeOK, Account
    <2>3. \A a \in AccountId : account'[a].verified \in BOOLEAN
      BY DEF AccountsInv, Inv, TypeOK, Account
    <2>4. \A a \in AccountId :
            /\ Verifying(n, a) <=> a = n.id
            /\ ~Verifying(Blank, a)
      BY <1>3, <1>4 DEF Verifying
    <2>5. \A a \in AccountId : account'[a].verified <=> account[a].verified \/ a = n.id
      BY <1>6, <2>2, <2>3
    <2>6. \A a \in AccountId :
            (account'[a].verified \/ Verifying(Blank, a)) =
              (account[a].verified \/ Verifying(n, a))
      BY <2>2, <2>3, <2>4, <2>5
    <2>7. \A a \in AccountId :
            (account'[a].verified \/ Verifying(now, a)') =
              (account[a].verified \/ Verifying(now, a))
      BY <1>3, <1>4, <2>6 DEF Verifying
    <2> QED
      BY <2>1, <2>7 DEF people
  <1>8. subjects' = subjects /\ letters' = letters
    BY <1>2, <1>3, <1>4 DEF subjects, letters
  <1>9. keys' = keys
    <2>1. keys' = [a \in AccountId |-> IF account'[a].fresh THEN account'[a].token ELSE 0]
      BY <1>3, <1>4 DEF keys
    <2>2. keys = [a \in AccountId |-> IF n.id = a THEN 0
                    ELSE IF account[a].fresh THEN account[a].token ELSE 0]
      BY <1>3, <1>4 DEF keys
    <2> QED
      BY <1>6, <2>1, <2>2
  <1>a. ~Undecided(n) /\ ~Undecided(Blank)
    BY <1>3, <1>4 DEF Undecided
  <1> QED
    BY <1>2, <1>3, <1>7, <1>8, <1>9, <1>a, Finishing, BlankFits

LEMMA RelinkKeeps ==
  ASSUME Ready, AccountsInv', NEW r \in Req, Relink(r)
  PROVE  Fits(now)' /\ KeepsSeen
  <1>1. PICK n, m : n = req[r] /\ m = [req[r] EXCEPT !.pc = "refresh"]
    OBVIOUS
  <1>2. /\ TypeOK /\ At(r, "relink") /\ Goto(r, "refresh") /\ Same
    BY DEF Ready, Alone, AccountsInv, Inv, Relink, rows, secrets, Same
  <1>3. /\ m \in Request /\ m.pc = "refresh" /\ Become(r, m) /\ m.id = n.id
        /\ m.told = n.told
    BY <1>1, <1>2, GotoIs DEF Label
  <1>4. Serving(n) /\ n.pc = "relink" /\ now' = m /\ Facing(n, m) /\ n = now
    BY <1>1, <1>2, <1>3, WriteTurn DEF Ready, Same, Serving
  <1>5. people' = people /\ subjects' = subjects /\ letters' = letters /\ keys' = keys
    BY <1>2, <1>3, <1>4 DEF people, Verifying, subjects, letters, keys, Same
  <1>6. ~Undecided(n) /\ ~Undecided(m) /\ Fits(m)'
    BY <1>3, <1>4 DEF Undecided, Fits
  <1> QED
    BY <1>2, <1>4, <1>5, <1>6, Finishing DEF Same

LEMMA RefreshKeeps ==
  ASSUME Ready, AccountsInv', NEW r \in Req, Refresh(r)
  PROVE  Fits(now)' /\ KeepsSeen
  <1>1. PICK n, m : n = req[r] /\ m = [req[r] EXCEPT !.pc = "session"]
    OBVIOUS
  <1>2. /\ n \in Request /\ TypeOK /\ At(r, "refresh") /\ mix' = mix
        /\ link' = link /\ state' = state /\ tokens' = tokens /\ mailed' = mailed
        /\ account' = [account EXCEPT ![n.id] = [account[n.id] EXCEPT !.verified = n.was \/ n.told]]
        /\ Goto(r, "session")
    BY <1>1 DEF Ready, Alone, AccountsInv, Inv, TypeOK, Refresh, SetAccount, secrets
  <1>3. m \in Request /\ m.pc = "session" /\ Become(r, m)
    BY <1>1, <1>2, GotoIs DEF Label
  <1>4. Serving(n) /\ n.pc = "refresh" /\ now' = m /\ Facing(n, m) /\ n = now
    BY <1>1, <1>2, <1>3, WriteTurn DEF Ready, Serving
  <1>5. n.id \in AccountId /\ (account[n.id].verified <=> n.was)
    BY <1>4 DEF Serving, RequestOK, SerialAt
  <1>6. account[n.id] \in Account /\ n.was \in BOOLEAN /\ n.told \in BOOLEAN
    BY <1>2, <1>5 DEF TypeOK, Request
  <1>7. /\ \A a \in AccountId : a # n.id => account'[a] = account[a]
        /\ account'[n.id].verified = (n.was \/ n.told)
        /\ account'[n.id].status = account[n.id].status
        /\ account'[n.id].email = account[n.id].email
        /\ account'[n.id].username = account[n.id].username
        /\ account'[n.id].phone = account[n.id].phone
        /\ account'[n.id].token = account[n.id].token
        /\ account'[n.id].fresh = account[n.id].fresh
    BY <1>2, <1>5, <1>6 DEF TypeOK, Account
  <1>8. people' = people
    <2>1. \A a \in AccountId :
            /\ account'[a].status = account[a].status
            /\ account'[a].email = account[a].email
            /\ account'[a].username = account[a].username
            /\ account'[a].phone = account[a].phone
      BY <1>7
    <2>2. \A a \in AccountId : account[a].verified \in BOOLEAN
      BY <1>2 DEF TypeOK, Account
    <2>3. \A a \in AccountId : account'[a].verified \in BOOLEAN
      BY DEF AccountsInv, Inv, TypeOK, Account
    <2>4. \A a \in AccountId :
            /\ Verifying(n, a) <=> a = n.id /\ n.told
            /\ ~Verifying(m, a)
      BY <1>3, <1>4 DEF Verifying
    <2>5. \A a \in AccountId : account'[a].verified <=> account[a].verified
                                                        \/ (a = n.id /\ n.told)
      BY <1>5, <1>6, <1>7, <2>2, <2>3
    <2>6. \A a \in AccountId :
            (account'[a].verified \/ Verifying(m, a)) =
              (account[a].verified \/ Verifying(n, a))
      BY <2>2, <2>3, <2>4, <2>5
    <2>7. \A a \in AccountId :
            (account'[a].verified \/ Verifying(now, a)') =
              (account[a].verified \/ Verifying(now, a))
      BY <1>4, <2>6 DEF Verifying
    <2> QED
      BY <2>1, <2>7 DEF people
  <1>9. subjects' = subjects /\ letters' = letters
    BY <1>2, <1>3, <1>4 DEF subjects, letters
  <1>a. keys' = keys
    <2>1. \A a \in AccountId : /\ account'[a].token = account[a].token
                               /\ account'[a].fresh = account[a].fresh
      BY <1>7
    <2> QED
      BY <1>3, <1>4, <2>1 DEF keys
  <1>b. ~Undecided(n) /\ ~Undecided(m) /\ Fits(m)'
    BY <1>3, <1>4 DEF Undecided, Fits
  <1> QED
    BY <1>2, <1>4, <1>8, <1>9, <1>a, <1>b, Finishing

LEMMA AttachKeeps ==
  ASSUME Ready, AccountsInv', NEW r \in Req, Attach(r)
  PROVE  Fits(now)' /\ KeepsSeen
  <1>1. PICK n, m : n = req[r] /\ m = [req[r] EXCEPT !.pc = "session"]
    OBVIOUS
  <1>2. /\ n \in Request /\ TypeOK /\ At(r, "attach") /\ mix' = mix
        /\ account' = account /\ state' = state /\ tokens' = tokens /\ mailed' = mailed
    BY <1>1 DEF Ready, Alone, AccountsInv, Inv, TypeOK, Attach, secrets
  <1>3. ~At(r, "idle") /\ n.pc = "attach"
    BY <1>1, <1>2 DEF At
  <1>4. n = now
    BY <1>1, <1>3, Served DEF Ready
  <1>5. link[n.who] = 0
    BY <1>3, <1>4 DEF Ready, Alone, DirectoryInv, Fits
  <1>6. link' = [link EXCEPT ![n.who] = n.id] /\ Goto(r, "session")
    BY <1>1, <1>5 DEF Attach
  <1>7. m \in Request /\ m.pc = "session" /\ Become(r, m)
    BY <1>1, <1>2, <1>6, GotoIs DEF Label
  <1>8. now' = m /\ Facing(n, m)
    BY <1>1, <1>2, <1>7, WriteTurn DEF Ready
  <1>9. n.who \in Identity
    BY <1>2 DEF Request
  <1>a. subjects' = subjects
    <2>1. subjects' = [i \in Identity |-> link'[i]]
      BY <1>7, <1>8 DEF subjects
    <2>2. subjects = [i \in Identity |-> IF n.who = i THEN n.id ELSE link[i]]
      BY <1>3, <1>4 DEF subjects
    <2>3. \A i \in Identity : link'[i] = IF n.who = i THEN n.id ELSE link[i]
      BY <1>2, <1>6, <1>9 DEF TypeOK
    <2> QED
      BY <2>1, <2>2, <2>3
  <1>b. people' = people /\ letters' = letters /\ keys' = keys
    BY <1>2, <1>3, <1>4, <1>7, <1>8 DEF people, Verifying, letters, keys
  <1>c. ~Undecided(n) /\ ~Undecided(m) /\ Fits(m)'
    BY <1>3, <1>7 DEF Undecided, Fits
  <1> QED
    BY <1>2, <1>8, <1>a, <1>b, <1>c, Finishing

LEMMA SignInKeeps ==
  ASSUME Ready, AccountsInv', NEW r \in Req, SignIn(r)
  PROVE  Fits(now)' /\ KeepsSeen
  <1>1. PICK n : n = req[r]
    OBVIOUS
  <1>2. At(r, "session") /\ Become(r, Blank) /\ Same
    BY DEF SignIn, rows, secrets, Same, End
  <1>3. Serving(n) /\ n.pc = "session" /\ now' = Blank /\ Facing(n, Blank) /\ n = now
    BY <1>1, <1>2, BlankFacts, WriteTurn DEF Ready, Same, Serving
  <1>4. people' = people /\ subjects' = subjects /\ letters' = letters /\ keys' = keys
    BY <1>2, <1>3, BlankFacts DEF people, Verifying, subjects, letters, keys, Same
  <1>5. ~Undecided(n) /\ ~Undecided(Blank)
    BY <1>3, BlankFacts DEF Undecided
  <1> QED
    BY <1>2, <1>3, <1>4, <1>5, Finishing, BlankFits DEF Same

LEMMA CreateStateKeeps ==
  ASSUME Ready, AccountsInv', NEW r \in Req, CreateState(r)
  PROVE  Fits(now)' /\ KeepsSeen
  <1>1. PICK n : n = req[r]
    OBVIOUS
  <1>2. PICK s \in StateId, provider \in Configured :
          /\ At(r, "start") /\ state[s] = "none"
          /\ state' = [state EXCEPT ![s] = provider] /\ End(r)
          /\ UNCHANGED <<rows, tokens, mailed, served>>
    BY DEF CreateState
  <1>3. Become(r, Blank) /\ UNCHANGED <<mix, account, link, tokens, mailed>>
    BY <1>2 DEF End, rows
  <1>4. Serving(n) /\ n.pc = "start" /\ now' = Blank /\ Facing(n, Blank) /\ n = now
        /\ n \in Request
    BY <1>1, <1>2, <1>3, BlankFacts, WriteTurn DEF Ready, Serving
  <1>5. n.op = "start"
    BY <1>4 DEF Ready, Alone, DirectoryInv, Fits
  <1>6. people' = people /\ subjects' = subjects /\ letters' = letters /\ keys' = keys
    BY <1>3, <1>4, BlankFacts DEF people, Verifying, subjects, letters, keys
  <1>7. Undecided(n) /\ ~Undecided(Blank) /\ ~Holding(n) /\ ~Holding(Blank)
    BY <1>4, <1>5, BlankFacts DEF Undecided, Holding
  <1>8. doors[s] = "none" /\ doors' = [doors EXCEPT ![s] = provider]
    <2>1. doors = [x \in StateId |-> state[x]]
      BY <1>4, <1>7 DEF doors
    <2>2. doors' = [x \in StateId |-> state'[x]]
      BY <1>4, <1>7 DEF doors
    <2>3. state \in [StateId -> Provider \cup {"none", "gone"}]
      BY <1>4 DEF Facing, TypeOK
    <2>4. doors' = [x \in StateId |-> IF x = s THEN provider ELSE state[x]]
      BY <1>2, <2>2, <2>3
    <2> QED
      BY <1>2, <2>1, <2>4
  <1>9. PICK g : g = Asked(n)
    OBVIOUS
  <1>a. Contract!Start(g)
    BY <1>5, <1>6, <1>8, <1>9 DEF Asked, Contract!Start
  <1> QED
    BY <1>4, <1>7, <1>9, <1>a, Deciding, BlankFits

LEMMA ConsumeKeeps ==
  ASSUME Ready, AccountsInv', NEW r \in Req, Consume(r)
  PROVE  Fits(now)' /\ KeepsSeen
  <1>1. PICK n, m : n = req[r] /\ m = [req[r] EXCEPT !.pc = "provider"]
    OBVIOUS
  <1>2. /\ TypeOK /\ At(r, "consume") /\ Goto(r, "provider")
        /\ UNCHANGED <<mix, account, link, tokens, mailed>>
        /\ state' = [state EXCEPT ![n.state] = "gone"]
    BY <1>1 DEF Ready, Alone, AccountsInv, Inv, Consume, rows
  <1>3. m \in Request /\ m.pc = "provider" /\ Become(r, m) /\ SameAsk(n, m)
    BY <1>1, <1>2, GotoIs DEF Label
  <1>4. Serving(n) /\ n.pc = "consume" /\ now' = m /\ Facing(n, m) /\ n = now
    BY <1>1, <1>2, <1>3, WriteTurn DEF Ready, Serving
  <1>5. n.op = "callback" /\ n.state \in StateId
    BY <1>4 DEF Serving, RequestOK, SerialAt
  <1>6. /\ m.state = n.state /\ m.who = n.who /\ m.op = n.op /\ m.token = n.token
        /\ m.phone = n.phone
    BY <1>3 DEF SameAsk
  <1>d. m.phone = NoPhone
    BY <1>4, <1>5, <1>6 DEF Ready, Alone, DirectoryInv, Fits
  <1>7. Undecided(n) /\ Undecided(m) /\ Holding(n) /\ Holding(m)
    BY <1>3, <1>4, <1>5, <1>6 DEF Undecided, Holding
  <1>8. \A x \in StateId : x # n.state => state'[x] = state[x]
    BY <1>2 DEF TypeOK
  <1>9. doors' = doors
    <2>1. doors = [x \in StateId |-> IF n.state = x THEN n.who.provider ELSE state[x]]
      BY <1>4, <1>7 DEF doors
    <2>2. doors' = [x \in StateId |-> IF n.state = x THEN n.who.provider ELSE state'[x]]
      BY <1>4, <1>6, <1>7 DEF doors
    <2> QED
      BY <1>8, <2>1, <2>2
  <1>a. state'[m.state] = "gone" /\ m.state \in StateId
    BY <1>2, <1>5, <1>6 DEF TypeOK
  <1>b. Fits(m)'
    BY <1>3, <1>a, <1>d DEF Fits
  <1>c. KeepsSeen
    BY <1>2, <1>4, <1>5, <1>6, <1>7, <1>9, Pondering
  <1> QED
    BY <1>4, <1>b, <1>c

\* A new account and the request that made it.
LEMMA Adding ==
  ASSUME Ready, AccountsInv', NEW n \in Request, NEW m, Facing(n, m), n.pc = "insert",
         NEW a \in AccountId, ~Known(a), ~Taken(n.email, n.name),
         NEW row, SetAccount(a, row),
         row.status = "active", row.email = n.email, row.username = n.name,
         row.phone = n.phone, row.verified = n.told, ~PhoneTaken(a, n.phone),
         m.pc \in {"mail", "attach"}
  PROVE  /\ Contract!Add(a, n.email, n.name, n.phone, n.told)
         /\ people'[a].username = n.name
         /\ \A b \in AccountId : b # a => account'[b] = account[b]
         /\ account'[a] = row
  <1>1. /\ \A b \in AccountId : b # a => account'[b] = account[b]
        /\ account'[a] = row
    BY DEF Facing, TypeOK, SetAccount
  <1>2. /\ ~Contract!Known(a) /\ Contract!AddressFree(n.email)
        /\ Contract!NameFree(n.name) /\ Contract!PhoneFree(a, n.phone)
    <2>1. \A b \in AccountId : Known(b) => account[b].email # n.email
                                           /\ account[b].username # n.name
      BY DEF Taken
    <2>2. n.phone # NoPhone =>
            \A b \in AccountId \ {a} : Known(b) => account[b].phone # n.phone
      BY DEF PhoneTaken
    <2> QED
      BY <2>1, <2>2, Rows
      DEF Facing, Contract!AddressFree, Contract!NameFree, Contract!PhoneFree
  <1>3. \A b \in AccountId : ~Verifying(now, b) /\ ~Verifying(now, b)'
    BY DEF Facing, Verifying
  <1>4. \A b \in AccountId : b # a => people'[b] = people[b]
    BY <1>1, <1>3 DEF people
  <1>5. people'[a] = [status |-> "active", email |-> n.email, username |-> n.name,
                      phone |-> n.phone, verified |-> n.told]
    <2>1. n.told \in BOOLEAN
      BY DEF Request
    <2>2. (account'[a].verified \/ Verifying(now, a)') = n.told
      BY <1>1, <1>3, <2>1
    <2>3. people'[a] = [status |-> account'[a].status, email |-> account'[a].email,
                        username |-> account'[a].username, phone |-> account'[a].phone,
                        verified |-> account'[a].verified \/ Verifying(now, a)']
      BY DEF people
    <2> QED
      BY <1>1, <2>2, <2>3
  <1>6. people' = [people EXCEPT ![a] =
                     [status |-> "active", email |-> n.email, username |-> n.name,
                      phone |-> n.phone, verified |-> n.told]]
    <2>1. TypeOK /\ TypeOK'
      BY DEF Facing, AccountsInv, Inv
    <2>2. people \in [AccountId -> Row] /\ people' \in [AccountId -> Row]
      BY <2>1, PeopleType
    <2> HIDE DEF Row
    <2> QED
      BY <1>4, <1>5, <2>2
  <1>7. Contract!Add(a, n.email, n.name, n.phone, n.told)
    BY <1>2, <1>6 DEF Contract!Add
  <1> QED
    BY <1>1, <1>5, <1>7

LEMMA NameWith ==
  ASSUME NEW p \in Name, NEW k \in Nat
  PROVE  [p EXCEPT !.suffix = k] = [base |-> p.base, suffix |-> k]
  <1> DEFINE e == [p EXCEPT !.suffix = k]
  <1>1. e \in Name /\ e.base = p.base /\ e.suffix = k
    BY DEF Name
  <1> HIDE DEF e
  <1>2. e = [base |-> e.base, suffix |-> e.suffix]
    BY <1>1 DEF Name
  <1> QED
    BY <1>1, <1>2 DEF e

LEMMA InsertKeeps ==
  ASSUME Ready, AccountsInv', NEW r \in Req, Insert(r)
  PROVE  Fits(now)' /\ KeepsSeen
  <1>1. PICK n, t : n = req[r] /\ t = tokens + 1
    OBVIOUS
  <1>2. PICK a \in AccountId :
          /\ At(r, "insert") /\ ~Known(a)
          /\ IF Taken(n.email, n.name) \/ PhoneTaken(a, n.phone)
             THEN End(r) /\ UNCHANGED <<rows, tokens>>
             ELSE /\ n.op = "register" => tokens < MaxToken
                  /\ tokens' = IF n.op = "register" THEN t ELSE tokens
                  /\ SetAccount(a, [status |-> "active", email |-> n.email,
                                    username |-> n.name, phone |-> n.phone,
                                    verified |-> n.told,
                                    token |-> IF n.op = "register" THEN t ELSE 0,
                                    fresh |-> n.op = "register"])
                  /\ Become(r, IF n.op = "register"
                               THEN [n EXCEPT !.pc = "mail", !.token = t]
                               ELSE [n EXCEPT !.pc = "attach", !.id = a])
          /\ UNCHANGED <<state, mailed, served>>
    BY <1>1 DEF Insert
  <1>3. ~At(r, "idle") /\ n.pc = "insert" /\ n \in Request
    BY <1>1, <1>2 DEF At, Ready, Alone, AccountsInv, Inv, TypeOK
  <1>4. Serving(n) /\ n = now /\ Fits(n) /\ Undecided(n) /\ TypeOK
    BY <1>1, <1>3, Served DEF Serving, Ready, Alone, DirectoryInv, Undecided
  <1>5. n.op \in {"register", "callback"} /\ n.email \in Email
    BY <1>3, <1>4 DEF Fits
  <1>6. n.op = "callback" =>
          /\ n.state \in StateId /\ state[n.state] = "gone" /\ link[n.who] = 0
          /\ n.phone = NoPhone
    BY <1>3, <1>4 DEF Fits
  <1>7. /\ TokensInOrder /\ FreshKnown /\ mix' = mix
    BY <1>2 DEF Ready, Alone, DirectoryInv, AccountsInv, rows, SetAccount
  <1>8. CASE Taken(n.email, n.name) \/ PhoneTaken(a, n.phone)
    <2>1. Same /\ Become(r, Blank)
      BY <1>2, <1>8 DEF Same, rows, End
    <2>2. now' = Blank /\ Facing(n, Blank)
      BY <1>1, <1>2, <1>7, <2>1, BlankFacts, WriteTurn DEF Ready
    <2>3. \/ ~Contract!AddressFree(n.email) \/ ~Contract!NameFree(n.name)
          \/ \A c \in AccountId : ~Contract!Known(c) => ~Contract!PhoneFree(c, n.phone)
      <3>1. CASE Taken(n.email, n.name)
        BY <1>4, <3>1, Rows DEF Taken, Contract!AddressFree, Contract!NameFree
      <3>2. CASE PhoneTaken(a, n.phone)
        <4>1. PICK b \in AccountId : /\ Known(b) /\ account[b].phone = n.phone
                                     /\ n.phone # NoPhone
          BY <3>2 DEF PhoneTaken
        <4>2. Contract!Known(b) /\ people[b].phone = n.phone
          BY <1>4, <4>1, Rows
        <4> QED
          BY <4>1, <4>2 DEF Contract!PhoneFree
      <3> QED
        BY <1>8, <3>1, <3>2
    <2>4. Holding(n) => state[n.state] = "gone"
      BY <1>6 DEF Holding
    <2> QED
      BY <1>3, <1>4, <1>5, <2>1, <2>2, <2>3, <2>4, Giving, BlankFits
  <1>9. CASE ~Taken(n.email, n.name) /\ ~PhoneTaken(a, n.phone) /\ n.op = "register"
    <2>0. PICK row : row = [status |-> "active", email |-> n.email, username |-> n.name,
                            phone |-> n.phone, verified |-> n.told,
                            token |-> t, fresh |-> TRUE]
      OBVIOUS
    <2>1. /\ tokens < MaxToken /\ tokens' = t /\ mix' = mix /\ link' = link
          /\ state' = state /\ mailed' = mailed
          /\ SetAccount(a, row)
          /\ Become(r, [n EXCEPT !.pc = "mail", !.token = t])
      BY <1>2, <1>9, <2>0 DEF SetAccount
    <2> DEFINE m == [n EXCEPT !.pc = "mail", !.token = t]
    <2>2. t \in Token /\ t \in 0..MaxToken /\ t > tokens /\ tokens \in Nat
      BY <1>1, <1>4, <2>1 DEF TypeOK, Token
    <2>3. /\ m \in Request /\ m.pc = "mail" /\ m.token = t /\ m.email = n.email
      BY <1>3, <2>2 DEF Request, Label
    <2>4. Become(r, m)
      BY <2>1
    <2> HIDE DEF m
    <2>5. now' = m /\ Facing(n, m)
      BY <1>1, <1>2, <1>7, <2>3, <2>4, WriteTurn DEF Ready
    <2>6. n.told = FALSE
      <3>1. ~n.told
        BY <1>3, <1>4, <1>9 DEF Fits
      <3>2. n.told \in BOOLEAN
        BY <1>3 DEF Request
      <3> QED
        BY <3>1, <3>2
    <2>7. /\ Contract!Add(a, n.email, n.name, n.phone, n.told)
          /\ \A b \in AccountId : b # a => account'[b] = account[b]
          /\ account'[a] = row
      <3>1. /\ row.status = "active" /\ row.email = n.email /\ row.username = n.name
            /\ row.phone = n.phone /\ row.verified = n.told
        BY <2>0
      <3> QED
        BY <1>2, <1>3, <1>9, <2>1, <2>3, <2>5, <3>1, Adding
    <2>8. /\ Contract!Add(a, n.email, n.name, n.phone, FALSE)
          /\ \A b \in AccountId : b # a => account'[b] = account[b]
          /\ account'[a].token = t /\ account'[a].fresh
      <3>1. Contract!Add(a, n.email, n.name, n.phone, FALSE)
        BY <2>6, <2>7, Zenon
      <3>2. account'[a].token = t /\ account'[a].fresh
        BY <2>0, <2>7
      <3> QED
        BY <2>7, <3>1, <3>2
    <2>9. mailed[t] = NoEmail
      BY <1>7, <2>2 DEF TokensInOrder, Token
    <2>a. letters' = [letters EXCEPT ![t] = n.email] /\ letters[t] = NoEmail
      <3>1. letters = [x \in Token |-> mailed[x]]
        BY <1>3, <1>4 DEF letters
      <3>2. letters' = [x \in Token |-> IF t = x THEN n.email ELSE mailed[x]]
        BY <2>1, <2>3, <2>5 DEF letters
      <3> QED
        BY <2>2, <2>9, <3>1, <3>2
    <2>b. keys' = [keys EXCEPT ![a] = t]
      <3>1. keys = [b \in AccountId |-> IF account[b].fresh THEN account[b].token ELSE 0]
        BY <1>3, <1>4 DEF keys
      <3>2. keys' = [b \in AccountId |-> IF account'[b].fresh THEN account'[b].token ELSE 0]
        BY <2>3, <2>5 DEF keys
      <3> QED
        BY <2>8, <3>1, <3>2
    <2>c. subjects' = subjects
      BY <1>3, <1>4, <2>1, <2>3, <2>5 DEF subjects
    <2>d. ~Holding(n) /\ ~Holding(m) /\ ~Undecided(m) /\ Fits(m)'
      BY <1>9, <2>3 DEF Holding, Undecided, Fits
    <2>e. doors' = doors
      BY <1>4, <2>1, <2>5, <2>d DEF doors
    <2>f. PICK g : g = Asked(n)
      OBVIOUS
    <2>g. /\ g.op = "register" /\ g.email = n.email /\ g.name = n.name
          /\ g.phone = n.phone
      BY <1>9, <2>f DEF Asked
    <2>h. Contract!Send(a, g.email)
      BY <2>2, <2>a, <2>b, <2>g DEF Contract!Send
    <2>i. Contract!Register(g)
      BY <2>8, <2>c, <2>e, <2>g, <2>h DEF Contract!Register
    <2> QED
      BY <1>4, <2>5, <2>d, <2>f, <2>i, Deciding
  <1>a. CASE ~Taken(n.email, n.name) /\ ~PhoneTaken(a, n.phone) /\ n.op = "callback"
    <2>0. PICK row : row = [status |-> "active", email |-> n.email, username |-> n.name,
                            phone |-> n.phone, verified |-> n.told,
                            token |-> 0, fresh |-> FALSE]
      OBVIOUS
    <2>1. /\ tokens' = tokens /\ mix' = mix /\ link' = link
          /\ state' = state /\ mailed' = mailed
          /\ SetAccount(a, row)
          /\ Become(r, [n EXCEPT !.pc = "attach", !.id = a])
      BY <1>2, <1>a, <2>0 DEF SetAccount
    <2> DEFINE m == [n EXCEPT !.pc = "attach", !.id = a]
    <2>2. a \in 0..MaxAccount /\ a # 0
      BY DEF AccountId
    <2>3. /\ m \in Request /\ m.pc = "attach" /\ m.id = a /\ m.who = n.who
      BY <1>3, <2>2 DEF Request, Label
    <2>4. Become(r, m)
      BY <2>1
    <2> HIDE DEF m
    <2>5. now' = m /\ Facing(n, m)
      BY <1>1, <1>2, <1>7, <2>3, <2>4, WriteTurn DEF Ready
    <2>6. PICK told \in BOOLEAN : told = n.told
      BY <1>3 DEF Request
    <2>7. /\ Contract!Add(a, n.email, n.name, n.phone, n.told)
          /\ people'[a].username = n.name
          /\ \A b \in AccountId : b # a => account'[b] = account[b]
          /\ account'[a] = row
      <3>1. /\ row.status = "active" /\ row.email = n.email /\ row.username = n.name
            /\ row.phone = n.phone /\ row.verified = n.told
        BY <2>0
      <3> QED
        BY <1>2, <1>3, <1>a, <2>1, <2>3, <2>5, <3>1, Adding
    <2>8. ~account[a].fresh
      BY <1>2, <1>7 DEF FreshKnown
    <2>9. keys[a] = 0 /\ keys' = keys
      <3>1. keys = [b \in AccountId |-> IF account[b].fresh THEN account[b].token ELSE 0]
        BY <1>3, <1>4 DEF keys
      <3>2. keys' = [b \in AccountId |-> IF account'[b].fresh THEN account'[b].token ELSE 0]
        BY <2>3, <2>5 DEF keys
      <3> QED
        BY <2>0, <2>7, <2>8, <3>1, <3>2
    <2>a. letters' = letters
      BY <1>3, <1>4, <2>1, <2>3, <2>5 DEF letters
    <2>b. n.who \in Identity
      BY <1>3 DEF Request
    <2>c. subjects[n.who] = 0 /\ subjects' = [subjects EXCEPT ![n.who] = a]
      <3>1. subjects = [i \in Identity |-> link[i]]
        BY <1>3, <1>4 DEF subjects
      <3>2. subjects' = [i \in Identity |-> IF i = n.who THEN a ELSE link[i]]
        BY <2>1, <2>3, <2>5 DEF subjects
      <3> QED
        BY <1>6, <1>a, <2>b, <3>1, <3>2
    <2>d. /\ n.name.base = BaseOf[n.email]
          /\ \A k \in 0..n.name.suffix : k < n.name.suffix =>
               ~Contract!NameFree([n.name EXCEPT !.suffix = k])
      <3>1. /\ n.name.base = BaseOf[n.email]
            /\ \A k \in Nat : k < n.name.suffix =>
                 \E b \in AccountId : Known(b) /\ account[b].username =
                                                    [base |-> n.name.base, suffix |-> k]
        BY <1>3, <1>4, <1>a DEF Fits
      <3>2. n.name \in Name
        BY <1>3 DEF Request
      <3>3. \A k \in 0..n.name.suffix :
              /\ k \in Nat
              /\ [n.name EXCEPT !.suffix = k] = [base |-> n.name.base, suffix |-> k]
        <4>1. \A k \in 0..n.name.suffix : k \in Nat
          BY <3>2 DEF Name
        <4> QED
          BY <3>2, <4>1, NameWith
      <3>5. ASSUME NEW k \in 0..n.name.suffix, k < n.name.suffix
            PROVE  ~Contract!NameFree([n.name EXCEPT !.suffix = k])
        <4>0. PICK other : /\ other = [n.name EXCEPT !.suffix = k]
                           /\ other = [base |-> n.name.base, suffix |-> k]
          BY <3>3
        <4>1. PICK b \in AccountId : Known(b) /\ account[b].username = other
          BY <3>1, <3>3, <3>5, <4>0
        <4> QED
          BY <1>4, <4>0, <4>1, Rows DEF Contract!NameFree
      <3> QED
        BY <3>1, <3>5
    <2>e. Contract!Create(n.who, n.email, told)
      BY <1>6, <1>a, <2>6, <2>7, <2>9, <2>c, <2>d DEF Contract!Create
    <2>f. ~Undecided(m) /\ Fits(m)'
      <3>1. link'[m.who] = 0
        BY <1>6, <1>a, <2>1, <2>3
      <3> QED
        BY <2>2, <2>3, <3>1 DEF Undecided, Fits
    <2>g. KeepsSeen
      BY <1>3, <1>4, <1>5, <1>6, <1>a, <2>1, <2>5, <2>9, <2>a, <2>e, <2>f, SigningIn
    <2> QED
      BY <2>5, <2>f, <2>g
  <1> QED
    BY <1>5, <1>8, <1>9, <1>a

\* Records that differ in their number.
LEMMA PhoneSet ==
  ASSUME NEW S, NEW E, NEW U, NEW P,
         NEW p \in [status : S, email : E, username : U, phone : P, verified : BOOLEAN],
         NEW q \in [status : S, email : E, username : U, phone : P, verified : BOOLEAN],
         p.status = q.status, p.email = q.email, p.username = q.username,
         p.verified = q.verified
  PROVE  q = [p EXCEPT !.phone = q.phone]
  <1> DEFINE e == [p EXCEPT !.phone = q.phone]
  <1>1. e \in [status : S, email : E, username : U, phone : P, verified : BOOLEAN]
    OBVIOUS
  <1>2. /\ e.status = p.status /\ e.email = p.email /\ e.username = p.username
        /\ e.phone = q.phone /\ e.verified = p.verified
    OBVIOUS
  <1> HIDE DEF e
  <1>3. \A x, y \in [status : S, email : E, username : U, phone : P, verified : BOOLEAN] :
          x.status = y.status /\ x.email = y.email /\ x.username = y.username
            /\ x.phone = y.phone /\ x.verified = y.verified => x = y
    OBVIOUS
  <1>4. q = e
    BY <1>1, <1>2, <1>3
  <1> QED
    BY <1>4 DEF e

LEMMA WritePhoneKeeps ==
  ASSUME Ready, AccountsInv', NEW r \in Req, WritePhone(r)
  PROVE  Fits(now)' /\ KeepsSeen
  <1>1. PICK n, a, phone : n = req[r] /\ a = req[r].id /\ phone = req[r].phone
    OBVIOUS
  <1>2. /\ At(r, "phone") /\ Become(r, Blank) /\ mix' = mix /\ link' = link
        /\ state' = state /\ tokens' = tokens /\ mailed' = mailed
        /\ IF PhoneTaken(a, phone) THEN UNCHANGED rows
           ELSE SetAccount(a, [account[a] EXCEPT !.phone = phone])
    BY <1>1 DEF WritePhone, SetAccount, End, rows, secrets
  <1>3. Serving(n) /\ n.pc = "phone" /\ now' = Blank /\ Facing(n, Blank) /\ n = now
    BY <1>1, <1>2, BlankFacts, WriteTurn DEF Ready, Serving
  <1>4. /\ n \in Request /\ TypeOK /\ TypeOK' /\ Blank.pc = "idle"
        /\ n.op = "profile" /\ a \in AccountId /\ Known(a) /\ account[a] \in Account
    BY <1>1, <1>3, BlankFacts
    DEF Serving, RequestOK, TypeOK, AccountsInv, Inv, AccountId
  <1>5. Undecided(n) /\ ~Undecided(Blank) /\ ~Holding(n) /\ ~Holding(Blank)
    BY <1>3, <1>4 DEF Undecided, Holding
  <1>6. CASE PhoneTaken(a, phone)
    <2>1. Same
      BY <1>2, <1>6 DEF Same, rows
    <2>2. PICK b \in AccountId : /\ b # a /\ Known(b) /\ account[b].phone = phone
                                 /\ phone # NoPhone
      BY <1>6 DEF PhoneTaken
    <2>3. ~Contract!PhoneFree(n.id, n.phone)
      BY <1>1, <1>3, <1>4, <2>2, Rows DEF Contract!PhoneFree
    <2> QED
      BY <1>3, <1>4, <1>5, <2>1, <2>3, Giving, BlankFits
  <1>7. CASE ~PhoneTaken(a, phone)
    <2>1. account' = [account EXCEPT ![a] = [account[a] EXCEPT !.phone = phone]]
      BY <1>2, <1>7 DEF SetAccount
    <2>2. /\ \A b \in AccountId : b # a => account'[b] = account[b]
          /\ account'[a].status = account[a].status
          /\ account'[a].email = account[a].email
          /\ account'[a].username = account[a].username
          /\ account'[a].phone = phone
          /\ account'[a].verified = account[a].verified
          /\ account'[a].token = account[a].token
          /\ account'[a].fresh = account[a].fresh
      BY <1>4, <2>1 DEF TypeOK, Account
    <2>3. subjects' = subjects /\ letters' = letters
      BY <1>2, <1>3, <1>4 DEF subjects, letters
    <2>4. keys' = keys
      <3>1. \A b \in AccountId : /\ account'[b].token = account[b].token
                                 /\ account'[b].fresh = account[b].fresh
        BY <2>2
      <3> QED
        BY <1>3, <1>4, <3>1 DEF keys
    <2>5. doors' = doors
      BY <1>2, <1>3, <1>5 DEF doors
    <2>6. people' = [people EXCEPT ![a].phone = phone]
      <3>1. \A b \in AccountId : ~Verifying(n, b) /\ ~Verifying(Blank, b)
        BY <1>3, <1>4 DEF Verifying
      <3>2. \A b \in AccountId : ~Verifying(now, b) /\ ~Verifying(now, b)'
        BY <1>3, <3>1 DEF Verifying
      <3>3. \A b \in AccountId : b # a => people'[b] = people[b]
        BY <2>2, <3>2 DEF people
      <3>4. /\ people'[a].status = people[a].status
            /\ people'[a].email = people[a].email
            /\ people'[a].username = people[a].username
            /\ people'[a].phone = phone
            /\ people'[a].verified = people[a].verified
        BY <1>4, <2>2, <3>2 DEF people
      <3>5. people \in [AccountId -> Row] /\ people' \in [AccountId -> Row]
        BY <1>4, PeopleType
      <3>6. PICK p, q : p = people[a] /\ q = people'[a]
        OBVIOUS
      <3>7. p \in Row /\ q \in Row
        BY <1>4, <3>5, <3>6
      <3>8. q = [p EXCEPT !.phone = phone]
        BY <3>4, <3>6, <3>7, PhoneSet DEF Row
      <3> QED
        BY <1>4, <3>3, <3>5, <3>6, <3>8
    <2>7. PICK g : g = Asked(n)
      OBVIOUS
    <2>8. g.op = "profile" /\ g.person = a /\ g.phone = phone
      BY <1>1, <1>4, <2>7 DEF Asked
    <2>9. Contract!Known(a) /\ Contract!PhoneFree(a, phone)
      BY <1>3, <1>4, <1>7, Rows DEF PhoneTaken, Contract!PhoneFree
    <2>a. Contract!SetPhone(g)
      BY <2>3, <2>4, <2>5, <2>6, <2>8, <2>9 DEF Contract!SetPhone
    <2> QED
      BY <1>3, <1>5, <2>7, <2>a, Deciding, BlankFits
  <1> QED
    BY <1>6, <1>7

LEMMA WritesKeep ==
  ASSUME Ready, AccountsInv', NEW r \in Req, Writes(r)
  PROVE  Fits(now)' /\ KeepsSeen
  BY InsertKeeps, RenewKeeps, SendMailKeeps, VerifyKeeps, CreateStateKeeps, ConsumeKeeps,
     RelinkKeeps, RefreshKeeps, AttachKeeps, SignInKeeps, WritePhoneKeeps DEF Writes

\* An account that is not there has no token that is good.
LEMMA FreshStays ==
  ASSUME AccountsInv, FreshKnown, [Next]_vars
  PROVE  FreshKnown'
  <1>1. TypeOK
    BY DEF AccountsInv, Inv
  <1>2. ASSUME account' = account PROVE FreshKnown'
    BY <1>2 DEF FreshKnown, Known
  <1>3. ASSUME NEW a \in AccountId, NEW v, SetAccount(a, v),
               v.status # "none" \/ ~v.fresh
        PROVE  FreshKnown'
    <2>1. \A b \in AccountId : account'[b] = IF b = a THEN v ELSE account[b]
      BY <1>1, <1>3 DEF TypeOK, SetAccount
    <2> QED
      BY <1>3, <2>1 DEF FreshKnown, Known
  <1>4. ASSUME NEW r \in Req, Arrivals(r) \/ Lookups(r) \/ Crash(r)
        PROVE  FreshKnown'
    <2>1. account' = account
      BY <1>4
        DEF Arrivals, RegisterArrive, VerifyArrive, ResendArrive, StartArrive,
            CallbackArrive, ProfileArrive, Arrive, Lookups, FindEmail, FindName, FindToken, FindState,
            AskProvider, FindLink, FindUser, Read, Crash, rows
    <2> QED
      BY <1>2, <2>1
  <1>5. ASSUME NEW r \in Req, Insert(r)
        PROVE  FreshKnown'
    <2>1. PICK n, mine : n = req[r] /\ mine = (n.op = "register")
      OBVIOUS
    <2>2. PICK a \in AccountId :
            IF Taken(n.email, n.name) \/ PhoneTaken(a, n.phone)
            THEN UNCHANGED <<rows, tokens>>
            ELSE SetAccount(a, [status |-> "active", email |-> n.email,
                                username |-> n.name, phone |-> n.phone,
                                verified |-> n.told,
                                token |-> IF n.op = "register" THEN tokens + 1 ELSE 0,
                                fresh |-> n.op = "register"])
      BY <1>5, <2>1 DEF Insert
    <2>3. CASE Taken(n.email, n.name) \/ PhoneTaken(a, n.phone)
      BY <1>2, <2>2, <2>3 DEF rows
    <2>4. CASE ~(Taken(n.email, n.name) \/ PhoneTaken(a, n.phone))
      <3>1. PICK v : v = [status |-> "active", email |-> n.email,
                          username |-> n.name, phone |-> n.phone, verified |-> n.told,
                          token |-> IF n.op = "register" THEN tokens + 1 ELSE 0,
                          fresh |-> n.op = "register"]
        OBVIOUS
      <3>2. SetAccount(a, v)
        BY <2>2, <2>4, <3>1
      <3>3. v.status = "active"
        BY <3>1
      <3> QED
        BY <1>3, <3>2, <3>3
    <2> QED
      BY <2>3, <2>4
  <1>6. ASSUME NEW r \in Req, Renew(r) \/ Verify(r) \/ Refresh(r) \/ WritePhone(r)
        PROVE  FreshKnown'
    <2>1. PICK a : a = req[r].id
      OBVIOUS
    <2>2. a \in AccountId /\ a # 0 /\ Known(a)
      <3>1. req[r].pc \in {"renew", "verify", "refresh", "phone"}
        BY <1>6 DEF Renew, Verify, Refresh, WritePhone, At
      <3> QED
        BY <2>1, <3>1 DEF AccountsInv, RequestOK, AccountId
    <2>3. account[a] \in Account
      BY <1>1, <2>2 DEF TypeOK
    <2>4. ASSUME account' # account
          PROVE  \E v : SetAccount(a, v) /\ v.status = account[a].status
      <3>1. CASE Renew(r)
        <4>1. SetAccount(a, [account[a] EXCEPT !.token = tokens + 1, !.fresh = TRUE])
          BY <2>1, <3>1 DEF Renew
        <4>2. [account[a] EXCEPT !.token = tokens + 1, !.fresh = TRUE].status =
                account[a].status
          BY <2>3 DEF Account
        <4> QED
          BY <4>1, <4>2
      <3>2. CASE Verify(r)
        <4>1. SetAccount(a, [account[a] EXCEPT !.verified = TRUE, !.token = 0,
                                               !.fresh = FALSE])
          BY <2>1, <3>2 DEF Verify
        <4>2. [account[a] EXCEPT !.verified = TRUE, !.token = 0, !.fresh = FALSE].status =
                account[a].status
          BY <2>3 DEF Account
        <4> QED
          BY <4>1, <4>2
      <3>3. CASE Refresh(r)
        <4>1. PICK b : b = (req[r].was \/ req[r].told)
          OBVIOUS
        <4>2. SetAccount(a, [account[a] EXCEPT !.verified = b])
          BY <2>1, <3>3, <4>1 DEF Refresh
        <4>3. [account[a] EXCEPT !.verified = b].status = account[a].status
          BY <2>3 DEF Account
        <4> QED
          BY <4>2, <4>3
      <3>4. CASE WritePhone(r)
        <4>1. PICK phone : phone = req[r].phone
          OBVIOUS
        <4>2. SetAccount(a, [account[a] EXCEPT !.phone = phone])
          BY <2>1, <2>4, <3>4, <4>1 DEF WritePhone, rows
        <4>3. [account[a] EXCEPT !.phone = phone].status = account[a].status
          BY <2>3 DEF Account
        <4> QED
          BY <4>2, <4>3
      <3> QED
        BY <1>6, <3>1, <3>2, <3>3, <3>4
    <2> QED
      BY <1>2, <1>3, <2>2, <2>4 DEF Known
  <1>7. ASSUME NEW r \in Req, Writes(r),
               ~Insert(r), ~Renew(r), ~Verify(r), ~Refresh(r), ~WritePhone(r)
        PROVE  FreshKnown'
    <2>1. account' = account
      BY <1>7 DEF Writes, SendMail, CreateState, Consume, Relink, Attach, SignIn, rows
    <2> QED
      BY <1>2, <2>1
  <1>8. ASSUME NEW a \in AccountId, Administer(a)
        PROVE  FreshKnown'
    <2>1. PICK status \in {"active", "suspended", "deleted"} :
            SetAccount(a, [account[a] EXCEPT !.status = status])
      BY <1>8 DEF Administer
    <2>2. [account[a] EXCEPT !.status = status].status # "none"
      BY <1>1 DEF TypeOK, Account
    <2> QED
      BY <1>3, <2>1, <2>2
  <1>9. ASSUME NEW a \in AccountId, ExpireToken(a)
        PROVE  FreshKnown'
    <2>1. SetAccount(a, [account[a] EXCEPT !.fresh = FALSE])
      BY <1>9 DEF ExpireToken
    <2>2. ~[account[a] EXCEPT !.fresh = FALSE].fresh
      BY <1>1 DEF TypeOK, Account
    <2> QED
      BY <1>3, <2>1, <2>2
  <1>a. ASSUME NEW s \in StateId, ExpireState(s)
        PROVE  FreshKnown'
    BY <1>2, <1>a DEF ExpireState, rows
  <1>b. CASE UNCHANGED vars
    BY <1>2, <1>b DEF vars
  <1> QED
    BY <1>4, <1>5, <1>6, <1>7, <1>8, <1>9, <1>a, <1>b DEF Next, Environment

-----------------------------------------------------------------------------
(* The surroundings                                                        *)

LEMMA NowOK == Ready => now \in Request /\ RequestOK(now) /\ SerialAt(now)
  <1> SUFFICES ASSUME Ready PROVE now \in Request /\ RequestOK(now) /\ SerialAt(now)
    OBVIOUS
  <1>1. CASE Quiet
    BY <1>1, NowBlank, BlankFacts, BlankOK
  <1>2. CASE ~Quiet
    BY <1>2, Served DEF Quiet, Ready
  <1> QED
    BY <1>1, <1>2

LEMMA FitsOutside ==
  ASSUME NEW n, Fits(n), link' = link, tokens' = tokens,
         \A a \in AccountId : Known(a) =>
             Known(a)' /\ account'[a].username = account[a].username,
         \A s \in StateId : state[s] = "gone" => state'[s] = "gone"
  PROVE  Fits(n)'
  BY DEF Fits

\* Records that differ in one field.
LEMMA SetStatus ==
  ASSUME NEW S, NEW E, NEW U, NEW P,
         NEW p \in [status : S, email : E, username : U, phone : P, verified : BOOLEAN],
         NEW q \in [status : S, email : E, username : U, phone : P, verified : BOOLEAN],
         NEW v \in S, q.status = v, p.email = q.email, p.username = q.username,
         p.phone = q.phone, p.verified = q.verified
  PROVE  q = [p EXCEPT !.status = v]
  <1> DEFINE e == [p EXCEPT !.status = v]
  <1>1. e \in [status : S, email : E, username : U, phone : P, verified : BOOLEAN]
    OBVIOUS
  <1>2. /\ e.status = v /\ e.email = p.email /\ e.username = p.username
        /\ e.phone = p.phone /\ e.verified = p.verified
    OBVIOUS
  <1> HIDE DEF e
  <1>3. \A x, y \in [status : S, email : E, username : U, phone : P, verified : BOOLEAN] :
          x.status = y.status /\ x.email = y.email /\ x.username = y.username
            /\ x.phone = y.phone /\ x.verified = y.verified => x = y
    OBVIOUS
  <1>4. q = e
    BY <1>1, <1>2, <1>3
  <1> QED
    BY <1>4 DEF e

LEMMA AdministerKeeps ==
  ASSUME Ready, AccountsInv', NEW a \in AccountId, Administer(a)
  PROVE  Fits(now)' /\ KeepsSeen
  <1>1. PICK n : n = now
    OBVIOUS
  <1>2. PICK status \in {"active", "suspended", "deleted"} :
          SetAccount(a, [account[a] EXCEPT !.status = status])
    BY DEF Administer
  <1>3. /\ Present(a) /\ UNCHANGED <<mix, link, state, tokens, mailed, req>>
        /\ TypeOK /\ TypeOK' /\ Fits(n)
    BY <1>1, <1>2
      DEF Administer, SetAccount, secrets, Ready, Alone, DirectoryInv, AccountsInv, Inv
  <1>4. now' = n
    BY <1>1, <1>3 DEF now, Quiet, At
  <1>5. account[a] \in Account
    BY <1>3 DEF TypeOK
  <1>6. /\ \A b \in AccountId : b # a => account'[b] = account[b]
        /\ account'[a].status = status /\ account'[a].email = account[a].email
        /\ account'[a].username = account[a].username
        /\ account'[a].phone = account[a].phone
        /\ account'[a].verified = account[a].verified
        /\ account'[a].token = account[a].token
        /\ account'[a].fresh = account[a].fresh
    BY <1>2, <1>3, <1>5 DEF SetAccount, TypeOK, Account
  <1>7. \A b \in AccountId : Known(b) => Known(b)' /\ account'[b].username = account[b].username
    BY <1>6 DEF Known
  <1>8. Fits(n)'
    BY <1>3, <1>7, FitsOutside
  <1>9. subjects' = subjects /\ letters' = letters /\ doors' = doors /\ asked' = asked
    BY <1>1, <1>3, <1>4 DEF subjects, letters, doors, asked, Holding
  <1>a. keys' = keys
    <2>1. \A b \in AccountId : account'[b].token = account[b].token
                               /\ account'[b].fresh = account[b].fresh
      BY <1>6
    <2> QED
      BY <1>1, <1>3, <1>4, <2>1 DEF keys
  <1>b. people' = [people EXCEPT ![a].status = status]
    <2>1. PICK p, q : p = people[a] /\ q = people'[a]
      OBVIOUS
    <2>2. people \in [AccountId -> Row] /\ people' \in [AccountId -> Row]
      BY <1>3, PeopleType
    <2>3. p \in Row /\ q \in Row
      BY <2>1, <2>2
    <2>4. \A b \in AccountId : b # a => people'[b] = people[b]
      BY <1>1, <1>4, <1>6 DEF people, Verifying
    <2>5. /\ q.status = status /\ q.email = p.email /\ q.username = p.username
          /\ q.phone = p.phone /\ q.verified = p.verified
      BY <1>1, <1>4, <1>6, <2>1 DEF people, Verifying
    <2>6. q = [p EXCEPT !.status = status]
      BY <2>3, <2>5, SetStatus DEF Row
    <2> HIDE DEF Row
    <2> QED
      BY <2>1, <2>2, <2>4, <2>6
  <1>c. Contract!Present(a)
    BY <1>3, Rows
  <1>d. Contract!Outside
    BY <1>9, <1>a, <1>b, <1>c DEF Contract!Outside
  <1> QED
    BY <1>4, <1>8, <1>d DEF Contract!CNext, KeepsSeen

LEMMA ExpireTokenKeeps ==
  ASSUME Ready, AccountsInv', NEW a \in AccountId, ExpireToken(a)
  PROVE  Fits(now)' /\ KeepsSeen
  <1>1. PICK n : n = now
    OBVIOUS
  <1>2. /\ SetAccount(a, [account[a] EXCEPT !.fresh = FALSE])
        /\ UNCHANGED <<mix, link, state, tokens, mailed, req>>
        /\ TypeOK /\ Fits(n) /\ account[a].fresh
    BY <1>1 DEF ExpireToken, SetAccount, secrets, Ready, Alone, DirectoryInv, AccountsInv, Inv
  <1>3. now' = n
    BY <1>1, <1>2 DEF now, Quiet, At
  <1>4. account[a] \in Account
    BY <1>2 DEF TypeOK
  <1>5. /\ \A b \in AccountId : b # a => account'[b] = account[b]
        /\ account'[a].status = account[a].status /\ account'[a].email = account[a].email
        /\ account'[a].username = account[a].username
        /\ account'[a].phone = account[a].phone
        /\ account'[a].verified = account[a].verified
        /\ account'[a].token = account[a].token
        /\ ~account'[a].fresh
    BY <1>2, <1>4 DEF SetAccount, TypeOK, Account
  <1>6. \A b \in AccountId : /\ account'[b].status = account[b].status
                             /\ account'[b].email = account[b].email
                             /\ account'[b].username = account[b].username
                             /\ account'[b].phone = account[b].phone
                             /\ account'[b].verified = account[b].verified
    BY <1>5
  <1>7. Fits(n)'
    BY <1>2, <1>6, FitsOutside DEF Known
  <1>8. subjects' = subjects /\ letters' = letters /\ doors' = doors /\ asked' = asked
    BY <1>1, <1>2, <1>3 DEF subjects, letters, doors, asked, Holding
  <1>9. people' = people
    BY <1>1, <1>3, <1>6 DEF people, Verifying
  <1>a. CASE n.pc = "renew" /\ n.id = a
    <2>1. keys' = keys
      BY <1>1, <1>2, <1>3, <1>5, <1>a DEF keys
    <2> QED
      BY <1>3, <1>7, <1>8, <1>9, <2>1 DEF KeepsSeen, Contract!cvars
  <1>b. CASE ~(n.pc = "renew" /\ n.id = a)
    <2>1. keys' = [keys EXCEPT ![a] = 0]
      <3>1. \A b \in AccountId : b # a => keys'[b] = keys[b]
        BY <1>1, <1>2, <1>3, <1>5 DEF keys
      <3>2. keys'[a] = 0
        BY <1>3, <1>5, <1>b DEF keys
      <3>3. keys = [b \in AccountId |-> keys[b]] /\ keys' = [b \in AccountId |-> keys'[b]]
        BY DEF keys
      <3> QED
        BY <3>1, <3>2, <3>3
    <2>2. Contract!Outside
      BY <1>8, <1>9, <2>1 DEF Contract!Outside
    <2> QED
      BY <1>3, <1>7, <2>2 DEF Contract!CNext, KeepsSeen
  <1> QED
    BY <1>a, <1>b

LEMMA ExpireStateKeeps ==
  ASSUME Ready, AccountsInv', NEW s \in StateId, ExpireState(s)
  PROVE  Fits(now)' /\ KeepsSeen
  <1>1. PICK n : n = now
    OBVIOUS
  <1>2. /\ UNCHANGED <<mix, account, link, tokens, mailed, req>>
        /\ state' = [state EXCEPT ![s] = "gone"] /\ state[s] \in Provider
        /\ TypeOK /\ Fits(n)
    BY <1>1 DEF ExpireState, rows, Ready, Alone, DirectoryInv, AccountsInv, Inv
  <1>3. now' = n
    BY <1>1, <1>2 DEF now, Quiet, At
  <1>4. \A x \in StateId : state'[x] = IF x = s THEN "gone" ELSE state[x]
    BY <1>2 DEF TypeOK
  <1>5. Fits(n)'
    BY <1>2, <1>4, FitsOutside DEF Known
  <1>6. subjects' = subjects /\ letters' = letters /\ people' = people /\ keys' = keys
        /\ asked' = asked
    BY <1>1, <1>2, <1>3 DEF subjects, letters, people, Verifying, keys, asked
  <1>7. CASE Holding(n) /\ n.state = s
    <2>1. doors' = doors
      BY <1>1, <1>3, <1>4, <1>7 DEF doors
    <2> QED
      BY <1>3, <1>5, <1>6, <2>1 DEF KeepsSeen, Contract!cvars
  <1>8. CASE ~(Holding(n) /\ n.state = s)
    <2>1. \A x \in StateId : doors'[x] = IF x = s THEN "gone" ELSE doors[x]
      BY <1>1, <1>3, <1>4, <1>8 DEF doors
    <2>2. doors = [x \in StateId |-> doors[x]] /\ doors' = [x \in StateId |-> doors'[x]]
      BY DEF doors
    <2>3. doors' = [doors EXCEPT ![s] = "gone"]
      BY <2>1, <2>2
    <2>4. doors[s] # "none"
      BY <1>1, <1>2, <1>8 DEF doors
    <2>5. Contract!Outside
      BY <1>6, <2>3, <2>4 DEF Contract!Outside
    <2> QED
      BY <1>3, <1>5, <2>5 DEF Contract!CNext, KeepsSeen
  <1> QED
    BY <1>7, <1>8

-----------------------------------------------------------------------------
(* The contract is kept                                                    *)

LEMMA DirectoryInit == Init => DirectoryInv /\ Contract!CInit
  <1> SUFFICES ASSUME Init PROVE DirectoryInv /\ Contract!CInit
    OBVIOUS
  <1>1. now = Blank /\ Blank.pc = "idle"
    BY BlankFacts DEF Init, Quiet, At, now
  <1>2. \A a \in AccountId : account[a].status = "none" /\ ~account[a].fresh
    BY DEF Init, NoAccount
  <1>3. DirectoryInv
    BY <1>1, <1>2, BlankFits DEF DirectoryInv, FreshKnown
  <1>4. \A a \in AccountId : ~Contract!Known(a) /\ keys[a] = 0
    BY <1>1, <1>2, Rows DEF Known, keys
  <1>5. \A i \in Identity : subjects[i] = 0
    BY <1>1 DEF Init, subjects
  <1>6. \A t \in Token : letters[t] = NoEmail
    BY <1>1 DEF Init, letters
  <1>7. \A s \in StateId : doors[s] = "none"
    BY <1>1 DEF Init, doors, Holding, Undecided
  <1>8. asked = {}
    BY <1>1 DEF asked, Undecided
  <1> QED
    BY <1>3, <1>4, <1>5, <1>6, <1>7, <1>8 DEF Contract!CInit

LEMMA DirectoryNext ==
  ASSUME AccountsInv, AccountsInv', DirectoryInv, [Next]_vars
  PROVE  /\ DirectoryInv'
         /\ [~mix.overlap /\ ~mix.crash => Contract!CNext]_(Contract!cvars)
  <1>1. FreshKnown'
    BY FreshStays DEF DirectoryInv
  <1>2. CASE UNCHANGED vars
    <2>1. /\ UNCHANGED <<mix, account, link, state, tokens, mailed, req>> /\ now' = now
      BY <1>2 DEF vars, now, Quiet, At
    <2>2. Fits(now) => Fits(now)'
      BY <2>1 DEF Fits, Known
    <2>3. UNCHANGED Contract!cvars
      BY <2>1 DEF Contract!cvars, people, Verifying, subjects, letters, keys, doors,
                  Holding, asked
    <2> QED
      BY <1>1, <2>1, <2>2, <2>3 DEF DirectoryInv
  <1>3. ASSUME Next PROVE mix' = mix
    <2>1. ASSUME NEW r \in Req, Arrivals(r) \/ Lookups(r) \/ Crash(r)
          PROVE  mix' = mix
      BY <2>1
        DEF Arrivals, RegisterArrive, VerifyArrive, ResendArrive, StartArrive,
            CallbackArrive, ProfileArrive, Arrive, Lookups, FindEmail, FindName,
            FindToken, FindState, AskProvider, FindLink, FindUser, Read, Crash, rows
    <2>2. ASSUME NEW r \in Req, Writes(r)
          PROVE  mix' = mix
      BY <2>2
        DEF Writes, Insert, Renew, SendMail, Verify, CreateState, Consume, Relink,
            Refresh, Attach, SignIn, WritePhone, SetAccount, rows
    <2>3. ASSUME Environment PROVE mix' = mix
      BY <2>3 DEF Environment, Administer, ExpireToken, ExpireState, SetAccount, rows
    <2> QED
      BY <1>3, <2>1, <2>2, <2>3 DEF Next
  <1>4. CASE Next /\ mix.overlap
    BY <1>1, <1>3, <1>4 DEF DirectoryInv
  <1>5. CASE Next /\ ~mix.overlap
    <2>1. Ready
      BY <1>5 DEF Ready, Alone
    <2>2. CASE Environment
      <3>1. Fits(now)' /\ KeepsSeen
        BY <2>1, <2>2, AdministerKeeps, ExpireTokenKeeps, ExpireStateKeeps DEF Environment
      <3> QED
        BY <1>1, <3>1 DEF DirectoryInv, KeepsSeen
    <2>3. ASSUME NEW r \in Req, Arrivals(r) \/ Lookups(r) \/ Writes(r)
          PROVE  /\ DirectoryInv'
                 /\ [~mix.overlap /\ ~mix.crash => Contract!CNext]_(Contract!cvars)
      <3>1. Fits(now)' /\ KeepsSeen
        BY <2>1, <2>3, ArrivalsKeep, LookupsKeep, WritesKeep
      <3> QED
        BY <1>1, <3>1 DEF DirectoryInv, KeepsSeen
    <2>4. ASSUME NEW r \in Req, Crash(r)
          PROVE  /\ DirectoryInv'
                 /\ [~mix.overlap /\ ~mix.crash => Contract!CNext]_(Contract!cvars)
      <3>1. ~At(r, "idle") /\ Become(r, Blank) /\ mix.crash
        BY <2>4 DEF Crash, End
      <3>2. req' = [req EXCEPT ![r] = Blank]
        BY <3>1 DEF Become
      <3>3. now' = Blank
        BY <1>3, <1>5, <2>1, <3>1, <3>2, Turn DEF Ready
      <3> QED
        BY <1>1, <3>1, <3>3, BlankFits DEF DirectoryInv
    <2> QED
      BY <1>5, <2>2, <2>3, <2>4 DEF Next
  <1> QED
    BY <1>2, <1>4, <1>5

\* For any number of accounts, letters, providers and requests: registration,
\* verification and the sign-in by a provider keep the contract when requests
\* neither overlap nor are cut off, whatever administrators and the time do
\* between their statements: register, verifyEmail, resendVerification,
\* handleOAuthCallback, updateProfile.  An address, a user name and a telephone number
\* are refused only while another account has them.
THEOREM DirectoryIsKept == Spec => KeepsContract
  <1>1. AccountsInv /\ AccountsInv' /\ DirectoryInv /\ [Next]_vars =>
          /\ DirectoryInv'
          /\ [~mix.overlap /\ ~mix.crash => Contract!CNext]_(Contract!cvars)
    BY DirectoryNext
  <1>2. Spec => Contract!CInit
                /\ [][~mix.overlap /\ ~mix.crash => Contract!CNext]_(Contract!cvars)
    BY <1>1, DirectoryInit, Reachable, PTL DEF Spec
  <1> QED
    BY <1>2 DEF KeepsContract

-----------------------------------------------------------------------------
(* The search for a name                                                   *)

\* Every suffix that ensureUniqueUsername has passed over is the name of an account.
PassedOver(q) ==
    q.op = "callback" /\ q.pc \in {"name", "insert"} =>
        \A n \in Nat : n < q.name.suffix =>
            \E a \in AccountId : Known(a) /\ account[a].username = [base |-> q.name.base,
                                                                    suffix |-> n]

\* Accounts keep their names, deleted ones too.
NamesStay ==
    \A a \in AccountId : Known(a) => Known(a)' /\ account'[a].username = account[a].username

LEMMA EditStays ==
  ASSUME TypeOK, NEW a \in AccountId, NEW row,
         account' = [account EXCEPT ![a] = row],
         Known(a) => row.status # "none" /\ row.username = account[a].username
  PROVE  NamesStay
  BY DEF NamesStay, Known, TypeOK

LEMMA AllStay ==
  ASSUME AccountsInv, [Next]_vars
  PROVE  NamesStay
  <1>0. TypeOK
    BY DEF AccountsInv, Inv
  <1>a. \A a \in AccountId : account[a] \in Account
    BY <1>0 DEF TypeOK
  <1>1. CASE UNCHANGED account
    BY <1>1 DEF NamesStay, Known
  <1>2. ASSUME NEW r \in Req, Insert(r), account' # account
        PROVE  NamesStay
    <2>1. PICK a \in AccountId :
            ~Known(a) /\ \E row : account' = [account EXCEPT ![a] = row]
      BY <1>2 DEF Insert, SetAccount, rows
    <2>2. PICK row : account' = [account EXCEPT ![a] = row]
      BY <2>1
    <2> QED
      BY <1>0, <2>1, <2>2, EditStays
  <1>3. ASSUME NEW r \in Req, Renew(r)
        PROVE  NamesStay
    <2>1. req[r].id \in AccountId /\ Known(req[r].id)
      BY <1>3 DEF Renew, At, AccountsInv, RequestOK, AccountId
    <2>2. PICK a \in AccountId : a = req[r].id
      BY <2>1
    <2> DEFINE row == [account[a] EXCEPT !.token = tokens + 1, !.fresh = TRUE]
    <2>3. account' = [account EXCEPT ![a] = row]
      BY <1>3, <2>2 DEF Renew, SetAccount
    <2>4. row.status = account[a].status /\ row.username = account[a].username
      BY <1>a DEF Account
    <2> HIDE DEF row
    <2> QED
      BY <1>0, <2>3, <2>4, EditStays DEF Known
  <1>4. ASSUME NEW r \in Req, Verify(r)
        PROVE  NamesStay
    <2>1. req[r].id \in AccountId
      BY <1>4 DEF Verify, At, AccountsInv, RequestOK
    <2>2. PICK a \in AccountId : a = req[r].id
      BY <2>1
    <2> DEFINE row == [account[a] EXCEPT !.verified = TRUE, !.token = 0, !.fresh = FALSE]
    <2>3. account' = [account EXCEPT ![a] = row]
      BY <1>4, <2>2 DEF Verify, SetAccount
    <2>4. row.status = account[a].status /\ row.username = account[a].username
      BY <1>a DEF Account
    <2> HIDE DEF row
    <2> QED
      BY <1>0, <2>3, <2>4, EditStays DEF Known
  <1>5. ASSUME NEW r \in Req, Refresh(r)
        PROVE  NamesStay
    <2>1. req[r].id \in AccountId
      BY <1>5 DEF Refresh, At, AccountsInv, RequestOK
    <2>2. PICK a \in AccountId : a = req[r].id
      BY <2>1
    <2> DEFINE row == [account[a] EXCEPT !.verified = req[r].was \/ req[r].told]
    <2>3. account' = [account EXCEPT ![a] = row]
      BY <1>5, <2>2 DEF Refresh, SetAccount
    <2>4. row.status = account[a].status /\ row.username = account[a].username
      BY <1>a DEF Account
    <2> HIDE DEF row
    <2> QED
      BY <1>0, <2>3, <2>4, EditStays DEF Known
  <1>11. ASSUME NEW r \in Req, WritePhone(r), account' # account
         PROVE  NamesStay
    <2>1. req[r].id \in AccountId
      BY <1>11 DEF WritePhone, At, AccountsInv, RequestOK
    <2>2. PICK a \in AccountId : a = req[r].id
      BY <2>1
    <2> DEFINE row == [account[a] EXCEPT !.phone = req[r].phone]
    <2>3. account' = [account EXCEPT ![a] = row]
      BY <1>11, <2>2 DEF WritePhone, SetAccount, rows
    <2>4. row.status = account[a].status /\ row.username = account[a].username
      BY <1>a DEF Account
    <2> HIDE DEF row
    <2> QED
      BY <1>0, <2>3, <2>4, EditStays DEF Known
  <1>6. ASSUME NEW a \in AccountId, Administer(a)
        PROVE  NamesStay
    <2>1. PICK status \in {"active", "suspended", "deleted"} :
            account' = [account EXCEPT ![a] = [account[a] EXCEPT !.status = status]]
      BY <1>6 DEF Administer, SetAccount
    <2> DEFINE row == [account[a] EXCEPT !.status = status]
    <2>2. row.status = status /\ row.username = account[a].username
      BY <1>a DEF Account
    <2> HIDE DEF row
    <2> QED
      BY <1>0, <2>1, <2>2, EditStays DEF row
  <1>7. ASSUME NEW a \in AccountId, ExpireToken(a)
        PROVE  NamesStay
    <2> DEFINE row == [account[a] EXCEPT !.fresh = FALSE]
    <2>1. account' = [account EXCEPT ![a] = row]
      BY <1>7 DEF ExpireToken, SetAccount
    <2>2. row.status = account[a].status /\ row.username = account[a].username
      BY <1>a DEF Account
    <2> HIDE DEF row
    <2> QED
      BY <1>0, <2>1, <2>2, EditStays DEF Known
  <1>8. ASSUME NEW r \in Req, Arrivals(r) \/ Lookups(r) \/ Crash(r)
        PROVE  account' = account
    BY <1>8 DEF Arrivals, RegisterArrive, VerifyArrive, ResendArrive, StartArrive,
                CallbackArrive, ProfileArrive, Arrive, Lookups, FindEmail, FindName,
                FindToken, FindState, AskProvider, FindLink, FindUser, Read, Crash, rows
  <1>9. ASSUME NEW r \in Req,
               \/ SendMail(r) \/ CreateState(r) \/ Consume(r) \/ Relink(r) \/ Attach(r)
               \/ SignIn(r)
        PROVE  account' = account
    BY <1>9 DEF SendMail, CreateState, Consume, Relink, Attach, SignIn, rows
  <1>10. ASSUME NEW s \in StateId, ExpireState(s)
         PROVE  account' = account
    BY <1>10 DEF ExpireState, rows
  <1> QED
    BY <1>1, <1>2, <1>3, <1>4, <1>5, <1>6, <1>7, <1>8, <1>9, <1>10, <1>11
    DEF Next, Environment, Writes, vars

\* A step of one request whose next record is known.
LEMMA PassedNext ==
  ASSUME TypeOK, NamesStay, \A r \in Req : PassedOver(req[r]),
         NEW r \in Req, NEW q \in Request, req' = [req EXCEPT ![r] = q], PassedOver(q)
  PROVE  (\A s \in Req : PassedOver(req[s]))'
  <1>1. ASSUME NEW p, PassedOver(p) PROVE PassedOver(p)'
    BY <1>1 DEF PassedOver, NamesStay
  <1>2. ASSUME NEW s \in Req PROVE PassedOver(req[s])'
    <2>1. PICK p : p = req'[s] /\ PassedOver(p)
      BY DEF TypeOK
    <2>2. PassedOver(p)'
      BY <2>1, <1>1
    <2> QED
      BY <2>1, <2>2 DEF PassedOver
  <1> QED
    BY <1>2

\* The steps after which a request does not look for a name.
Elsewhere(r) ==
    \/ Arrivals(r) \/ FindToken(r) \/ FindState(r) \/ AskProvider(r) \/ FindLink(r)
    \/ FindUser(r) \/ Writes(r) \/ Crash(r)

LEMMA ElsewherePasses ==
  ASSUME TypeOK, NEW r \in Req, Elsewhere(r)
  PROVE  /\ req' = [req EXCEPT ![r] = req'[r]]
         /\ req'[r].pc \notin {"name", "insert"}
  <1>0. req \in [Req -> Request] /\ req[r] \in Request /\ Blank \in Request
        /\ Blank.pc = "idle"
    BY BlankFacts DEF TypeOK
  <1>1. CASE Arrivals(r)
    <2>1. PICK op \in Operation, q \in Request :
            /\ Arrive(r, op, q)
            /\ q.pc \in {"email", "token", "start", "state", "user"}
      <3>1. CASE RegisterArrive(r)
        <4>1. PICK email \in Email, b \in Base, i \in 0..MaxSuffix, phone \in PhoneGiven :
                Arrive(r, "register", [Blank EXCEPT !.pc = "email", !.email = email,
                                                    !.name = [base |-> b, suffix |-> i],
                                                    !.phone = phone])
          BY <3>1 DEF RegisterArrive
        <4>2. [base |-> b, suffix |-> i] \in Name /\ phone \in Phone \cup {NoPhone}
          BY DEF Name, PhoneGiven
        <4>3. /\ [Blank EXCEPT !.pc = "email", !.email = email,
                               !.name = [base |-> b, suffix |-> i],
                               !.phone = phone] \in Request
              /\ [Blank EXCEPT !.pc = "email", !.email = email,
                               !.name = [base |-> b, suffix |-> i],
                               !.phone = phone].pc = "email"
          BY <1>0, <4>2 DEF Request, Label
        <4> QED
          BY <4>1, <4>3 DEF Operation
      <3>2. CASE VerifyArrive(r)
        <4>1. PICK t \in Token :
                Arrive(r, "verify", [Blank EXCEPT !.pc = "token", !.token = t])
          BY <3>2 DEF VerifyArrive
        <4>2. t \in 0..MaxToken
          BY DEF Token
        <4>3. /\ [Blank EXCEPT !.pc = "token", !.token = t] \in Request
              /\ [Blank EXCEPT !.pc = "token", !.token = t].pc = "token"
          BY <1>0, <4>2 DEF Request, Label
        <4> QED
          BY <4>1, <4>3 DEF Operation
      <3>3. CASE ResendArrive(r)
        <4>1. PICK email \in Email :
                Arrive(r, "resend", [Blank EXCEPT !.pc = "email", !.email = email])
          BY <3>3 DEF ResendArrive
        <4>2. /\ [Blank EXCEPT !.pc = "email", !.email = email] \in Request
              /\ [Blank EXCEPT !.pc = "email", !.email = email].pc = "email"
          BY <1>0 DEF Request, Label
        <4> QED
          BY <4>1, <4>2 DEF Operation
      <3>4. CASE StartArrive(r)
        <4>1. /\ [Blank EXCEPT !.pc = "start"] \in Request
              /\ [Blank EXCEPT !.pc = "start"].pc = "start"
          BY <1>0 DEF Request, Label
        <4> QED
          BY <3>4, <4>1 DEF StartArrive, Operation
      <3>5. CASE CallbackArrive(r)
        <4>1. PICK s \in StateId, who \in Identity :
                Arrive(r, "callback",
                       [Blank EXCEPT !.pc = "state", !.state = s, !.who = who])
          BY <3>5 DEF CallbackArrive
        <4>2. s \in 0..MaxState
          BY DEF StateId
        <4>3. /\ [Blank EXCEPT !.pc = "state", !.state = s, !.who = who] \in Request
              /\ [Blank EXCEPT !.pc = "state", !.state = s, !.who = who].pc = "state"
          BY <1>0, <4>2 DEF Request, Label
        <4> QED
          BY <4>1, <4>3 DEF Operation
      <3>6. CASE ProfileArrive(r)
        <4>1. PICK a \in AccountId, phone \in PhoneGiven :
                Arrive(r, "profile",
                       [Blank EXCEPT !.pc = "user", !.id = a, !.phone = phone])
          BY <3>6 DEF ProfileArrive
        <4>2. a \in 0..MaxAccount /\ phone \in Phone \cup {NoPhone}
          BY DEF AccountId, PhoneGiven
        <4>3. /\ [Blank EXCEPT !.pc = "user", !.id = a, !.phone = phone] \in Request
              /\ [Blank EXCEPT !.pc = "user", !.id = a, !.phone = phone].pc = "user"
          BY <1>0, <4>2 DEF Request, Label
        <4> QED
          BY <4>1, <4>3 DEF Operation
      <3> QED
        BY <1>1, <3>1, <3>2, <3>3, <3>4, <3>5, <3>6 DEF Arrivals
    <2>2. req' = [req EXCEPT ![r] = [q EXCEPT !.op = op]]
      BY <2>1 DEF Arrive, Become
    <2>3. [q EXCEPT !.op = op].pc = q.pc
      BY <2>1 DEF Request
    <2> QED
      BY <1>0, <2>1, <2>2, <2>3
  <1>2. CASE FindToken(r)
    BY <1>0, <1>2 DEF FindToken, Read, Become, Request
  <1>3. CASE FindState(r)
    BY <1>0, <1>3 DEF FindState, Read, Become, Request
  <1>4. CASE AskProvider(r)
    BY <1>0, <1>4 DEF AskProvider, Read, Become, Request
  <1>5. CASE FindLink(r)
    BY <1>0, <1>5 DEF FindLink, Read, Become, Request
  <1>6. CASE Insert(r)
    <2>1. PICK next :
            /\ req' = [req EXCEPT ![r] = next]
            /\ \/ next = Blank
               \/ next = [req[r] EXCEPT !.pc = "mail", !.token = tokens + 1]
               \/ \E a \in AccountId : next = [req[r] EXCEPT !.pc = "attach", !.id = a]
      BY <1>6, Zenon DEF Insert, End, Become
    <2>2. next.pc \in {"idle", "mail", "attach"}
      BY <1>0, <2>1 DEF Request
    <2> QED
      BY <1>0, <2>1, <2>2
  <1>7. CASE Renew(r)
    BY <1>0, <1>7 DEF Renew, Become, Request
  <1>8. CASE \/ SendMail(r) \/ Verify(r) \/ CreateState(r) \/ SignIn(r) \/ Crash(r)
             \/ WritePhone(r)
    BY <1>0, <1>8
    DEF SendMail, Verify, CreateState, SignIn, WritePhone, Crash, End, Become
  <1>9. CASE Consume(r) \/ Relink(r) \/ Refresh(r)
    BY <1>0, <1>9 DEF Consume, Relink, Refresh, Goto, Request
  <1>10. CASE Attach(r)
    BY <1>0, <1>10 DEF Attach, Goto, End, Become, Request
  <1>11. CASE FindUser(r)
    BY <1>0, <1>11 DEF FindUser, Read, Become, Request
  <1> QED
    BY <1>1, <1>2, <1>3, <1>4, <1>5, <1>6, <1>7, <1>8, <1>9, <1>10, <1>11
    DEF Elsewhere, Writes

LEMMA FindEmailPasses ==
  ASSUME TypeOK, NEW r \in Req, FindEmail(r)
  PROVE  req' = [req EXCEPT ![r] = req'[r]] /\ PassedOver(req'[r])
  <1>0. req \in [Req -> Request] /\ req[r] \in Request /\ Blank.pc = "idle"
    BY BlankFacts DEF TypeOK
  <1>a. PICK next : req' = [req EXCEPT ![r] = next]
    BY DEF FindEmail, Read, Become
  <1>1. req' = [req EXCEPT ![r] = req'[r]]
    BY <1>0, <1>a
  <1>2. \/ req'[r] = Blank
        \/ req'[r].op = req[r].op
           /\ (req'[r].op = "callback" => req'[r].name.suffix = 0)
    BY <1>0 DEF FindEmail, Read, Become, Request
  <1> QED
    BY <1>0, <1>1, <1>2 DEF PassedOver

LEMMA FindNamePasses ==
  ASSUME TypeOK, NEW r \in Req, PassedOver(req[r]), FindName(r)
  PROVE  req' = [req EXCEPT ![r] = req'[r]] /\ PassedOver(req'[r])
  <1> DEFINE q == req[r]
  <1>0. req \in [Req -> Request] /\ q \in Request /\ q.name \in Name
        /\ Blank.pc = "idle"
    BY BlankFacts DEF TypeOK, Request
  <1>1. req' = [req EXCEPT ![r] = req'[r]] /\ q.pc = "name"
    BY <1>0 DEF FindName, Read, Become, At
  <1>2. \/ req'[r] = Blank
        \/ req'[r].op = q.op /\ req'[r].name = q.name
        \/ /\ WithName(q.name) # {} /\ req'[r].op = q.op
           /\ req'[r].name = [q.name EXCEPT !.suffix = @ + 1]
    <2>1. CASE WithName(q.name) = {}
      BY <1>0, <2>1 DEF FindName, Read, Become, Request
    <2>2. CASE WithName(q.name) # {}
      <3>1. req'[r] = IF q.op = "callback" THEN [q EXCEPT !.name.suffix = @ + 1] ELSE Blank
        BY <1>0, <2>2 DEF FindName, Read, Become
      <3>2. /\ [q EXCEPT !.name.suffix = @ + 1].op = q.op
            /\ [q EXCEPT !.name.suffix = @ + 1].name = [q.name EXCEPT !.suffix = @ + 1]
        BY <1>0 DEF Request
      <3> QED
        BY <2>2, <3>1, <3>2
    <2> QED
      BY <2>1, <2>2
  <1>3. CASE req'[r].op = q.op /\ req'[r].name = q.name
    BY <1>1, <1>3 DEF PassedOver
  <1>4. CASE /\ WithName(q.name) # {} /\ req'[r].op = q.op
             /\ req'[r].name = [q.name EXCEPT !.suffix = @ + 1]
    <2>1. /\ q.name.suffix \in Nat
          /\ q.name = [base |-> q.name.base, suffix |-> q.name.suffix]
          /\ req'[r].name.base = q.name.base /\ req'[r].name.suffix = q.name.suffix + 1
      BY <1>0, <1>4 DEF Name
    <2>2. \E a \in AccountId : Known(a) /\ account[a].username = q.name
      BY <1>4 DEF WithName, Present, Known
    <2> SUFFICES ASSUME req'[r].op = "callback", NEW n \in Nat, n < req'[r].name.suffix
                 PROVE  \E a \in AccountId : /\ Known(a)
                                             /\ account[a].username =
                                                  [base |-> req'[r].name.base, suffix |-> n]
      BY <1>1 DEF PassedOver
    <2>3. n < q.name.suffix \/ n = q.name.suffix
      BY <2>1
    <2> QED
      BY <1>1, <1>4, <2>1, <2>2, <2>3 DEF PassedOver
  <1> QED
    BY <1>0, <1>1, <1>2, <1>3, <1>4 DEF PassedOver

LEMMA AllPassNext ==
  ASSUME AccountsInv, AccountsInv', [Next]_vars, \A r \in Req : PassedOver(req[r])
  PROVE  (\A r \in Req : PassedOver(req[r]))'
  <1>0. TypeOK /\ TypeOK' /\ NamesStay
    BY AllStay DEF AccountsInv, Inv
  <1>1. ASSUME NEW r \in Req, req' = [req EXCEPT ![r] = req'[r]], PassedOver(req'[r])
        PROVE  (\A s \in Req : PassedOver(req[s]))'
    <2>1. PICK q \in Request : q = req'[r]
      BY <1>0 DEF TypeOK
    <2> QED
      BY <1>0, <1>1, <2>1, PassedNext
  <1>2. ASSUME NEW r \in Req, Elsewhere(r) PROVE (\A s \in Req : PassedOver(req[s]))'
    <2>1. req' = [req EXCEPT ![r] = req'[r]] /\ PassedOver(req'[r])
      BY <1>0, <1>2, ElsewherePasses DEF PassedOver
    <2> QED
      BY <1>1, <2>1
  <1>3. ASSUME NEW r \in Req, FindEmail(r) \/ FindName(r)
        PROVE  (\A s \in Req : PassedOver(req[s]))'
    <2>1. req' = [req EXCEPT ![r] = req'[r]] /\ PassedOver(req'[r])
      BY <1>0, <1>3, FindEmailPasses, FindNamePasses
    <2> QED
      BY <1>1, <2>1
  <1>4. CASE UNCHANGED req
    BY <1>0, <1>4 DEF PassedOver, NamesStay
  <1>5. Environment \/ UNCHANGED vars => UNCHANGED req
    BY DEF Environment, Administer, ExpireToken, ExpireState, vars
  <1> QED
    BY <1>2, <1>3, <1>4, <1>5 DEF Next, Lookups, Elsewhere

\* Different suffixes are the names of different accounts.
LEMMA FewSuffixes ==
  ASSUME NEW k \in Nat, NEW b,
         \A n \in Nat : n < k =>
            \E a \in AccountId : Known(a) /\ account[a].username = [base |-> b, suffix |-> n]
  PROVE  k <= Cardinality({a \in AccountId : Known(a)})
  <1> DEFINE S == 1 .. k
             T == {a \in AccountId : Known(a)}
             f == [i \in S |-> CHOOSE a \in T : account[a].username = [base |-> b,
                                                                     suffix |-> i - 1]]
  <1>1. IsFiniteSet(T)
    <2>1. IsFiniteSet(AccountId)
      <3>1. 1 \in Int /\ MaxAccount \in Int
        OBVIOUS
      <3>2. IsFiniteSet(1..MaxAccount)
        BY <3>1, FS_Interval
      <3> QED
        BY <3>2 DEF AccountId
    <2> QED
      BY <2>1, FS_Subset
  <1>2. Cardinality(S) = k
    BY FS_Interval
  <1>3. ASSUME NEW i \in S
        PROVE  f[i] \in T /\ account[f[i]].username = [base |-> b, suffix |-> i - 1]
    <2>1. i - 1 \in Nat /\ i - 1 < k
      OBVIOUS
    <2>2. \E a \in T : account[a].username = [base |-> b, suffix |-> i - 1]
      BY <2>1
    <2> QED
      BY <2>2
  <1>4. f \in Injection(S, T)
    <2>1. f \in [S -> T]
      BY <1>3
    <2>2. ASSUME NEW i \in S, NEW j \in S, f[i] = f[j]
          PROVE  i = j
      <3>1. [base |-> b, suffix |-> i - 1] = [base |-> b, suffix |-> j - 1]
        BY <1>3, <2>2
      <3>2. [base |-> b, suffix |-> i - 1].suffix = [base |-> b, suffix |-> j - 1].suffix
        BY <3>1
      <3> QED
        BY <3>2
    <2> HIDE DEF f
    <2> QED
      BY <2>1, <2>2 DEF Injection, IsInjective
  <1> HIDE DEF f, S, T
  <1>5. Cardinality(S) <= Cardinality(T)
    BY <1>1, <1>4, FS_Injection
  <1> QED
    BY <1>2, <1>5 DEF T

\* The loop of ensureUniqueUsername ends: it has never passed over more names than
\* there are accounts, whatever other requests insert between its look-ups.
THEOREM NameSearchesEnd == Spec => []SearchesAreShort
  <1>1. Init => \A r \in Req : PassedOver(req[r])
    BY BlankFacts DEF Init, PassedOver
  <1>2. AccountsInv /\ AccountsInv' /\ [Next]_vars /\ (\A r \in Req : PassedOver(req[r]))
          => (\A r \in Req : PassedOver(req[r]))'
    BY AllPassNext
  <1>3. AccountsInv /\ (\A r \in Req : PassedOver(req[r])) => SearchesAreShort
    <2> SUFFICES ASSUME AccountsInv, NEW r \in Req, PassedOver(req[r]),
                        req[r].op = "callback", req[r].pc \in {"name", "insert"}
                 PROVE  req[r].name.suffix <= Cardinality({a \in AccountId : Known(a)})
      BY DEF SearchesAreShort
    <2>1. req[r].name.suffix \in Nat
      BY DEF AccountsInv, Inv, TypeOK, Request, Name
    <2> QED
      BY <2>1, FewSuffixes DEF PassedOver
  <1> QED
    BY <1>1, <1>2, <1>3, Reachable, PTL DEF Spec

=============================================================================
