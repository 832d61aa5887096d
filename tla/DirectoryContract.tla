-------------------------- MODULE DirectoryContract --------------------------
(***************************************************************************)
(* What registration, verification and the sign-in by a provider promise,  *)
(* with each operation as one indivisible step: who gets which address and *)
(* name, what a letter opens, what a state is good for.  It knows nothing  *)
(* of statements, of what a request has found, or of the hashes of tokens. *)
(***************************************************************************)
EXTENDS Naturals

CONSTANTS Person,   \* numbers of accounts, from 1
          Letter,   \* numbers of verification e-mails, from 1
          State,    \* OAuth states
          Email, NoEmail, NoPhone,
          BaseOf,   \* the base of a name, by address
          Configured,
          Identity,
          Request   \* what can be asked: op, email, name, phone, person, letter,
                    \* state, who

VARIABLES
    directory, \* of every account: status, email, username, phone, verified
    linked,    \* the account of every provider's subject, 0 for none
    sent,      \* the address of every letter
    opens,     \* the letter that verifies an account, 0 for none
    state,     \* of every OAuth state: "none", its provider, "gone"
    asking     \* what has been asked and is not decided yet

cvars == <<directory, linked, sent, opens, state, asking>>

Known(a) == directory[a].status # "none"
Present(a) == directory[a].status \in {"active", "suspended"}

\* Deleted accounts keep their address, their name and their telephone number.
AddressFree(email) == \A a \in Person : Known(a) => directory[a].email # email
NameFree(name) == \A a \in Person : Known(a) => directory[a].username # name

PhoneFree(a, phone) ==
    phone # NoPhone => \A b \in Person \ {a} : Known(b) => directory[b].phone # phone

CInit ==
    /\ \A a \in Person : ~Known(a) /\ opens[a] = 0
    /\ \A i \in Identity : linked[i] = 0
    /\ \A t \in Letter : sent[t] = NoEmail
    /\ \A s \in State : state[s] = "none"
    /\ asking = {}

Ask ==
    /\ asking = {}
    /\ \E g \in asking' : g \in Request /\ asking' = {g}
    /\ UNCHANGED <<directory, linked, sent, opens, state>>

\* Administrators set the status of an account, and nobody comes back from
\* deletion; letters and states run out, whatever is being asked.
Outside ==
    /\ \/ /\ \E a \in Person, status \in {"active", "suspended", "deleted"} :
               Present(a) /\ directory' = [directory EXCEPT ![a].status = status]
          /\ UNCHANGED <<opens, state>>
       \/ /\ \E a \in Person : opens' = [opens EXCEPT ![a] = 0]
          /\ UNCHANGED <<directory, state>>
       \/ /\ \E s \in State : state[s] # "none" /\ state' = [state EXCEPT ![s] = "gone"]
          /\ UNCHANGED <<directory, opens>>
    /\ UNCHANGED <<linked, sent, asking>>

-----------------------------------------------------------------------------
(* Decisions                                                               *)

Add(a, email, name, phone, verified) ==
    /\ ~Known(a)
    /\ AddressFree(email) /\ NameFree(name) /\ PhoneFree(a, phone)
    /\ directory' = [directory EXCEPT ![a] = [status |-> "active", email |-> email,
                                              username |-> name, phone |-> phone,
                                              verified |-> verified]]

\* A letter goes to one account, and makes the one before it worthless.
Send(a, email) ==
    \E t \in Letter :
        /\ sent[t] = NoEmail
        /\ sent' = [sent EXCEPT ![t] = email]
        /\ opens' = [opens EXCEPT ![a] = t]

Register(g) ==
    /\ g.op = "register"
    /\ \E a \in Person : Add(a, g.email, g.name, g.phone, FALSE) /\ Send(a, g.email)
    /\ UNCHANGED <<linked, state>>

Awaits(a, email) ==
    directory[a].status = "active" /\ directory[a].email = email /\ ~directory[a].verified

Resend(g) ==
    /\ g.op = "resend"
    /\ \E a \in Person : Awaits(a, g.email) /\ Send(a, g.email)
    /\ UNCHANGED <<directory, linked, state>>

\* A letter verifies the address it was sent to, once.
Verify(g) ==
    /\ g.op = "verify"
    /\ \E a \in Person :
         /\ Present(a) /\ opens[a] = g.letter /\ sent[g.letter] = directory[a].email
         /\ directory' = [directory EXCEPT ![a].verified = TRUE]
         /\ opens' = [opens EXCEPT ![a] = 0]
    /\ UNCHANGED <<linked, sent, state>>

Start(g) ==
    /\ g.op = "start"
    /\ \E s \in State, p \in Configured : state[s] = "none" /\ state' = [state EXCEPT ![s] = p]
    /\ UNCHANGED <<directory, linked, sent, opens>>

\* A subject that has signed in before: the account it belongs to, whatever
\* address the provider tells now.
Return(who, told) ==
    /\ linked[who] # 0
    /\ directory' = [directory EXCEPT ![linked[who]].verified = @ \/ told]
    /\ UNCHANGED linked

\* A new subject belongs to the account that has its address,
Adopt(who, email) ==
    /\ linked[who] = 0
    /\ \E a \in Person : /\ Present(a) /\ directory[a].email = email
                         /\ linked' = [linked EXCEPT ![who] = a]
    /\ UNCHANGED directory

\* or to a new one, under the first name that is free.
Create(who, email, told) ==
    /\ linked[who] = 0
    /\ \E a \in Person :
         LET name == directory'[a].username
         IN  /\ name.base = BaseOf[email]
             /\ \A n \in 0..name.suffix : n < name.suffix => ~NameFree([name EXCEPT !.suffix = n])
             /\ Add(a, email, name, NoPhone, told)
             /\ opens[a] = 0
             /\ linked' = [linked EXCEPT ![who] = a]

\* A state of the same provider, once.
SignIn(g) ==
    /\ g.op = "callback"
    /\ state[g.state] = g.who.provider
    /\ state' = [state EXCEPT ![g.state] = "gone"]
    /\ \/ \E told \in BOOLEAN : Return(g.who, told)
       \/ \E email \in Email, told \in BOOLEAN :
            Adopt(g.who, email) \/ Create(g.who, email, told)
    /\ UNCHANGED <<sent, opens>>

\* A number that no other account has.  An administrator may have come in between:
\* the account need not be active any more.
SetPhone(g) ==
    /\ g.op = "profile"
    /\ Known(g.person) /\ PhoneFree(g.person, g.phone)
    /\ directory' = [directory EXCEPT ![g.person].phone = g.phone]
    /\ UNCHANGED <<linked, sent, opens, state>>

\* Only for these reasons; a callback may also fail at the provider, and has
\* then used its state up.
Refuse(g) ==
    /\ \/ /\ g.op = "register"
          /\ \/ ~AddressFree(g.email) \/ ~NameFree(g.name)
             \/ \A a \in Person : ~Known(a) => ~PhoneFree(a, g.phone)
       \/ /\ g.op = "profile"
          /\ directory[g.person].status # "active" \/ ~PhoneFree(g.person, g.phone)
       \/ g.op = "resend" /\ ~\E a \in Person : Awaits(a, g.email)
       \/ g.op = "verify" /\ ~\E a \in Person : Present(a) /\ opens[a] = g.letter
       \/ g.op = "callback"
    /\ state' # state => g.op = "callback" /\ state' = [state EXCEPT ![g.state] = "gone"]
    /\ UNCHANGED <<directory, linked, sent, opens>>

Decide(g) ==
    /\ asking' = {}
    /\ \/ Register(g) \/ Resend(g) \/ Verify(g) \/ Start(g) \/ SignIn(g)
       \/ SetPhone(g) \/ Refuse(g)

CNext == Ask \/ Outside \/ \E g \in asking : Decide(g)

CSpec == CInit /\ [][CNext]_cvars

=============================================================================
