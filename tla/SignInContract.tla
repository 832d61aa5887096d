--------------------------- MODULE SignInContract ---------------------------
(***************************************************************************)
(* What sessions and passwords promise, with each operation as one         *)
(* indivisible step: a sign-in is in force until its own account ends it   *)
(* or gets a new password, and its time may run out.  It knows nothing of  *)
(* tokens: the exchange of one for the next is not a step of the contract  *)
(* at all, and loses no sign-in and revives none.                          *)
(***************************************************************************)
CONSTANTS User, Password,
          SignIn,  \* names of sign-ins
          Link,    \* names of links that reset a password
          Request  \* what can be asked: op, u, given, new, link, signIn

VARIABLES
    password, \* of every account
    flags,    \* of every account: active, deleted
    holder,   \* the account of every sign-in there has been, "NOBODY" of others
    inForce,  \* the sign-ins that have not been ended
    lapsed,   \* those of them whose time is over
    link,     \* state and account of every link
    asking    \* what has been asked and is not decided yet

cvars == <<password, flags, holder, inForce, lapsed, link, asking>>

Usable(u) == flags[u].active /\ ~flags[u].deleted
Of(u) == {s \in inForce : holder[s] = u}

EndAll(S) == inForce' = inForce \ S /\ lapsed' = lapsed \ S

CInit ==
    /\ password \in [User -> Password]
    /\ flags = [u \in User |-> [active |-> TRUE, deleted |-> FALSE]]
    /\ holder = [s \in SignIn |-> "NOBODY"]
    /\ inForce = {} /\ lapsed = {}
    /\ \A x \in Link : link[x].state = "none"
    /\ asking = {}

Ask ==
    /\ asking = {}
    /\ \E g \in asking' : g \in Request /\ asking' = {g}
    /\ UNCHANGED <<password, flags, holder, inForce, lapsed, link>>

Refuse ==
    /\ asking' = {}
    /\ UNCHANGED <<password, flags, holder, inForce, lapsed, link>>

\* The time of a sign-in or a link is over, whatever is being asked.
Lapse ==
    /\ \/ /\ \E s \in inForce \ lapsed : lapsed' = lapsed \cup {s}
          /\ UNCHANGED link
       \/ /\ \E x \in Link : /\ link[x].state = "open"
                             /\ link' = [link EXCEPT ![x].state = "spent"]
          /\ UNCHANGED lapsed
    /\ UNCHANGED <<password, flags, holder, inForce, asking>>

Begin(g, s) ==
    /\ g.op = "login"
    /\ Usable(g.u) /\ g.given = password[g.u]
    /\ holder[s] = "NOBODY"
    /\ holder' = [holder EXCEPT ![s] = g.u]
    /\ inForce' = inForce \cup {s}
    /\ UNCHANGED <<password, flags, lapsed, link>>

End(g) ==
    /\ g.op \in {"logout", "revoke"}
    /\ holder[g.signIn] = g.u
    /\ EndAll({g.signIn})
    /\ UNCHANGED <<password, flags, holder, link>>

\* All sign-ins of the account end, but the one that asks, which may be over.
EndOthers(g) ==
    /\ g.op = "others"
    /\ \E keep \in SUBSET {g.signIn} : EndAll(Of(g.u) \ keep)
    /\ UNCHANGED <<password, flags, holder, link>>

SendLink(g, x) ==
    /\ g.op = "forgot"
    /\ Usable(g.u)
    /\ link[x].state = "none"
    /\ link' = [link EXCEPT ![x] = [state |-> "open", user |-> g.u]]
    /\ UNCHANGED <<password, flags, holder, inForce, lapsed>>

\* A new password ends every sign-in of its account.
NewPassword(g) ==
    /\ Usable(g.u)
    /\ password' = [password EXCEPT ![g.u] = g.new]
    /\ EndAll(Of(g.u))
    /\ UNCHANGED <<flags, holder>>

Change(g) ==
    /\ g.op = "change"
    /\ g.given = password[g.u]
    /\ NewPassword(g)
    /\ UNCHANGED link

\* A link opens one account, once.
Reset(g) ==
    /\ g.op = "reset"
    /\ link[g.link] = [state |-> "open", user |-> g.u]
    /\ NewPassword(g)
    /\ link' = [link EXCEPT ![g.link].state = "spent"]

\* Suspension and deletion keep people from signing in, and end no sign-in;
\* nobody comes back from deletion.
SetFlags(g) ==
    /\ g.op \in {"activate", "deactivate", "delete"}
    /\ ~flags[g.u].deleted
    /\ flags' = [flags EXCEPT ![g.u] = [active |-> g.op = "activate",
                                        deleted |-> g.op = "delete"]]
    /\ UNCHANGED <<password, holder, inForce, lapsed, link>>

Decide(g) ==
    /\ asking' = {}
    /\ \/ \E s \in SignIn : Begin(g, s)
       \/ \E x \in Link : SendLink(g, x)
       \/ End(g) \/ EndOthers(g) \/ Change(g) \/ Reset(g) \/ SetFlags(g)

CNext == Ask \/ Refuse \/ Lapse \/ \E g \in asking : Decide(g)

CSpec == CInit /\ [][CNext]_cvars

=============================================================================
