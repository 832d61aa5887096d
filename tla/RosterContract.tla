--------------------------- MODULE RosterContract ---------------------------
(***************************************************************************)
(* What the channels of a workspace promise, with each operation as one    *)
(* indivisible step: who comes into the workspace is in #general, who goes *)
(* is out of every channel, and everything else happens to a channel that  *)
(* allows it at that very moment.  It knows nothing of rows and their ids. *)
(***************************************************************************)
CONSTANTS User, Founder, Staff,
          Chan, General,
          GeneralName,
          Request  \* what can be asked: op, c, who, name, type, role

VARIABLES
    active,  \* the members of the workspace
    channel, \* of every channel: state, name, type, archived
    roster,  \* the role of everybody in every channel, "NONE" outside it
    muted,   \* by channel, who has put it aside for themselves
    asking   \* what has been asked and is not decided yet

cvars == <<active, channel, roster, muted, asking>>

Exists(c) == channel[c].state # "none"
Live(c) == channel[c].state = "live"
In(c, u) == roster[c][u] # "NONE"

\* A name is taken for ever, and that of #general from the beginning.
Free(c, name) ==
    /\ name # GeneralName
    /\ \A d \in Chan \ {c} : Exists(d) => channel[d].name # name

CInit ==
    /\ active = {Founder}
    /\ channel[General] = [state |-> "live", name |-> GeneralName,
                           type |-> "PUBLIC", archived |-> FALSE]
    /\ \A c \in Chan \ {General} : ~Exists(c)
    /\ roster = [c \in Chan |-> [u \in User |->
                   IF c = General /\ u = Founder THEN "ADMIN" ELSE "NONE"]]
    /\ muted = [c \in Chan |-> {}]
    /\ asking = {}

Ask ==
    /\ asking = {}
    /\ \E g \in asking' : g \in Request /\ asking' = {g}
    /\ UNCHANGED <<active, channel, roster, muted>>

Refuse ==
    /\ asking' = {}
    /\ UNCHANGED <<active, channel, roster, muted>>

\* A new channel has its creator in it, and nobody else.
Create(g) ==
    /\ g.op = "create"
    /\ g.who \in Staff \cap active
    /\ ~Exists(g.c) /\ Free(g.c, g.name)
    /\ channel' = [channel EXCEPT ![g.c] =
         [state |-> "live", name |-> g.name, type |-> g.type, archived |-> FALSE]]
    /\ roster' = [roster EXCEPT ![g.c] =
         [u \in User |-> IF u = g.who THEN "ADMIN" ELSE "NONE"]]
    /\ UNCHANGED <<active, muted>>

\* Staff change every channel but #general.
Manage(g) ==
    /\ Staff \cap active # {}
    /\ Live(g.c) /\ g.c # General
    /\ \/ /\ g.op = "rename" /\ Free(g.c, g.name)
          /\ channel' = [channel EXCEPT ![g.c].name = g.name]
       \/ /\ g.op = "delete"
          /\ channel' = [channel EXCEPT ![g.c].state = "deleted"]
       \/ /\ g.op = "archive"
          /\ channel' = [channel EXCEPT ![g.c].archived = ~@]
    /\ UNCHANGED <<active, roster, muted>>

\* Members join public channels; to private ones staff add them.
Enter(g) ==
    /\ g.who \in active /\ Live(g.c) /\ ~In(g.c, g.who)
    /\ \/ g.op = "join" /\ channel[g.c].type = "PUBLIC" /\ ~channel[g.c].archived
       \/ g.op = "add" /\ channel[g.c].type = "PRIVATE" /\ Staff \cap active # {}
    /\ roster' = [roster EXCEPT ![g.c][g.who] = "MEMBER"]
    /\ UNCHANGED <<active, channel, muted>>

Exit(g) ==
    /\ g.op = "leave" \/ (g.op = "kick" /\ Staff \cap active # {})
    /\ Live(g.c) /\ g.c # General /\ In(g.c, g.who)
    /\ roster' = [roster EXCEPT ![g.c][g.who] = "NONE"]
    /\ muted' = [muted EXCEPT ![g.c] = @ \ {g.who}]
    /\ UNCHANGED <<active, channel>>

SetRole(g) ==
    /\ g.op = "role"
    /\ Staff \cap active # {}
    /\ Live(g.c) /\ In(g.c, g.who)
    /\ roster' = [roster EXCEPT ![g.c][g.who] = g.role]
    /\ UNCHANGED <<active, channel, muted>>

Mute(g) ==
    /\ g.op = "mute"
    /\ Live(g.c) /\ In(g.c, g.who)
    /\ muted' = [muted EXCEPT ![g.c] =
         IF g.who \in @ THEN @ \ {g.who} ELSE @ \cup {g.who}]
    /\ UNCHANGED <<active, channel, roster>>

Admit(g) ==
    /\ g.op = "admit"
    /\ g.who \notin active
    /\ active' = active \cup {g.who}
    /\ roster' = [roster EXCEPT ![General][g.who] = "MEMBER"]
    /\ UNCHANGED <<channel, muted>>

Depart(g) ==
    /\ g.op = "depart"
    /\ g.who \in active
    /\ active' = active \ {g.who}
    /\ roster' = [c \in Chan |-> [roster[c] EXCEPT ![g.who] = "NONE"]]
    /\ muted' = [c \in Chan |-> muted[c] \ {g.who}]
    /\ UNCHANGED channel

Decide(g) ==
    /\ asking' = {}
    /\ \/ Create(g) \/ Manage(g) \/ Enter(g) \/ Exit(g) \/ SetRole(g) \/ Mute(g)
       \/ Admit(g) \/ Depart(g)

CNext == Ask \/ Refuse \/ \E g \in asking : Decide(g)

CSpec == CInit /\ [][CNext]_cvars

=============================================================================
