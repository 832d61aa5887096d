---------------------------- MODULE FeedContract ----------------------------
(***************************************************************************)
(* What a client that follows a channel is promised: the channel changes   *)
(* as if every operation were one indivisible step of somebody who may do  *)
(* it at that very moment.  It knows nothing of rows, of statements, or of *)
(* what happens between a write and the event that tells of it.            *)
(***************************************************************************)
EXTENDS Naturals

CONSTANTS User, Manager,
          Msg \* numbers of messages

VARIABLES
    channel, \* "open", "readOnly", "archived" or "deleted"
    roles,   \* of everybody in the channel, "NONE" for everybody else
    feed,    \* the messages that are shown and those that were: event, edits, isPinned
    author,  \* who sent them
    asking   \* who has asked for something and is not yet answered

cvars == <<channel, roles, feed, author, asking>>

In == {u \in User : roles[u] # "NONE"}
Active == channel \in {"open", "readOnly"}
Shown(m) == feed[m].event = "shown"

CInit ==
    /\ Active
    /\ roles \in [User -> {"ADMIN", "MEMBER", "NONE"}]
    /\ feed = [m \in Msg |-> [event |-> "none", edits |-> 0, isPinned |-> FALSE]]
    /\ author = [m \in Msg |-> "NOBODY"]
    /\ asking = {}

\* One after the other.
Ask(u) ==
    /\ asking = {}
    /\ asking' = {u}
    /\ UNCHANGED <<channel, roles, feed, author>>

Answer ==
    /\ asking' = {}
    /\ UNCHANGED <<channel, roles, feed, author>>

\* What changes the feed, at any moment at which u waits for the answer.
Tell(u, m, value) ==
    /\ asking = {u} /\ asking' \in {{u}, {}}
    /\ u \in In /\ Active
    /\ feed' = [feed EXCEPT ![m] = value]
    /\ UNCHANGED <<channel, roles>>

\* Messages appear one after the other; in a read-only channel only those of
\* its administrators.
Post(u, m) ==
    /\ channel = "readOnly" => roles[u] = "ADMIN"
    /\ \A n \in Msg : feed[n].event = "none" <=> n >= m
    /\ Tell(u, m, [event |-> "shown", edits |-> 0, isPinned |-> FALSE])
    /\ author' = [author EXCEPT ![m] = u]

\* Their sender may change and delete them, for as long as they are shown.
Change(u, m) ==
    /\ Shown(m) /\ author[m] = u
    /\ Tell(u, m, [feed[m] EXCEPT !.edits = @ + 1])
    /\ UNCHANGED author

\* A message that is gone is not pinned, and does not come back.
Remove(u, m) ==
    /\ Shown(m) /\ author[m] = u
    /\ Tell(u, m, [event |-> "deleted", edits |-> 0, isPinned |-> FALSE])
    /\ UNCHANGED author

SetPin(u, m, isPinned) ==
    /\ u \in Manager /\ Shown(m)
    /\ Tell(u, m, [feed[m] EXCEPT !.isPinned = isPinned])
    /\ UNCHANGED author

\* The channel's own changes, between operations on its messages.
Surroundings ==
    /\ asking = {}
    /\ \/ /\ channel # "deleted"
          /\ channel' \in {"open", "readOnly", "archived", "deleted"}
          /\ UNCHANGED roles
       \/ /\ UNCHANGED channel
          /\ \E u \in User, role \in {"ADMIN", "MEMBER", "NONE"} :
               /\ roles[u] = "NONE" \/ role = "NONE"
               /\ roles' = [roles EXCEPT ![u] = role]
    /\ UNCHANGED <<feed, author, asking>>

CNext ==
    \/ Surroundings \/ Answer
    \/ \E u \in User : Ask(u)
    \/ \E u \in User, m \in Msg :
         \/ Post(u, m) \/ Change(u, m) \/ Remove(u, m)
         \/ \E isPinned \in BOOLEAN : SetPin(u, m, isPinned)

CSpec == CInit /\ [][CNext]_cvars

=============================================================================
