------------------------------ MODULE Channels ------------------------------
(***************************************************************************)
(* The channels of one workspace and the people in them: creation, names,  *)
(* archiving and deletion, joining and leaving, and what happens to the    *)
(* channel rows of somebody who enters or leaves the workspace.            *)
(*                                                                         *)
(* As in Workspaces, a request is a handler that stops at every database   *)
(* statement; a request acts on one channel (c) for one account (who), and *)
(* "op" says which handler it is in.  Handlers share their look-ups, so    *)
(* these are shared actions here; each operation has one write of its own. *)
(***************************************************************************)
EXTENDS Naturals

CONSTANTS
    User,        \* accounts
    Founder,     \* the account that created the workspace
    Staff,       \* accounts that are owner or administrator while members
    Chan,        \* ids of channels
    General,     \* the channel created with the workspace
    Name,        \* channel names, normalised
    GeneralName, \* "general"
    RowId,       \* ids of ChannelMember rows
    None,        \* no id
    Req,         \* requests that can be in flight at the same time
    Enabled,     \* the operations that clients call
    CanFail      \* whether a request may die between two of its statements

ChannelType == {"PUBLIC", "PRIVATE"}
MemberRole == {"ADMIN", "MEMBER"}

\* Operations of staff on a channel, of staff on somebody's membership, and of
\* a member for themselves; "admit" and "depart" are acceptInvite and the end
\* of removeMember and leaveWorkspace.
Management == {"rename", "delete", "archive"}
Moderation == {"add", "role", "kick"}
Own == {"join", "leave", "mute"}
Operation == {"create", "admit", "depart"} \cup Management \cup Moderation \cup Own

ASSUME ChannelsAssumption ==
    /\ Founder \in Staff /\ Staff \subseteq User
    /\ General \in Chan /\ GeneralName \in Name
    /\ None \notin RowId
    /\ Enabled \subseteq Operation
    /\ CanFail \in BOOLEAN

VARIABLES
    active,  \* active members of the workspace
    channel, \* Channel rows
    row,     \* ChannelMember rows, by channel and account
    req      \* the requests

vars == <<active, channel, row, req>>

Channel == [state : {"none", "live", "deleted"}, name : Name,
            type : ChannelType, archived : BOOLEAN, creator : User]

ChannelMember == [id : RowId \cup {None}, role : MemberRole, archived : BOOLEAN]

Absent == [id |-> None, role |-> "MEMBER", archived |-> FALSE]

Label == {"idle", "channel", "guard", "person", "name", "row", "activate",
          "insert", "own", "rename", "delete", "archive",
          "enter", "exit", "role", "mute", "deactivate", "channels"}

Request == [pc : Label, op : Operation,
            c : Chan, who : User,        \* the channel and the account concerned
            name : Name,                 \* CreateChannelDto and UpdateChannelDto
            type : ChannelType, role : MemberRole,
            id : RowId \cup {None},      \* the row that was found
            flag : BOOLEAN]              \* isArchived as it was read

Blank == [pc |-> "idle", op |-> "join", c |-> General, who |-> Founder,
          name |-> GeneralName, type |-> "PUBLIC", role |-> "MEMBER",
          id |-> None, flag |-> FALSE]

\* A channel that clients can name: it exists, or has existed.
Known(c) == channel[c].state # "none"
Live(c) == channel[c].state = "live"
Here(c, u) == row[c][u].id # None

\* A mutant of NameFree: no unique index, only the look-up by name.
\* (Inv)
NameUnchecked(c, name) == TRUE

\* The unique index on workspace and name counts deleted channels as well.
NameFree(c, name) ==
    \A d \in Chan \ {c} : Known(d) => channel[d].name # name

Init ==
    /\ active = {Founder}
    /\ channel = [c \in Chan |->
                    [state |-> IF c = General THEN "live" ELSE "none",
                     name |-> GeneralName, type |-> "PUBLIC",
                     archived |-> FALSE, creator |-> Founder]]
    /\ \E i \in RowId :
         row = [c \in Chan |-> [u \in User |->
                  IF c = General /\ u = Founder
                  THEN [Absent EXCEPT !.id = i, !.role = "ADMIN"] ELSE Absent]]
    /\ req = [r \in Req |-> Blank]

-----------------------------------------------------------------------------
(* Steps of a handler                                                      *)

At(r, label) == req[r].pc = label

Goto(r, label) == req' = [req EXCEPT ![r].pc = label]

End(r) == req' = [req EXCEPT ![r] = Blank]

Arrive(r, op, first) ==
    /\ op \in Enabled
    /\ At(r, "idle")
    /\ req' = [req EXCEPT ![r] = [first EXCEPT !.op = op]]
    /\ UNCHANGED <<active, channel, row>>

\* A read and the checks on what it returned, which throw when they fail.
Read(r, label, ok, next) ==
    /\ At(r, label)
    /\ req' = [req EXCEPT ![r] = IF ok THEN next ELSE Blank]
    /\ UNCHANGED <<active, channel, row>>

\* The writes.  A new row has an id that no handler has seen.
SetChannel(c, value) ==
    /\ channel' = [channel EXCEPT ![c] = value]
    /\ UNCHANGED <<active, row>>

SetRow(c, u, value) ==
    /\ row' = [row EXCEPT ![c][u] = value]
    /\ UNCHANGED <<active, channel>>

NewRow(c, u, role) ==
    /\ ~Here(c, u)
    /\ \E i \in RowId :
         /\ \A r \in Req : req[r].id # i
         /\ SetRow(c, u, [id |-> i, role |-> role, archived |-> FALSE])

\* Prisma's update and delete by id throw when the row is not there any more.
Found(r) ==
    LET q == req[r] IN row[q.c][q.who].id = q.id

-----------------------------------------------------------------------------
(* Mutants: operators below with a bug a change of the code could bring in. *)
(* No action uses them; each must break the property named with it.         *)

\* Lets anybody with the id of a channel join it.  (PrivateByInvitation)
AllowsPrivateJoin(q) ==
    /\ Live(q.c)
    /\ q.op \in Management \cup {"leave", "kick"} => q.c # General
    /\ q.op = "join" => ~channel[q.c].archived
    /\ q.op = "add" => channel[q.c].type = "PRIVATE"

\* Does not ask whether the channel is archived.  (KeepsContract)
AllowsArchivedJoin(q) ==
    /\ Live(q.c)
    /\ q.op \in Management \cup {"leave", "kick"} => q.c # General
    /\ q.op = "join" => channel[q.c].type = "PUBLIC"
    /\ q.op = "add" => channel[q.c].type = "PRIVATE"

\* Treats #general like any other channel.  (GeneralStays)
AllowsGeneral(q) ==
    /\ Live(q.c)
    /\ q.op = "join" => channel[q.c].type = "PUBLIC" /\ ~channel[q.c].archived
    /\ q.op = "add" => channel[q.c].type = "PRIVATE"

\* Deletes by channel and account, not by id.  (EndsTheMembershipFound)
ExitWhoever(r) ==
    /\ At(r, "exit")
    /\ SetRow(req[r].c, req[r].who, Absent)
    /\ End(r)

\* Adds accounts whatever their membership.  (ChannelsFollowWorkspace)
FindAnyPerson(r) == Read(r, "person", TRUE, [req[r] EXCEPT !.pc = "row"])

-----------------------------------------------------------------------------
(* Arrivals: the routes and WorkspaceRoleGuard                             *)

\* The id of a new channel is drawn when the request arrives.
CreateArrive(r) ==
    \E u \in Staff \cap active, c \in Chan, n \in Name, t \in ChannelType :
        /\ ~Known(c)
        /\ \A s \in Req : ~(req[s].op = "create" /\ req[s].c = c)
        /\ Arrive(r, "create", [Blank EXCEPT !.pc = "name", !.c = c, !.who = u,
                                             !.name = n, !.type = t])

ManageArrive(r) ==
    \E op \in Management, c \in Chan, n \in Name :
        /\ Known(c) /\ Staff \cap active # {}
        /\ op # "rename" => n = GeneralName
        /\ Arrive(r, op, [Blank EXCEPT !.pc = "channel", !.c = c, !.name = n])

ModerateArrive(r) ==
    \E op \in Moderation, c \in Chan, u \in User, k \in MemberRole :
        /\ Known(c) /\ Staff \cap active # {}
        /\ op # "role" => k = "MEMBER"
        /\ Arrive(r, op, [Blank EXCEPT !.pc = "channel", !.c = c, !.who = u,
                                       !.role = k])

\* joinChannel, leaveChannel and toggleArchivedForMe; the routes of the last
\* two have ChannelMemberGuard as well.
OwnArrive(r) ==
    \E op \in Own, c \in Chan, u \in active :
        /\ Known(c)
        /\ Arrive(r, op, [Blank EXCEPT !.c = c, !.who = u,
                             !.pc = IF op = "join" THEN "channel" ELSE "guard"])

ChannelMemberGuard(r) ==
    Read(r, "guard", Here(req[r].c, req[r].who), [req[r] EXCEPT !.pc = "channel"])

-----------------------------------------------------------------------------
(* Look-ups                                                                *)

\* getChannelEntityOrThrow and the checks on the channel that follow it.
ChannelAllows(q) ==
    /\ Live(q.c)
    /\ q.op \in Management \cup {"leave", "kick"} => q.c # General
    /\ q.op = "join" => channel[q.c].type = "PUBLIC" /\ ~channel[q.c].archived
    /\ q.op = "add" => channel[q.c].type = "PRIVATE"

FindChannel(r) ==
    LET q == req[r]
    IN  Read(r, "channel", ChannelAllows(q),
             [q EXCEPT !.flag = q.op = "archive" /\ channel[q.c].archived,
                       !.pc = CASE q.op \in {"delete", "archive"} -> q.op
                                [] q.op = "rename" -> "name"
                                [] q.op = "add" -> "person"
                                [] OTHER -> "row"])

\* ensureNameIsNotReserved and findByWorkspaceAndName, which sees live channels.
FindName(r) ==
    LET q == req[r]
    IN  Read(r, "name",
             /\ q.name # GeneralName
             /\ \A c \in Chan \ {q.c} : Live(c) => channel[c].name # q.name,
             [q EXCEPT !.pc = IF q.op = "create" THEN "insert" ELSE "rename"])

\* addMember: the person is an active member of the workspace.
FindPerson(r) ==
    Read(r, "person", req[r].who \in active, [req[r] EXCEPT !.pc = "row"])

\* findByChannelAndUser: join and add throw if there is a row, acceptInvite is
\* done, and the others throw if there is none.
FindRow(r) ==
    LET q == req[r]
        found == row[q.c][q.who]
    IN  Read(r, "row", q.op \in {"join", "add", "admit"} <=> ~Here(q.c, q.who),
             [q EXCEPT !.id = found.id,
                       !.flag = q.op = "mute" /\ found.archived,
                       !.pc = CASE q.op \in {"leave", "kick"} -> "exit"
                                [] q.op \in {"role", "mute"} -> q.op
                                [] OTHER -> "enter"])

-----------------------------------------------------------------------------
(* Writes                                                                  *)

\* createChannel: the channel, then the creator's own row.
InsertChannel(r) ==
    LET q == req[r]
    IN  /\ At(r, "insert")
        /\ NameFree(q.c, q.name)
        /\ SetChannel(q.c, [state |-> "live", name |-> q.name, type |-> q.type,
                            archived |-> FALSE, creator |-> q.who])
        /\ Goto(r, "own")

InsertCreator(r) ==
    /\ At(r, "own")
    /\ NewRow(req[r].c, req[r].who, "ADMIN")
    /\ End(r)

\* updateChannel, deleteChannel and toggleArchive write by id, also to a
\* channel that has been deleted in the meantime.
Rename(r) ==
    LET q == req[r]
    IN  /\ At(r, "rename")
        /\ NameFree(q.c, q.name)
        /\ SetChannel(q.c, [channel[q.c] EXCEPT !.name = q.name])
        /\ End(r)

SoftDelete(r) ==
    /\ At(r, "delete")
    /\ SetChannel(req[r].c, [channel[req[r].c] EXCEPT !.state = "deleted"])
    /\ End(r)

ToggleArchive(r) ==
    LET q == req[r]
    IN  /\ At(r, "archive")
        /\ SetChannel(q.c, [channel[q.c] EXCEPT !.archived = ~q.flag])
        /\ End(r)

\* joinChannel, addMember, and the last part of acceptInvite.
Enter(r) ==
    /\ At(r, "enter")
    /\ NewRow(req[r].c, req[r].who, "MEMBER")
    /\ End(r)

\* leaveChannel and removeMember of the channel.
Exit(r) ==
    /\ At(r, "exit")
    /\ Found(r)
    /\ SetRow(req[r].c, req[r].who, Absent)
    /\ End(r)

SetRole(r) ==
    LET q == req[r]
    IN  /\ At(r, "role")
        /\ Found(r)
        /\ SetRow(q.c, q.who, [row[q.c][q.who] EXCEPT !.role = q.role])
        /\ End(r)

ToggleMute(r) ==
    LET q == req[r]
    IN  /\ At(r, "mute")
        /\ Found(r)
        /\ SetRow(q.c, q.who, [row[q.c][q.who] EXCEPT !.archived = ~q.flag])
        /\ End(r)

\* The statement meets a unique key or a row that is gone: it throws.
Refused(r) ==
    LET q == req[r]
    IN  /\ \/ q.pc \in {"insert", "rename"} /\ ~NameFree(q.c, q.name)
           \/ q.pc \in {"own", "enter"} /\ Here(q.c, q.who)
           \/ q.pc \in {"exit", "role", "mute"} /\ ~Found(r)
        /\ End(r)
        /\ UNCHANGED <<active, channel, row>>

-----------------------------------------------------------------------------
(* Entering and leaving the workspace                                      *)

\* acceptInvite: the membership, then the row in #general unless there is one.
AdmitArrive(r) ==
    \E u \in User \ active :
        Arrive(r, "admit", [Blank EXCEPT !.pc = "activate", !.who = u])

Activate(r) ==
    /\ At(r, "activate")
    /\ active' = active \cup {req[r].who}
    /\ Goto(r, "row")
    /\ UNCHANGED <<channel, row>>

\* removeMember and leaveWorkspace: the membership, then all channel rows.
DepartArrive(r) ==
    \E u \in active :
        Arrive(r, "depart", [Blank EXCEPT !.pc = "deactivate", !.who = u])

Deactivate(r) ==
    /\ At(r, "deactivate")
    /\ active' = active \ {req[r].who}
    /\ Goto(r, "channels")
    /\ UNCHANGED <<channel, row>>

RemoveAll(r) ==
    /\ At(r, "channels")
    /\ row' = [c \in Chan |-> [row[c] EXCEPT ![req[r].who] = Absent]]
    /\ End(r)
    /\ UNCHANGED <<active, channel>>

-----------------------------------------------------------------------------

Fail(r) ==
    /\ CanFail
    /\ ~At(r, "idle")
    /\ End(r)
    /\ UNCHANGED <<active, channel, row>>

Arrivals(r) ==
    \/ CreateArrive(r) \/ ManageArrive(r) \/ ModerateArrive(r) \/ OwnArrive(r)
    \/ AdmitArrive(r) \/ DepartArrive(r)

Lookups(r) ==
    \/ ChannelMemberGuard(r) \/ FindChannel(r) \/ FindName(r) \/ FindPerson(r)
    \/ FindRow(r)

ChannelWrites(r) ==
    \/ InsertChannel(r) \/ Rename(r) \/ SoftDelete(r) \/ ToggleArchive(r)

RowWrites(r) ==
    \/ InsertCreator(r) \/ Enter(r) \/ Exit(r) \/ SetRole(r) \/ ToggleMute(r)
    \/ RemoveAll(r)

WorkspaceWrites(r) == Activate(r) \/ Deactivate(r)

Next ==
    \E r \in Req :
        \/ Arrivals(r) \/ Lookups(r) \/ ChannelWrites(r) \/ RowWrites(r)
        \/ WorkspaceWrites(r) \/ Refused(r) \/ Fail(r)

Spec == Init /\ [][Next]_vars

-----------------------------------------------------------------------------
(* Properties of every interleaving, with requests that may fail           *)

TypeOK ==
    /\ active \in SUBSET User
    /\ channel \in [Chan -> Channel]
    /\ row \in [Chan -> [User -> ChannelMember]]
    /\ req \in [Req -> Request]

\* No two channels of the workspace have one name, deleted ones included,
\* although createChannel and updateChannel look a name up among live channels
\* only, and two of them may look it up before either writes; with
\* GeneralStays, no other channel is ever called #general.
NamesAreUnique ==
    \A c, d \in Chan : c # d /\ Known(c) /\ Known(d)
        => channel[c].name # channel[d].name

\* What the rows keep to.
Inv == TypeOK /\ NamesAreUnique

\* No sequence of updateChannel, deleteChannel and toggleArchive, and none of the
\* other handlers, leaves #general renamed, archived, deleted or private: the
\* rows of a workspace begin with it and acceptInvite always finds it.
GeneralStays ==
    /\ Live(General) /\ ~channel[General].archived
    /\ channel[General].name = GeneralName
    /\ channel[General].type = "PUBLIC"

\* Nobody gets into a private channel except its creator and people whom staff
\* add: no sequence of requests turns a checked join into an entry there.
PrivateByInvitation ==
    [][\A c \in Chan, u \in User :
         channel[c].type = "PRIVATE" /\ ~Here(c, u) /\ Here(c, u)' =>
            \/ u = channel[c].creator
            \/ \E r \in Req : req[r].op = "add" /\ req[r].c = c
                                /\ req[r].who = u]_vars

\* A membership of a channel ends with the departure from the workspace, or by
\* a request to leave or to remove that found this very membership: a request
\* that is late never ends a membership that began after it looked.  #general
\* is left in the first way only.
EndsTheMembershipFound ==
    [][\A c \in Chan, u \in User :
         Here(c, u) /\ ~Here(c, u)' =>
            \E r \in Req :
               /\ req[r].who = u
               /\ \/ req[r].pc = "channels"
                  \/ /\ req[r].pc = "exit" /\ req[r].c = c /\ c # General
                     /\ req[r].id = row[c][u].id]_vars

-----------------------------------------------------------------------------
(* Properties of requests that do not overlap                              *)

Quiet == \A r \in Req : At(r, "idle")

\* Between requests, only active members of the workspace are in a channel, as
\* addMember demands, and all of them are in #general.
ChannelsFollowWorkspace ==
    Quiet => /\ \A c \in Chan, u \in User : Here(c, u) => u \in active
             /\ \A u \in active : Here(General, u)
-----------------------------------------------------------------------------
(* The contract.  A request counts as done with its first write: a channel  *)
(* has its creator, a new member #general, and who leaves is out of every   *)
(* channel, while the second write is still to come.                        *)

Opening(c, u) ==
    \E r \in Req : At(r, "own") /\ req[r].c = c /\ req[r].who = u

Welcoming(u) ==
    \E r \in Req : /\ req[r].op = "admit" /\ req[r].pc \in {"row", "enter"}
                   /\ req[r].who = u

Leaving(u) == \E r \in Req : At(r, "channels") /\ req[r].who = u

channels ==
    [c \in Chan |-> [state |-> channel[c].state, name |-> channel[c].name,
                     type |-> channel[c].type, archived |-> channel[c].archived]]

roster ==
    [c \in Chan |-> [u \in User |->
        IF Leaving(u) THEN "NONE"
        ELSE IF Here(c, u) THEN row[c][u].role
        ELSE IF Opening(c, u) THEN "ADMIN"
        ELSE IF c = General /\ Welcoming(u) THEN "MEMBER"
        ELSE "NONE"]]

muted ==
    [c \in Chan |->
        {u \in User : Here(c, u) /\ row[c][u].archived /\ ~Leaving(u)}]

Open(q) ==
    /\ q.pc \notin {"idle", "own", "channels"}
    /\ ~(q.op = "admit" /\ q.pc \in {"row", "enter"})

Asked(q) == [op |-> q.op, c |-> q.c, who |-> q.who, name |-> q.name,
             type |-> q.type, role |-> q.role]

asking == {Asked(req[r]) : r \in {r \in Req : Open(req[r])}}

Contract == INSTANCE RosterContract WITH
    Request <- [op : Operation, c : Chan, who : User, name : Name,
                type : ChannelType, role : MemberRole],
    channel <- channels

\* Requests that neither overlap nor fail do what the contract says: a channel
\* still allows what it allowed when it was looked at, a toggle turns what is
\* stored, and two writes are as one.
KeepsContract == Contract!CSpec

=============================================================================
