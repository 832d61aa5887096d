------------------------------ MODULE Messages ------------------------------
(***************************************************************************)
(* The messages of one channel: sending, editing, deleting, pinning and    *)
(* reading them, and the events that tell clients about it: message        *)
(* events to the room of the channel, and the unread count and the last    *)
(* message to every member (MessagesRealtimeService).                      *)
(*                                                                         *)
(* Messages are numbered in the order of their creation, and that number   *)
(* is also the time at which they were created.  A client that has been in *)
(* the room all along stands for all of them: the gateway sends every      *)
(* socket of a room the same events in the same order.  A request stops at *)
(* every database statement and before what it emits.                      *)
(***************************************************************************)
EXTENDS Naturals, FiniteSets

CONSTANTS
    User,       \* people of the workspace
    Manager,    \* those who are its owners and administrators
    MaxMessage, \* bound: Message rows
    MaxEdit,    \* bound: edits of one message
    RowId,      \* ids of ChannelMember rows
    None,       \* no id
    Req,        \* requests that can be in flight at the same time
    Mix         \* the ways in which requests come

Editing == {"update", "delete"}
Pinning == {"pin", "unpin"}
Listing == {"list", "pinned"}
\* "channel" and "membership" are what the Channels module does meanwhile.
Operation == {"create", "read", "channel", "membership"}
                \cup Editing \cup Pinning \cup Listing

ASSUME MessagesAssumption ==
    /\ Manager \subseteq User /\ User # {}
    /\ MaxMessage \in Nat /\ MaxEdit \in Nat
    /\ None \notin RowId
    /\ Mix \subseteq [members : SUBSET User,   \* who is in the channel at first
                      ops : SUBSET Operation,  \* the operations that are called
                      overlap : BOOLEAN,       \* at the same time,
                      crash : BOOLEAN]         \* and may be cut off

VARIABLES
    mix,     \* how requests come in this behaviour
    channel, \* Channel row
    row,     \* ChannelMember rows, by account
    message, \* Message rows
    pin,     \* the messages with a ChannelMessagePin row
    view,    \* what the events have said last of every message
    meta,    \* and, to every member, of the channel
    req      \* the requests

vars == <<mix, channel, row, message, pin, view, meta, req>>

Msg == 1..MaxMessage
Time == 0..MaxMessage

ChannelState == {"open", "readOnly", "archived", "deleted"}

ChannelMember == [id : RowId \cup {None}, role : {"ADMIN", "MEMBER"},
                  lastReadAt : Time]

Absent == [id |-> None, role |-> "MEMBER", lastReadAt |-> 0]

Message == [state : {"none", "live", "deleted"}, sender : User, edits : 0..MaxEdit]

\* MessageResponseDto, as far as it changes.
View == [event : {"none", "shown", "deleted"}, edits : 0..MaxEdit, isPinned : BOOLEAN]

\* ChannelMetaUpdatedPayload, with the edits of the last message for its content.
Meta == [unreadCount : Time, lastReadAt : Time, last : Time, edits : 0..MaxEdit]

Label == {"idle", "channel", "member", "manager", "message", "insert", "mark",
          "update", "unpinAll", "delete", "pin", "unpin", "again", "list", "now",
          "emit", "members", "meta"}

\* "alone": no other request has come and nothing else has changed since this
\* one came.
Request == [pc : Label, op : Operation, u : User,
            m : Time,                    \* the message, or the time to be read up to
            id : RowId \cup {None},      \* the membership found
            readOnly : BOOLEAN,          \* the channel found
            seen : View,                 \* the message to emit
            tell : [User -> {"no", "find", "count", "emit"}],
            found : [User -> Meta],      \* the payloads to emit
            alone : BOOLEAN]

SomeUser == CHOOSE u \in User : TRUE

NoView == [event |-> "none", edits |-> 0, isPinned |-> FALSE]
NoMeta == [unreadCount |-> 0, lastReadAt |-> 0, last |-> 0, edits |-> 0]

Blank == [pc |-> "idle", op |-> "list", u |-> SomeUser, m |-> 0, id |-> None,
          readOnly |-> FALSE, seen |-> NoView, tell |-> [u \in User |-> "no"],
          found |-> [u \in User |-> NoMeta], alone |-> FALSE]

Here(u) == row[u].id # None
Live(m) == m \in Msg /\ message[m].state = "live"
Created == {m \in Msg : message[m].state # "none"}
Now == Cardinality(Created)

Init ==
    /\ mix \in Mix
    /\ channel \in {"open", "readOnly"}
    /\ \E i \in [User -> RowId] :
         /\ \A u, v \in User : i[u] = i[v] => u = v
         /\ row = [u \in User |->
                     IF u \notin mix.members THEN Absent
                     ELSE [id |-> i[u], lastReadAt |-> 0,
                           role |-> IF u = SomeUser THEN "ADMIN" ELSE "MEMBER"]]
    /\ message = [m \in Msg |-> [state |-> "none", sender |-> SomeUser, edits |-> 0]]
    /\ pin = {}
    /\ view = [m \in Msg |-> NoView]
    /\ meta = [u \in User |-> NoMeta]
    /\ req = [r \in Req |-> Blank]

-----------------------------------------------------------------------------
(* What is read and what is emitted                                        *)

\* The last message that is live, 0 if there is none.
LastMessage ==
    LET live == {m \in Msg : Live(m)}
    IN  IF live = {} THEN 0 ELSE CHOOSE m \in live : \A n \in live : n <= m

\* countUnreadByChannel
Unread(lastReadAt) == Cardinality({m \in Msg : Live(m) /\ m > lastReadAt})

\* findByWorkspaceAndIdForUser; the count is read later.
ChannelFor(u) ==
    [unreadCount |-> 0, lastReadAt |-> row[u].lastReadAt, last |-> LastMessage,
     edits |-> IF LastMessage = 0 THEN 0 ELSE message[LastMessage].edits]

CountOf(u, found) == IF Here(u) THEN Unread(found.lastReadAt) ELSE 0

\* What a member would be told now.
TrueMeta(u) ==
    [ChannelFor(u) EXCEPT !.unreadCount = Unread(row[u].lastReadAt)]

\* mapMessageResponse
Response(m) == [event |-> "shown", edits |-> message[m].edits, isPinned |-> m \in pin]

TrueView(m) ==
    CASE message[m].state = "none" -> NoView
      [] message[m].state = "live" -> Response(m)
      [] OTHER -> [NoView EXCEPT !.event = "deleted"]

-----------------------------------------------------------------------------
(* Steps of a handler                                                      *)

At(r, label) == req[r].pc = label

Quiet == \A r \in Req : At(r, "idle")

\* A step of one request, which is over when it returns to Blank.
Become(r, q) == req' = [req EXCEPT ![r] = q]
Goto(r, label) == req' = [req EXCEPT ![r].pc = label]
End(r) == Become(r, Blank)

Stored == <<mix, channel, row, message, pin>>
Told == <<view, meta>>

\* A read and the checks on what it returned, which throw when they fail.
Read(r, label, ok, next) ==
    /\ At(r, label)
    /\ Become(r, IF ok THEN next ELSE Blank)
    /\ UNCHANGED <<Stored, Told>>

Arrive(r, op, u, m) ==
    /\ op \in mix.ops
    /\ At(r, "idle")
    /\ mix.overlap \/ Quiet
    /\ req' = [s \in Req |->
                 IF s = r THEN [Blank EXCEPT !.pc = "channel", !.op = op, !.u = u,
                                             !.m = m, !.alone = Quiet]
                          ELSE [req[s] EXCEPT !.alone = FALSE]]
    /\ UNCHANGED <<Stored, Told>>

\* Requests; a client names a message that it has been told of.
ChannelArrive(r) ==
    \E u \in User, op \in {"create", "read"} \cup Listing :
        /\ op = "create" => Now < MaxMessage
        /\ Arrive(r, op, u, 0)

MessageArrive(r) ==
    \E u \in User, m \in Created, op \in Editing \cup Pinning :
        Arrive(r, op, u, m)

-----------------------------------------------------------------------------
(* Mutants: operators below with a bug a change of the code could bring in. *)
(* No action uses them; each must break the property named with it.         *)

\* Deletes the message and leaves its pin.  (Inv)
UnpinNone(r) ==
    /\ At(r, "unpinAll")
    /\ Goto(r, "delete")
    /\ UNCHANGED <<Stored, Told>>

\* Answers with the message as it was before the pin.  (Inv)
FindOnce(r) ==
    LET q == req[r]
    IN  Read(r, "again", Live(q.m),
             [q EXCEPT !.pc = "emit",
                       !.seen = [Response(q.m) EXCEPT !.isPinned = q.op # "pin"]])

\* Lets every member pin.  (KeepsContract)
FindAnybody(r) ==
    Read(r, "manager", TRUE, [req[r] EXCEPT !.pc = "message"])

\* Tells only the person who sent, changed or deleted it.  (LoneRequestsTellAll)
TellOne(r) ==
    LET q == req[r]
    IN  Read(r, "members", TRUE,
             [q EXCEPT !.pc = "meta", !.tell[q.u] = "find"])

\* Marks the channel read up to its last message.  (ReadMarksGoForward)
MarkLast(r) ==
    LET q == req[r]
        found == row[q.u].id = q.id
    IN  /\ At(r, "mark") \/ At(r, "now")
        /\ row' = IF ~found THEN row ELSE [row EXCEPT ![q.u].lastReadAt = LastMessage]
        /\ Become(r, IF ~found THEN Blank
                     ELSE IF q.op = "read"
                          THEN [q EXCEPT !.pc = "meta", !.tell[q.u] = "find"]
                          ELSE [q EXCEPT !.pc = "emit", !.seen.event = "shown"])
        /\ UNCHANGED <<mix, channel, message, pin, Told>>

-----------------------------------------------------------------------------
(* Look-ups                                                                *)

\* getChannelOrThrow and getChannelEntityOrThrow, and what the handlers ask of
\* the channel; markRead does not mind that it is archived.
FindChannel(r) ==
    LET q == req[r]
    IN  Read(r, "channel",
             channel # "deleted" /\ (channel = "archived" => q.op = "read"),
             [q EXCEPT !.pc = "member", !.readOnly = channel = "readOnly"])

\* getMembershipOrThrow; markRead takes the present time before it writes it.
FindMember(r) ==
    LET q == req[r]
    IN  Read(r, "member",
             /\ Here(q.u)
             /\ q.op = "create" /\ q.readOnly => row[q.u].role = "ADMIN",
             [q EXCEPT !.id = row[q.u].id,
                       !.m = IF q.op = "read" THEN Now ELSE q.m,
                       !.pc = CASE q.op = "create" -> "insert"
                                [] q.op = "read" -> "now"
                                [] q.op \in Listing -> "list"
                                [] q.op \in Pinning -> "manager"
                                [] OTHER -> "message"])

\* assertCanManagePins
FindManager(r) ==
    Read(r, "manager", req[r].u \in Manager, [req[r] EXCEPT !.pc = "message"])

\* getMessageOrThrow, and whose message it is.
FindMessage(r) ==
    LET q == req[r]
        pinned == q.m \in pin
    IN  Read(r, "message",
             /\ Live(q.m)
             /\ q.op \in Editing => message[q.m].sender = q.u,
             [q EXCEPT !.pc = CASE q.op = "update" -> "update"
                                [] q.op = "delete" -> "unpinAll"
                                [] q.op = "pin" -> IF pinned THEN "again" ELSE "pin"
                                [] q.op = "unpin" -> IF pinned THEN "unpin" ELSE "again"])

\* The second getMessageOrThrow of pinMessage and unpinMessage.
FindAgain(r) ==
    LET q == req[r]
    IN  Read(r, "again", Live(q.m),
             [q EXCEPT !.pc = "emit", !.seen = Response(q.m)])

\* listMessages and listPinnedMessages
List(r) == Read(r, "list", TRUE, Blank)

-----------------------------------------------------------------------------
(* Writes                                                                  *)

SetMessage(m, value) ==
    /\ message' = [message EXCEPT ![m] = value]
    /\ UNCHANGED <<mix, channel, row, Told>>

SetPins(pins) ==
    /\ pin' = pins
    /\ UNCHANGED <<mix, channel, row, message, Told>>

InsertMessage(r) ==
    LET q == req[r]
        m == Now + 1
    IN  /\ At(r, "insert")
        /\ m <= MaxMessage
        /\ SetMessage(m, [state |-> "live", sender |-> q.u, edits |-> 0])
        /\ Become(r, [q EXCEPT !.pc = "mark", !.m = m])
        /\ UNCHANGED pin

\* createMessage writes the time of its message, markRead the time at which it
\* found the membership.  Prisma's update by id throws when that is gone.
Mark(r) ==
    LET q == req[r]
        found == row[q.u].id = q.id
    IN  /\ At(r, "mark") \/ At(r, "now")
        /\ row' = IF ~found THEN row ELSE [row EXCEPT ![q.u].lastReadAt = q.m]
        /\ Become(r, IF ~found THEN Blank
                     ELSE IF q.op = "read"
                          THEN [q EXCEPT !.pc = "meta", !.tell[q.u] = "find"]
                          ELSE [q EXCEPT !.pc = "emit", !.seen.event = "shown"])
        /\ UNCHANGED <<mix, channel, message, pin, Told>>

\* Prisma's update by id finds messages that are deleted as well.
Update(r) ==
    LET q == req[r]
        m == q.m
    IN  /\ At(r, "update")
        /\ message[m].edits < MaxEdit
        /\ SetMessage(m, [message[m] EXCEPT !.edits = @ + 1])
        /\ Become(r, [q EXCEPT !.pc = "emit",
                               !.seen = [Response(m) EXCEPT !.edits = @ + 1]])
        /\ UNCHANGED pin

SoftDelete(r) ==
    LET q == req[r]
    IN  /\ At(r, "delete")
        /\ SetMessage(q.m, [message[q.m] EXCEPT !.state = "deleted"])
        /\ Become(r, [q EXCEPT !.pc = "emit", !.seen.event = "deleted"])
        /\ UNCHANGED pin

UnpinAll(r) ==
    /\ At(r, "unpinAll")
    /\ SetPins(pin \ {req[r].m})
    /\ Goto(r, "delete")

\* The unique key on the message: the second creation of a pin throws, and so
\* does the deletion of one that is gone.
CreatePin(r) ==
    LET m == req[r].m
    IN  /\ At(r, "pin")
        /\ IF m \in pin THEN End(r) ELSE Goto(r, "again")
        /\ SetPins(pin \cup {m})

DeletePin(r) ==
    LET m == req[r].m
    IN  /\ At(r, "unpin")
        /\ IF m \in pin THEN Goto(r, "again") ELSE End(r)
        /\ SetPins(pin \ {m})

-----------------------------------------------------------------------------
(* Events                                                                  *)

\* message.created, message.updated and message.deleted; pinning ends here.
Emit(r) ==
    LET q == req[r]
    IN  /\ At(r, "emit")
        /\ view' = [view EXCEPT ![q.m] = q.seen]
        /\ IF q.op \in Pinning THEN End(r) ELSE Goto(r, "members")
        /\ UNCHANGED <<Stored, meta>>

\* emitChannelMetaUpdatedForChannelMembers: findAllByChannel, and then all
\* members at once, each with two queries before its event.
FindMembers(r) ==
    LET q == req[r]
    IN  Read(r, "members", TRUE,
             [q EXCEPT !.pc = "meta",
                       !.tell = [u \in User |-> IF Here(u) THEN "find" ELSE "no"]])

FindMeta(r, u) ==
    LET q == req[r]
    IN  /\ q.tell[u] = "find"
        /\ Read(r, "meta", TRUE,
                IF channel = "deleted" THEN [q EXCEPT !.tell[u] = "no"]
                ELSE [q EXCEPT !.tell[u] = IF Here(u) THEN "count" ELSE "emit",
                               !.found[u] = ChannelFor(u)])

CountUnread(r, u) ==
    LET q == req[r]
    IN  /\ q.tell[u] = "count"
        /\ Read(r, "meta", TRUE,
                [q EXCEPT !.tell[u] = "emit",
                          !.found[u].unreadCount = Unread(q.found[u].lastReadAt)])

EmitMeta(r, u) ==
    LET q == req[r]
    IN  /\ At(r, "meta")
        /\ q.tell[u] = "emit"
        /\ meta' = [meta EXCEPT ![u] = q.found[u]]
        /\ Become(r, [q EXCEPT !.tell[u] = "no", !.found[u] = NoMeta])
        /\ UNCHANGED <<Stored, view>>

Answer(r) ==
    /\ At(r, "meta")
    /\ \A u \in User : req[r].tell[u] = "no"
    /\ End(r)
    /\ UNCHANGED <<Stored, Told>>

-----------------------------------------------------------------------------
(* The surroundings                                                        *)

Crash(r) ==
    /\ mix.crash
    /\ ~At(r, "idle")
    /\ End(r)
    /\ UNCHANGED <<Stored, Told>>

Meanwhile ==
    /\ mix.overlap \/ Quiet
    /\ req' = [r \in Req |-> [req[r] EXCEPT !.alone = FALSE]]

ChangeChannel ==
    /\ "channel" \in mix.ops
    /\ channel # "deleted"
    /\ channel' \in ChannelState
    /\ Meanwhile
    /\ UNCHANGED <<mix, row, message, pin, Told>>

\* A new row has an id that no handler has seen.
Join(u) ==
    \E i \in RowId, role \in {"ADMIN", "MEMBER"} :
        /\ ~Here(u)
        /\ \A r \in Req : req[r].id # i
        /\ row' = [row EXCEPT ![u] = [id |-> i, role |-> role, lastReadAt |-> 0]]

Leave(u) ==
    /\ Here(u)
    /\ row' = [row EXCEPT ![u] = Absent]

ChangeMember ==
    /\ "membership" \in mix.ops
    /\ \E u \in User : Join(u) \/ Leave(u)
    /\ Meanwhile
    /\ UNCHANGED <<mix, channel, message, pin, Told>>

Lookups(r) ==
    \/ FindChannel(r) \/ FindMember(r) \/ FindManager(r) \/ FindMessage(r)
    \/ FindAgain(r) \/ List(r)

Writes(r) ==
    \/ InsertMessage(r) \/ Mark(r) \/ Update(r) \/ SoftDelete(r)
    \/ UnpinAll(r) \/ CreatePin(r) \/ DeletePin(r)

Events(r) ==
    \/ Emit(r) \/ FindMembers(r) \/ Answer(r)
    \/ \E u \in User : FindMeta(r, u) \/ CountUnread(r, u) \/ EmitMeta(r, u)

Next ==
    \/ ChangeChannel \/ ChangeMember
    \/ \E r \in Req : \/ ChannelArrive(r) \/ MessageArrive(r)
                      \/ Lookups(r) \/ Writes(r) \/ Events(r) \/ Crash(r)

Spec == Init /\ [][Next]_vars

-----------------------------------------------------------------------------

TypeOK ==
    /\ mix \in Mix
    /\ channel \in ChannelState
    /\ row \in [User -> ChannelMember]
    /\ message \in [Msg -> Message]
    /\ pin \subseteq Msg
    /\ view \in [Msg -> View]
    /\ meta \in [User -> Meta]
    /\ req \in [Req -> Request]

\* Of requests that do not overlap, also of such that are cut off, only live
\* messages are pinned.
PinsAreLive == ~mix.overlap => \A m \in pin : Live(m)

\* Between requests that neither overlap nor are cut off, a client that follows
\* the events has every message as it is stored: content, pin and deletion.
RoomSeesTheMessages ==
    ~mix.overlap /\ ~mix.crash /\ Quiet => \A m \in Msg : view[m] = TrueView(m)

Inv == TypeOK /\ PinsAreLive /\ RoomSeesTheMessages

\* However requests overlapped before, the end of one that has run alone leaves
\* every member that it concerns with the true count of unread messages and the
\* true last message: what late events of other requests made wrong is repaired.
LoneRequestsTellAll ==
    [][\A r \in Req :
         Answer(r) /\ req[r].alone /\ channel # "deleted" =>
             \A u \in User : Here(u) /\ (req[r].op = "read" => u = req[r].u) =>
                 meta[u] = TrueMeta(u)]_vars

\* Of requests that do not overlap, what somebody has read stays read for as
\* long as they are in the channel.
ReadMarksGoForward ==
    [][~mix.overlap =>
         \A u \in User : row'[u].id = row[u].id => row'[u].lastReadAt >= row[u].lastReadAt]_vars

-----------------------------------------------------------------------------
(* The contract: the feed of the channel is what its events have told.      *)

roles == [u \in User |-> IF Here(u) THEN row[u].role ELSE "NONE"]

author ==
    [m \in Msg |-> IF view[m].event = "none" THEN "NOBODY" ELSE message[m].sender]

asking == {req[r].u : r \in {s \in Req : ~At(s, "idle")}}

Contract == INSTANCE FeedContract WITH feed <- view

\* Requests that neither overlap nor are cut off change what clients see by the
\* operations of the contract only: each appears at once, in order, and at a
\* moment at which the one who asked for it may do it.
KeepsContract ==
    /\ Contract!CInit
    /\ [][~mix.overlap /\ ~mix.crash => Contract!CNext]_(Contract!cvars)

=============================================================================
