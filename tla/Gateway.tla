------------------------------ MODULE Gateway -------------------------------
(***************************************************************************)
(* MessagesGateway: the sockets of clients, the rooms they are in, and who *)
(* is shown as typing in one channel.  A socket authenticates after it has *)
(* connected; its events are handled at the same time, and each stops at   *)
(* every look-up of a membership.  What a handler does after the last      *)
(* look-up is one step, as it is in JavaScript.                            *)
(*                                                                         *)
(* Socket.IO hands an event to the sockets that are in the room when it is *)
(* emitted, and a socket that disconnects is in no room.                   *)
(***************************************************************************)
EXTENDS Naturals

CONSTANTS
    User,
    NoUser,
    Socket,   \* connections, one client each
    Owner,    \* the account whose access token a socket presents
    MaxTimer, \* bound: timers that run at the same time
    Req,      \* events that can be handled at the same time
    Mix       \* the events that come

Entering == {"channel.join", "channel.leave", "workspace.join", "workspace.leave"}
Typing == {"typing.start", "typing.stop"}
\* "message" is emitTypingStop when a message is created; "membership" is what
\* the Channels and Workspaces modules do meanwhile.
Event == Entering \cup Typing \cup {"message", "connection", "membership"}

ASSUME GatewayAssumption ==
    /\ NoUser \notin User /\ Socket # {}
    /\ Owner \in [Socket -> User]
    /\ MaxTimer \in Nat
    /\ Mix \subseteq SUBSET Event

Timer == 1..MaxTimer

VARIABLES
    mix,     \* the events of this behaviour
    channel, \* the channel exists
    member,  \* who is in it, and who is an active member of the workspace
    socket,  \* the connections
    typing,  \* typingTimeouts: the timer of every account, 0 for none
    running, \* whose entry every timer clears, NoUser if it does not run
    shown,   \* the accounts that a client shows as typing
    cut,     \* history: accounts whose timer a disconnection has cleared
    req      \* the events being handled

vars == <<mix, channel, member, socket, typing, running, shown, cut, req>>

Room == {"channel", "workspace"}

Connection == [state : {"off", "new", "on"}, rooms : SUBSET Room]

Off == [state |-> "off", rooms |-> {}]

Label == {"idle", "channel", "member", "workspace", "act"}

Request == [pc : Label, event : Event, s : Socket]

SomeSocket == CHOOSE s \in Socket : TRUE

Blank == [pc |-> "idle", event |-> "message", s |-> SomeSocket]

In(s, room) == room \in socket[s].rooms

Init ==
    /\ mix \in Mix
    /\ channel = TRUE
    /\ member = [room \in Room |-> User]
    /\ socket = [s \in Socket |-> IF {"connection", "channel.join"} \subseteq mix
                                  THEN Off
                                  ELSE [state |-> "on", rooms |-> {"channel"}]]
    /\ typing = [u \in User |-> 0]
    /\ running = [t \in Timer |-> NoUser]
    /\ shown = [s \in Socket |-> {}]
    /\ cut = {}
    /\ req = [r \in Req |-> Blank]

-----------------------------------------------------------------------------
(* What the handlers are made of                                           *)

At(r, label) == req[r].pc = label

Goto(r, label) == req' = [req EXCEPT ![r].pc = label]

End(r) == req' = [req EXCEPT ![r] = Blank]

People == <<mix, channel, member>>
Timers == <<typing, running, shown, cut>>

\* clearTypingTimeout
Cleared(u) ==
    /\ typing' = [typing EXCEPT ![u] = 0]
    /\ running' = [t \in Timer |-> IF t = typing[u] THEN NoUser ELSE running[t]]

\* typing.start and typing.stop of an account, emitted to some sockets.
Shows(u, sockets) ==
    shown' = [s \in Socket |-> IF s \in sockets /\ In(s, "channel")
                               THEN shown[s] \cup {u} ELSE shown[s]]

Hides(u, sockets) ==
    /\ shown' = [s \in Socket |-> IF s \in sockets /\ In(s, "channel")
                                  THEN shown[s] \ {u} ELSE shown[s]]
    /\ cut' = cut \ {u}

-----------------------------------------------------------------------------
(* Mutants: operators below with a bug a change of the code could bring in. *)
(* No action uses them; each must break the property named with it.         *)

\* Sets a timer without clearing the one before.  (Inv)
StartAnother(r) ==
    LET u == Owner[req[r].s]
    IN  \E t \in Timer :
        /\ At(r, "act") /\ req[r].event = "typing.start"
        /\ running[t] = NoUser
        /\ typing' = [typing EXCEPT ![u] = t]
        /\ running' = [running EXCEPT ![t] = u]
        /\ Shows(u, Socket \ {req[r].s})
        /\ cut' = cut \ {u}
        /\ End(r)
        /\ UNCHANGED <<People, socket>>

\* Forgets to tell the room.  (TypingEnds)
FireSilently(t) ==
    LET u == running[t]
    IN  /\ u # NoUser
        /\ running' = [running EXCEPT ![t] = NoUser]
        /\ typing' = [typing EXCEPT ![u] = 0]
        /\ UNCHANGED <<People, socket, shown, cut, req>>

-----------------------------------------------------------------------------
(* Connections                                                             *)

\* A connection is a new socket: nothing is under way for it.
Connect(s) ==
    /\ "connection" \in mix
    /\ socket[s].state = "off"
    /\ \A r \in Req : At(r, "idle") \/ req[r].s # s
    /\ socket' = [socket EXCEPT ![s].state = "new"]
    /\ UNCHANGED <<People, Timers, req>>

\* handleConnection: the token is accepted, or the socket is disconnected.
Authenticate(s) ==
    /\ socket[s].state = "new"
    /\ \E state \in {"on", "off"} : socket' = [socket EXCEPT ![s].state = state]
    /\ UNCHANGED <<People, Timers, req>>

\* handleDisconnect clears the timers of the account, if one was accepted, and
\* emits nothing.
Disconnect(s) ==
    LET u == Owner[s]
    IN  /\ "connection" \in mix
        /\ socket[s].state # "off"
        /\ socket' = [socket EXCEPT ![s] = Off]
        /\ shown' = [shown EXCEPT ![s] = {}]
        /\ IF socket[s].state = "on" /\ typing[u] # 0
           THEN Cleared(u) /\ cut' = cut \cup {u}
           ELSE UNCHANGED <<typing, running, cut>>
        /\ UNCHANGED <<People, req>>

-----------------------------------------------------------------------------
(* Events                                                                  *)

\* A socket without an account is told that it is not authorised.
Receive(r) ==
    \E s \in Socket, e \in mix \cap (Entering \cup Typing) :
        /\ At(r, "idle")
        /\ socket[s].state = "on"
        /\ req' = [req EXCEPT ![r] =
                     [pc |-> IF e \in {"workspace.join", "workspace.leave"}
                             THEN "workspace" ELSE "channel",
                      event |-> e, s |-> s]]
        /\ UNCHANGED <<People, socket, Timers>>

\* A look-up and its check, which throws.
Check(r, label, ok, next) ==
    /\ At(r, label)
    /\ IF ok THEN Goto(r, next) ELSE End(r)
    /\ UNCHANGED <<People, socket, Timers>>

\* assertWorkspaceMembership
FindWorkspaceMember(r) ==
    Check(r, "workspace", Owner[req[r].s] \in member["workspace"], "act")

\* assertChannelMembership
FindChannel(r) == Check(r, "channel", channel, "member")

FindMember(r) == Check(r, "member", Owner[req[r].s] \in member["channel"], "act")

\* A socket that is gone by now enters no room.
Enter(r) ==
    LET q == req[r]
        room == IF q.event = "workspace.join" THEN "workspace" ELSE "channel"
    IN  /\ At(r, "act") /\ q.event \in {"workspace.join", "channel.join"}
        /\ socket' = IF socket[q.s].state = "on"
                     THEN [socket EXCEPT ![q.s].rooms = @ \cup {room}] ELSE socket
        /\ End(r)
        /\ UNCHANGED <<People, Timers>>

\* A client shows nothing of a room that it has left.
Leave(r) ==
    LET q == req[r]
        room == IF q.event = "workspace.leave" THEN "workspace" ELSE "channel"
    IN  /\ At(r, "act") /\ q.event \in {"workspace.leave", "channel.leave"}
        /\ socket' = [socket EXCEPT ![q.s].rooms = @ \ {room}]
        /\ shown' = IF room = "channel" THEN [shown EXCEPT ![q.s] = {}] ELSE shown
        /\ End(r)
        /\ UNCHANGED <<People, typing, running, cut>>

\* typing.start replaces the timer of the account.
StartTyping(r) ==
    LET u == Owner[req[r].s]
    IN  \E t \in Timer :
        /\ At(r, "act") /\ req[r].event = "typing.start"
        /\ running[t] = NoUser \/ t = typing[u]
        /\ typing' = [typing EXCEPT ![u] = t]
        /\ running' = [i \in Timer |-> IF i = t THEN u
                                       ELSE IF i = typing[u] THEN NoUser
                                       ELSE running[i]]
        /\ Shows(u, Socket \ {req[r].s})
        /\ cut' = cut \ {u}
        /\ End(r)
        /\ UNCHANGED <<People, socket>>

StopTyping(r) ==
    LET u == Owner[req[r].s]
    IN  /\ At(r, "act") /\ req[r].event = "typing.stop"
        /\ Cleared(u)
        /\ Hides(u, Socket \ {req[r].s})
        /\ End(r)
        /\ UNCHANGED <<People, socket>>

\* emitTypingStop: the account has sent a message.
SendMessage(u) ==
    /\ "message" \in mix
    /\ Cleared(u)
    /\ Hides(u, Socket)
    /\ UNCHANGED <<People, socket, req>>

\* Four seconds after the last typing.start: the callback deletes the entry of
\* the account, whatever timer is there.
Fire(t) ==
    LET u == running[t]
    IN  /\ u # NoUser
        /\ running' = [running EXCEPT ![t] = NoUser]
        /\ typing' = [typing EXCEPT ![u] = 0]
        /\ Hides(u, Socket)
        /\ UNCHANGED <<People, socket, req>>

-----------------------------------------------------------------------------

\* People enter and leave the channel and the workspace, and the channel is
\* deleted; the gateway is not told.
ChangePeople ==
    /\ "membership" \in mix
    /\ \/ /\ \E room \in Room, u \in User :
               member' = [member EXCEPT ![room] = IF u \in @ THEN @ \ {u} ELSE @ \cup {u}]
          /\ UNCHANGED channel
       \/ /\ channel
          /\ channel' = FALSE
          /\ UNCHANGED member
    /\ UNCHANGED <<mix, socket, Timers, req>>

Step(r) ==
    \/ FindWorkspaceMember(r) \/ FindChannel(r) \/ FindMember(r)
    \/ Enter(r) \/ Leave(r) \/ StartTyping(r) \/ StopTyping(r)

Next ==
    \/ ChangePeople
    \/ \E s \in Socket : Connect(s) \/ Authenticate(s) \/ Disconnect(s)
    \/ \E u \in User : SendMessage(u)
    \/ \E t \in Timer : Fire(t)
    \/ \E r \in Req : Receive(r) \/ Step(r)

Spec == Init /\ [][Next]_vars

\* A timer that runs goes off; look-ups return.
FairSpec ==
    /\ Spec
    /\ \A t \in Timer : WF_vars(Fire(t))
    /\ \A r \in Req : WF_vars(Step(r))

-----------------------------------------------------------------------------

TypeOK ==
    /\ mix \in Mix
    /\ channel \in BOOLEAN
    /\ member \in [Room -> SUBSET User]
    /\ socket \in [Socket -> Connection]
    /\ typing \in [User -> 0..MaxTimer]
    /\ running \in [Timer -> User \cup {NoUser}]
    /\ shown \in [Socket -> SUBSET User]
    /\ cut \subseteq User
    /\ req \in [Req -> Request]

\* The entries of typingTimeouts are the timers that run, one for an account at
\* most: no timer is left that would end a later typing.start early.
TimersAreEntries ==
    \A t \in Timer, u \in User : running[t] = u <=> typing[u] = t

\* Whoever a client of somebody else shows as typing has a timer that will end
\* it, or had one that a disconnection of theirs has cleared.
ShownAreTimed ==
    \A s \in Socket : \A u \in shown[s] \ {Owner[s]} : typing[u] # 0 \/ u \in cut

Inv == TypeOK /\ TimersAreEntries /\ ShownAreTimed

\* Somebody who does not begin to type over and over is again and again shown to
\* nobody else as typing, unless a disconnection of theirs cleared the timer.
TypingEnds ==
    \A u \in User :
        \/ []<><<\E r \in Req : StartTyping(r) /\ Owner[req[r].s] = u>>_vars
        \/ []<>(u \in cut \/ \A s \in Socket : Owner[s] # u => u \notin shown[s])

=============================================================================
