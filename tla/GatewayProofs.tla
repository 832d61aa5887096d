--------------------------- MODULE GatewayProofs ----------------------------
(***************************************************************************)
(* Theorems about Gateway that hold for every set of accounts, sockets and *)
(* events handled at the same time, and for any number of timers.          *)
(***************************************************************************)
EXTENDS Gateway, TLAPS

\* A client shows nobody of a room it is not in.
OutsideShowsNothing == \A s \in Socket : ~In(s, "channel") => shown[s] = {}

\* ShownAreTimed alone is not inductive: an event hides an account from the
\* sockets of the room only, so the others must show nobody.
GatewayInv == Inv /\ OutsideShowsNothing

USE GatewayAssumption

-----------------------------------------------------------------------------

LEMMA BlankType == Blank \in Request
  <1>1. SomeSocket \in Socket
    BY DEF SomeSocket
  <1> QED
    BY <1>1 DEF Blank, Request, Label, Event, Entering, Typing

LEMMA InitInv == Init => GatewayInv
  <1> SUFFICES ASSUME Init PROVE GatewayInv
    OBVIOUS
  <1>1. TypeOK
    <2>1. socket \in [Socket -> Connection]
      BY DEF Init, Connection, Off, Room
    <2> QED
      BY <2>1, BlankType DEF Init, TypeOK
  <1>2. TimersAreEntries
    <2>1. ASSUME NEW t \in Timer, NEW u \in User
          PROVE  running[t] # u /\ typing[u] # t
      <3>1. running[t] = NoUser /\ typing[u] = 0
        BY DEF Init
      <3>2. t # 0
        BY DEF Timer
      <3> QED
        BY <3>1, <3>2
    <2> QED
      BY <2>1 DEF TimersAreEntries
  <1>3. ShownAreTimed /\ OutsideShowsNothing
    BY DEF Init, ShownAreTimed, OutsideShowsNothing
  <1> QED
    BY <1>1, <1>2, <1>3 DEF GatewayInv, Inv

\* A step that ends or moves one request keeps the type of the requests.
LEMMA RequestType ==
  ASSUME TypeOK, NEW r \in Req, NEW label \in Label, Goto(r, label) \/ End(r)
  PROVE  req' \in [Req -> Request]
  BY BlankType DEF TypeOK, Goto, End, Request

\* Steps that leave sockets, timers and what is shown alone.
LEMMA SameTimers ==
  ASSUME GatewayInv, mix' = mix, channel' \in BOOLEAN,
         member' \in [Room -> SUBSET User], req' \in [Req -> Request],
         UNCHANGED <<socket, Timers>>
  PROVE  GatewayInv'
  BY DEF GatewayInv, Inv, TypeOK, TimersAreEntries, ShownAreTimed,
         OutsideShowsNothing, In, Timers

\* Steps that change the rooms of one socket, which shows nobody when it is in
\* no channel afterwards, and at most what it showed before.
LEMMA SocketMoves ==
  ASSUME GatewayInv, NEW s \in Socket, NEW c \in Connection,
         socket' = [socket EXCEPT ![s] = c],
         NEW seen \in SUBSET shown[s], shown' = [shown EXCEPT ![s] = seen],
         "channel" \notin c.rooms => seen = {},
         req' \in [Req -> Request], UNCHANGED <<People, typing, running, cut>>
  PROVE  GatewayInv'
  <1>1. TypeOK'
    BY DEF GatewayInv, Inv, TypeOK, People
  <1>2. TimersAreEntries'
    BY DEF GatewayInv, Inv, TimersAreEntries
  <1>3. \A x \in Socket : shown'[x] \subseteq shown[x]
    BY DEF GatewayInv, Inv, TypeOK
  <1>4. ShownAreTimed'
    BY <1>3 DEF GatewayInv, Inv, ShownAreTimed
  <1>5. OutsideShowsNothing'
    BY DEF GatewayInv, Inv, TypeOK, OutsideShowsNothing, In
  <1> QED
    BY <1>1, <1>2, <1>4, <1>5 DEF GatewayInv, Inv

-----------------------------------------------------------------------------
(* The timer of an account                                                 *)

\* clearTypingTimeout takes the entry of an account and the timer that runs for
\* it, and no other.
LEMMA ClearedTimers ==
  ASSUME TypeOK, TimersAreEntries, NEW u \in User, Cleared(u)
  PROVE  /\ typing' \in [User -> 0..MaxTimer]
         /\ running' \in [Timer -> User \cup {NoUser}]
         /\ TimersAreEntries'
         /\ \A v \in User : v # u => typing'[v] = typing[v]
  BY DEF TypeOK, TimersAreEntries, Cleared, Timer

LEMMA FiredTimer ==
  ASSUME TypeOK, TimersAreEntries, NEW t \in Timer, running[t] # NoUser,
         running' = [running EXCEPT ![t] = NoUser],
         typing' = [typing EXCEPT ![running[t]] = 0]
  PROVE  /\ typing' \in [User -> 0..MaxTimer]
         /\ running' \in [Timer -> User \cup {NoUser}]
         /\ TimersAreEntries'
         /\ \A v \in User : v # running[t] => typing'[v] = typing[v]
  BY DEF TypeOK, TimersAreEntries, Timer

\* typing.start leaves one timer for the account: the one it has begun.
LEMMA StartedTimer ==
  ASSUME TypeOK, TimersAreEntries, NEW u \in User, NEW t \in Timer,
         running[t] = NoUser \/ t = typing[u],
         typing' = [typing EXCEPT ![u] = t],
         running' = [i \in Timer |-> IF i = t THEN u
                                     ELSE IF i = typing[u] THEN NoUser
                                     ELSE running[i]]
  PROVE  /\ typing' \in [User -> 0..MaxTimer]
         /\ running' \in [Timer -> User \cup {NoUser}]
         /\ TimersAreEntries'
         /\ typing'[u] # 0
         /\ \A v \in User : v # u => typing'[v] = typing[v]
  <1>1. typing' \in [User -> 0..MaxTimer] /\ running' \in [Timer -> User \cup {NoUser}]
    BY DEF TypeOK, Timer
  <1>2. typing'[u] = t /\ \A v \in User : v # u => typing'[v] = typing[v]
    BY DEF TypeOK
  <1>3. ASSUME NEW i \in Timer, NEW v \in User
        PROVE  running'[i] = v <=> typing'[v] = i
    <2>1. running[i] = v <=> typing[v] = i
      BY DEF TimersAreEntries
    <2>2. running[i] = u <=> typing[u] = i
      BY DEF TimersAreEntries
    <2>3. running[t] = v <=> typing[v] = t
      BY DEF TimersAreEntries
    <2> QED
      BY <1>2, <2>1, <2>2, <2>3 DEF TypeOK
  <1> QED
    BY <1>1, <1>2, <1>3 DEF TimersAreEntries, Timer

\* typing.stop of an account whose timer has gone, to all sockets but such of
\* its own.
LEMMA HiddenEverywhere ==
  ASSUME GatewayInv, NEW u \in User, NEW sockets \in SUBSET Socket,
         Hides(u, sockets), socket' = socket,
         \A s \in Socket \ sockets : Owner[s] = u,
         \A v \in User : v # u => typing'[v] = typing[v]
  PROVE  /\ shown' \in [Socket -> SUBSET User]
         /\ cut' \subseteq User
         /\ ShownAreTimed'
         /\ OutsideShowsNothing'
  <1>1. shown' \in [Socket -> SUBSET User] /\ cut' \subseteq User
    BY DEF GatewayInv, Inv, TypeOK, Hides
  <1>2. OutsideShowsNothing'
    BY DEF GatewayInv, Inv, TypeOK, Hides, OutsideShowsNothing, In
  <1>3. ASSUME NEW s \in Socket, NEW v \in shown'[s] \ {Owner[s]}
        PROVE  typing'[v] # 0 \/ v \in cut'
    <2>1. v \in shown[s] /\ v \in User
      BY <1>1 DEF Hides
    <2>2. typing[v] # 0 \/ v \in cut
      BY <2>1, <1>3 DEF GatewayInv, Inv, ShownAreTimed
    <2>3. v # u
      BY <1>3, <2>1 DEF GatewayInv, OutsideShowsNothing, Hides, In
    <2> QED
      BY <2>1, <2>2, <2>3 DEF Hides
  <1> QED
    BY <1>1, <1>2, <1>3 DEF ShownAreTimed

-----------------------------------------------------------------------------
(* The steps                                                               *)

LEMMA ConnectionSteps ==
  ASSUME GatewayInv, NEW s \in Socket,
         Connect(s) \/ Authenticate(s) \/ Disconnect(s)
  PROVE  GatewayInv'
  <1>0. TypeOK /\ socket[s] \in Connection
    BY DEF GatewayInv, Inv, TypeOK
  <1>1. CASE Connect(s) \/ Authenticate(s)
    <2>1. PICK state \in {"off", "new", "on"} :
            socket' = [socket EXCEPT ![s] = [socket[s] EXCEPT !.state = state]]
      BY <1>0, <1>1 DEF Connect, Authenticate, TypeOK
    <2>2. [socket[s] EXCEPT !.state = state] \in Connection
      BY <1>0, <2>1 DEF Connection
    <2>3. shown' = [shown EXCEPT ![s] = shown[s]] /\ UNCHANGED <<People, typing, running, cut, req>>
      BY <1>0, <1>1 DEF Connect, Authenticate, Timers, TypeOK
    <2>4. "channel" \notin [socket[s] EXCEPT !.state = state].rooms => shown[s] = {}
      BY <1>0 DEF GatewayInv, OutsideShowsNothing, In, Connection
    <2> QED
      BY <1>0, <2>1, <2>2, <2>3, <2>4, SocketMoves DEF TypeOK
  <1>2. CASE Disconnect(s)
    <2> DEFINE u == Owner[s]
    <2>0. u \in User /\ Off \in Connection
      BY DEF Off, Connection
    <2>1. /\ socket' = [socket EXCEPT ![s] = Off]
          /\ shown' = [shown EXCEPT ![s] = {}]
          /\ UNCHANGED People /\ req' = req
      BY <1>2 DEF Disconnect
    <2>2. CASE UNCHANGED <<typing, running, cut>>
      BY <1>0, <2>0, <2>1, <2>2, SocketMoves DEF TypeOK, Off
    <2>3. CASE Cleared(u) /\ cut' = cut \cup {u}
      <3>1. /\ typing' \in [User -> 0..MaxTimer]
            /\ running' \in [Timer -> User \cup {NoUser}]
            /\ TimersAreEntries'
            /\ \A v \in User : v # u => typing'[v] = typing[v]
        BY <1>0, <2>0, <2>3, ClearedTimers DEF GatewayInv, Inv
      <3>2. TypeOK'
        BY <1>0, <2>0, <2>1, <2>3, <3>1 DEF TypeOK, People
      <3>3. ShownAreTimed'
        BY <1>0, <2>0, <2>1, <2>3, <3>1 DEF GatewayInv, Inv, TypeOK, ShownAreTimed
      <3>4. OutsideShowsNothing'
        BY <1>0, <2>1 DEF GatewayInv, TypeOK, OutsideShowsNothing, In
      <3> QED
        BY <3>1, <3>2, <3>3, <3>4 DEF GatewayInv, Inv
    <2> QED
      BY <1>2, <2>2, <2>3 DEF Disconnect
  <1> QED
    BY <1>1, <1>2

LEMMA LookupSteps ==
  ASSUME GatewayInv, NEW r \in Req,
         Receive(r) \/ FindWorkspaceMember(r) \/ FindChannel(r) \/ FindMember(r)
  PROVE  GatewayInv'
  <1>0. TypeOK
    BY DEF GatewayInv, Inv
  <1>1. req' \in [Req -> Request]
    <2>1. CASE Receive(r)
      BY <1>0, <2>1 DEF Receive, TypeOK, Request, Label, Event
    <2>2. CASE FindWorkspaceMember(r) \/ FindChannel(r) \/ FindMember(r)
      <3>1. PICK label \in Label : Goto(r, label) \/ End(r)
        BY <2>2 DEF FindWorkspaceMember, FindChannel, FindMember, Check, Label
      <3> QED
        BY <1>0, <3>1, RequestType
    <2> QED
      BY <2>1, <2>2
  <1>2. UNCHANGED <<People, socket, Timers>>
    BY DEF Receive, FindWorkspaceMember, FindChannel, FindMember, Check
  <1> QED
    BY <1>0, <1>1, <1>2, SameTimers DEF People, TypeOK

LEMMA RoomSteps ==
  ASSUME GatewayInv, NEW r \in Req, Enter(r) \/ Leave(r)
  PROVE  GatewayInv'
  <1> DEFINE s == req[r].s
  <1>0. TypeOK /\ s \in Socket /\ socket[s] \in Connection
    BY DEF GatewayInv, Inv, TypeOK, Request
  <1>1. req' \in [Req -> Request]
    BY <1>0, RequestType DEF Enter, Leave, Label
  <1>2. CASE Enter(r) /\ socket' = socket
    BY <1>0, <1>1, <1>2, SameTimers DEF Enter, People, TypeOK
  <1>3. CASE Enter(r) /\ socket' # socket
    <2>1. PICK room \in Room :
            socket' = [socket EXCEPT ![s] = [socket[s] EXCEPT !.rooms = @ \cup {room}]]
      BY <1>0, <1>3 DEF Enter, TypeOK, Room
    <2> DEFINE c == [socket[s] EXCEPT !.rooms = @ \cup {room}]
    <2>2. c \in Connection /\ socket[s].rooms \subseteq c.rooms
      BY <1>0 DEF Connection
    <2>3. shown' = [shown EXCEPT ![s] = shown[s]] /\ UNCHANGED <<People, typing, running, cut>>
      BY <1>0, <1>3 DEF Enter, Timers, TypeOK
    <2>4. "channel" \notin c.rooms => shown[s] = {}
      BY <1>0, <2>2 DEF GatewayInv, OutsideShowsNothing, In
    <2> QED
      BY <1>0, <1>1, <2>1, <2>2, <2>3, <2>4, SocketMoves
  <1>4. CASE Leave(r)
    <2>1. PICK room \in Room :
            /\ socket' = [socket EXCEPT ![s] = [socket[s] EXCEPT !.rooms = @ \ {room}]]
            /\ shown' = IF room = "channel" THEN [shown EXCEPT ![s] = {}] ELSE shown
      BY <1>0, <1>4 DEF Leave, TypeOK, Room
    <2> DEFINE c == [socket[s] EXCEPT !.rooms = @ \ {room}]
               seen == IF room = "channel" THEN {} ELSE shown[s]
    <2>2. c \in Connection
      BY <1>0 DEF Connection
    <2>3. shown' = [shown EXCEPT ![s] = seen] /\ UNCHANGED <<People, typing, running, cut>>
      BY <1>0, <1>4, <2>1 DEF Leave, TypeOK
    <2>4. "channel" \notin c.rooms => seen = {}
      BY <1>0 DEF GatewayInv, OutsideShowsNothing, In, Connection
    <2> QED
      BY <1>0, <1>1, <2>1, <2>2, <2>3, <2>4, SocketMoves
  <1> QED
    BY <1>2, <1>3, <1>4

LEMMA TypingStarts ==
  ASSUME GatewayInv, NEW r \in Req, StartTyping(r)
  PROVE  GatewayInv'
  <1> DEFINE s == req[r].s
             u == Owner[s]
  <1>0. TypeOK /\ TimersAreEntries /\ s \in Socket /\ u \in User
    BY DEF GatewayInv, Inv, TypeOK, Request
  <1>1. PICK t \in Timer :
          /\ running[t] = NoUser \/ t = typing[u]
          /\ typing' = [typing EXCEPT ![u] = t]
          /\ running' = [i \in Timer |-> IF i = t THEN u
                                         ELSE IF i = typing[u] THEN NoUser
                                         ELSE running[i]]
          /\ Shows(u, Socket \ {s})
          /\ cut' = cut \ {u}
          /\ End(r)
          /\ UNCHANGED <<People, socket>>
    BY DEF StartTyping
  <1>2. /\ typing' \in [User -> 0..MaxTimer]
        /\ running' \in [Timer -> User \cup {NoUser}]
        /\ TimersAreEntries'
        /\ typing'[u] # 0
        /\ \A v \in User : v # u => typing'[v] = typing[v]
    BY <1>0, <1>1, StartedTimer
  <1>3. req' \in [Req -> Request]
    BY <1>0, <1>1, RequestType DEF Label
  <1>4. shown' \in [Socket -> SUBSET User]
    BY <1>0, <1>1 DEF Shows, TypeOK
  <1>5. TypeOK'
    BY <1>0, <1>1, <1>2, <1>3, <1>4 DEF TypeOK, People
  <1>6. OutsideShowsNothing'
    BY <1>1 DEF Shows, GatewayInv, OutsideShowsNothing, In
  <1>7. ASSUME NEW x \in Socket, NEW v \in shown'[x] \ {Owner[x]}
        PROVE  typing'[v] # 0 \/ v \in cut'
    <2>1. CASE v = u
      BY <1>2, <2>1
    <2>2. CASE v # u
      <3>1. v \in shown[x] /\ v \in User
        BY <1>1, <1>4, <2>2 DEF Shows
      <3> QED
        BY <1>1, <1>2, <1>7, <2>2, <3>1 DEF GatewayInv, Inv, ShownAreTimed
    <2> QED
      BY <2>1, <2>2
  <1> QED
    BY <1>2, <1>5, <1>6, <1>7 DEF GatewayInv, Inv, ShownAreTimed

LEMMA TypingStops ==
  ASSUME GatewayInv, NEW u \in User, NEW sockets \in SUBSET Socket,
         Cleared(u) \/ \E t \in Timer : /\ u = running[t]
                                        /\ running' = [running EXCEPT ![t] = NoUser]
                                        /\ typing' = [typing EXCEPT ![u] = 0],
         Hides(u, sockets), \A s \in Socket \ sockets : Owner[s] = u,
         req' \in [Req -> Request], UNCHANGED <<People, socket>>
  PROVE  GatewayInv'
  <1>0. TypeOK /\ TimersAreEntries /\ u # NoUser
    BY DEF GatewayInv, Inv
  <1>1. /\ typing' \in [User -> 0..MaxTimer]
        /\ running' \in [Timer -> User \cup {NoUser}]
        /\ TimersAreEntries'
        /\ \A v \in User : v # u => typing'[v] = typing[v]
    <2>1. CASE Cleared(u)
      BY <1>0, <2>1, ClearedTimers
    <2>2. ASSUME NEW t \in Timer, u = running[t],
                 running' = [running EXCEPT ![t] = NoUser],
                 typing' = [typing EXCEPT ![u] = 0]
          PROVE  /\ typing' \in [User -> 0..MaxTimer]
                 /\ running' \in [Timer -> User \cup {NoUser}]
                 /\ TimersAreEntries'
                 /\ \A v \in User : v # u => typing'[v] = typing[v]
      BY <1>0, <2>2, FiredTimer
    <2> QED
      BY <2>1, <2>2
  <1>2. /\ shown' \in [Socket -> SUBSET User] /\ cut' \subseteq User
        /\ ShownAreTimed' /\ OutsideShowsNothing'
    BY <1>1, HiddenEverywhere
  <1>3. TypeOK'
    BY <1>0, <1>1, <1>2 DEF TypeOK, People
  <1> QED
    BY <1>1, <1>2, <1>3 DEF GatewayInv, Inv

LEMMA NextInv == GatewayInv /\ [Next]_vars => GatewayInv'
  <1> SUFFICES ASSUME GatewayInv, [Next]_vars PROVE GatewayInv'
    OBVIOUS
  <1>0. TypeOK /\ TimersAreEntries
    BY DEF GatewayInv, Inv
  <1>1. CASE ChangePeople
    <2>1. channel' \in BOOLEAN /\ member' \in [Room -> SUBSET User]
      <3>1. CASE channel' = FALSE /\ member' = member
        BY <1>0, <3>1 DEF TypeOK
      <3>2. ASSUME NEW room \in Room, NEW u \in User, channel' = channel,
                   member' = [member EXCEPT ![room] = IF u \in @ THEN @ \ {u} ELSE @ \cup {u}]
            PROVE  channel' \in BOOLEAN /\ member' \in [Room -> SUBSET User]
        <4>1. (IF u \in member[room] THEN member[room] \ {u} ELSE member[room] \cup {u})
                \in SUBSET User
          BY <1>0 DEF TypeOK
        <4> QED
          BY <1>0, <3>2, <4>1 DEF TypeOK
      <3> QED
        BY <1>1, <3>1, <3>2 DEF ChangePeople
    <2> QED
      BY <1>0, <1>1, <2>1, SameTimers DEF ChangePeople, TypeOK
  <1>2. ASSUME NEW s \in Socket, Connect(s) \/ Authenticate(s) \/ Disconnect(s)
        PROVE  GatewayInv'
    BY <1>2, ConnectionSteps
  <1>3. ASSUME NEW u \in User, SendMessage(u) PROVE GatewayInv'
    BY <1>0, <1>3, TypingStops DEF SendMessage, TypeOK
  <1>4. ASSUME NEW t \in Timer, Fire(t) PROVE GatewayInv'
    <2>1. running[t] \in User
      BY <1>0, <1>4 DEF Fire, TypeOK
    <2> QED
      BY <1>0, <1>4, <2>1, TypingStops DEF Fire, TypeOK
  <1>5. ASSUME NEW r \in Req, Receive(r) \/ Step(r) PROVE GatewayInv'
    <2>1. CASE StopTyping(r)
      <3>1. req[r].s \in Socket /\ Owner[req[r].s] \in User
        BY <1>0 DEF TypeOK, Request
      <3>2. req' \in [Req -> Request]
        BY <1>0, <2>1, RequestType DEF StopTyping, Label
      <3> QED
        BY <2>1, <3>1, <3>2, TypingStops DEF StopTyping
    <2> QED
      BY <1>5, <2>1, LookupSteps, RoomSteps, TypingStarts DEF Step
  <1>6. CASE UNCHANGED vars
    BY <1>0, <1>6, SameTimers DEF vars, Timers, TypeOK
  <1> QED
    BY <1>1, <1>2, <1>3, <1>4, <1>5, <1>6 DEF Next

-----------------------------------------------------------------------------

\* The timers that run are the entries of typingTimeouts, one for an account at
\* most, and whoever is shown as typing to somebody else has one, or had one
\* that a disconnection cleared: for any number of accounts, sockets, events
\* handled at the same time and removals in between.
THEOREM TypingIsTimed == Spec => []Inv
  <1>1. GatewayInv => Inv
    BY DEF GatewayInv
  <1> QED
    BY InitInv, NextInv, <1>1, PTL DEF Spec

=============================================================================
