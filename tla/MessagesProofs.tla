--------------------------- MODULE MessagesProofs ---------------------------
(***************************************************************************)
(* Theorems about Messages that hold for any number of people, messages,   *)
(* edits and requests.                                                     *)
(***************************************************************************)
EXTENDS Messages, FiniteSetTheorems, WellFoundedInduction, TLAPS

USE MessagesAssumption

-----------------------------------------------------------------------------
(* The inductive invariant                                                 *)

\* Messages are numbered without a gap, the present is the number of the last,
\* and nobody has read further than that.
Dense == \E n \in Time : Created = 1..n
Marked == \A u \in User : row[u].lastReadAt <= Now
PinsExist == pin \subseteq Created

\* Which request stops where; a message that is named has been created.
RequestOK(q) ==
    /\ q.pc # "idle" => q.op \in {"create", "read"} \cup Editing \cup Pinning \cup Listing
    /\ q.pc # "idle" /\ q.op \in Editing \cup Pinning => q.m \in Created
    /\ q.pc \in {"insert", "mark"} => q.op = "create"
    /\ q.pc = "mark" => q.m \in Created
    /\ q.pc = "now" => q.op = "read" /\ q.m \in {0} \cup Created
    /\ q.pc = "message" => q.op \in Editing \cup Pinning
    /\ q.pc = "update" => q.op = "update"
    /\ q.pc \in {"unpinAll", "delete"} => q.op = "delete"
    /\ q.pc \in {"manager", "pin", "unpin", "again"} => q.op \in Pinning

\* A request that has run alone tells every member that it concerns what is
\* stored: the look-up, the count and the event may each still be to come.
Concerned(q, u) == Here(u) /\ (q.op = "read" => u = q.u)

AloneAt(q) ==
    q.alone /\ q.pc = "meta" /\ channel # "deleted" =>
        \A u \in User : Concerned(q, u) =>
            \/ q.tell[u] = "find"
            \/ q.tell[u] = "count" /\ q.found[u] = ChannelFor(u)
            \/ q.tell[u] = "emit" /\ q.found[u] = TrueMeta(u)
            \/ q.tell[u] = "no" /\ meta[u] = TrueMeta(u)

Alone ==
    \A r \in Req : req[r].alone =>
        \A s \in Req : s # r => At(s, "idle")

\* Of requests that do not overlap: what was found about the message, its pin
\* and the membership still holds at the write.
SerialAt(q) ==
    /\ q.pc \in {"update", "pin", "unpin", "again"} => Live(q.m)
    /\ q.pc = "pin" => q.m \notin pin
    /\ q.pc = "unpin" => q.m \in pin
    /\ q.pc \in {"mark", "delete"} => q.m \notin pin
    /\ q.pc \in {"insert", "mark", "now"} => row[q.u].id = q.id
    /\ q.pc = "now" => q.m = Now
    /\ q.pc = "mark" => /\ q.m = Now /\ Live(q.m)
                        /\ message[q.m].edits = 0

OneByOne == \A r, s \in Req : r # s => At(r, "idle") \/ At(s, "idle")

Serial == ~mix.overlap =>
              OneByOne /\ PinsAreLive /\ \A r \in Req : SerialAt(req[r])

\* If they are not cut off either, the events have told everything except what
\* the request under way is about to tell.
Pending(q) == IF q.pc \in {"mark", "again", "delete", "emit"} THEN {q.m} ELSE {}

RoomAt(q) ==
    /\ q.pc = "emit" => q.seen = TrueView(q.m)
    /\ q.pc \notin {"emit", "members", "meta"} => q.seen = NoView

Room == ~mix.overlap /\ ~mix.crash =>
            /\ \A m \in Msg : (\E r \in Req : m \in Pending(req[r])) \/ view[m] = TrueView(m)
            /\ \A r \in Req : RoomAt(req[r])

MessagesInv ==
    /\ TypeOK /\ PinsAreLive
    /\ Dense /\ Marked /\ PinsExist
    /\ \A r \in Req : RequestOK(req[r])
    /\ Alone /\ \A r \in Req : AloneAt(req[r])
    /\ Serial /\ Room

-----------------------------------------------------------------------------
(* Numbers of messages                                                     *)

LEMMA MsgFacts ==
  /\ Msg \in SUBSET Nat /\ IsFiniteSet(Msg) /\ Cardinality(Msg) = MaxMessage
  /\ Msg \subseteq Time /\ 0 \in Time
  <1>1. IsFiniteSet(1..MaxMessage) /\ Cardinality(1..MaxMessage) = MaxMessage
    BY FS_Interval
  <1> QED
    BY <1>1 DEF Msg, Time

LEMMA CountType ==
  ASSUME NEW S \in SUBSET Msg
  PROVE  Cardinality(S) \in Time
  <1>1. IsFiniteSet(S) /\ Cardinality(S) <= MaxMessage
    BY MsgFacts, FS_Subset
  <1>2. Cardinality(S) \in Nat
    BY <1>1, FS_CardinalityType
  <1> QED
    BY <1>1, <1>2 DEF Time

LEMMA LargestOf ==
  ASSUME NEW S \in SUBSET Msg, S # {}
  PROVE  \E m \in S : \A n \in S : n <= m
  <1> DEFINE T == {MaxMessage - m : m \in S}
             less == OpToRel(<, Nat)
  <1>1. T \subseteq Nat /\ T # {}
    <2>1. \A m \in S : m \in 1..MaxMessage
      BY DEF Msg
    <2>2. \A m \in S : MaxMessage - m \in Nat
      BY <2>1
    <2> QED
      BY <2>2
  <1>2. \A i, j \in Nat : i < j => <<i, j>> \in less
    BY DEF OpToRel
  <1> HIDE DEF less
  <1>3. IsWellFoundedOn(less, Nat)
    BY NatLessThanWellFounded DEF less
  <1>4. PICK x \in T : \A y \in T : ~(<<y, x>> \in less)
    BY <1>1, <1>3, WFMin
  <1>5. PICK m \in S : x = MaxMessage - m
    BY <1>4
  <1>6. ASSUME NEW n \in S
        PROVE  n <= m
    <2>1. MaxMessage - n \in T /\ MaxMessage - n \in Nat /\ x \in Nat
      BY <1>1, <1>4
    <2>2. ~(MaxMessage - n < x)
      BY <1>2, <1>4, <2>1
    <2>3. n \in Nat /\ m \in Nat
      BY MsgFacts
    <2> QED
      BY <1>5, <2>1, <2>2, <2>3
  <1> QED
    BY <1>6

LEMMA LastType == LastMessage \in Time /\ (LastMessage # 0 => LastMessage \in Msg)
  <1> DEFINE live == {m \in Msg : Live(m)}
  <1>1. CASE live = {}
    BY <1>1, MsgFacts DEF LastMessage
  <1>2. CASE live # {}
    <2>1. \E m \in live : \A n \in live : n <= m
      BY <1>2, LargestOf
    <2>2. LastMessage = CHOOSE m \in live : \A n \in live : n <= m
      BY <1>2 DEF LastMessage
    <2>3. LastMessage \in live
      BY <2>1, <2>2
    <2> QED
      BY <2>3, MsgFacts
  <1> QED
    BY <1>1, <1>2

\* What TLC counts, by the number of the last message.
LEMMA NowIs ==
  ASSUME NEW n \in Time, Created = 1..n
  PROVE  Now = n
  BY FS_Interval DEF Now, Time

LEMMA NowFacts ==
  ASSUME Dense
  PROVE  /\ Now \in Time /\ Created = 1..Now
         /\ \A m \in Created : m \in Msg /\ m <= Now
  <1>1. PICK n \in Time : Created = 1..n
    BY DEF Dense
  <1>2. Now = n
    BY <1>1, NowIs
  <1>3. \A m \in 1..n : m \in Msg /\ m <= n
    BY DEF Msg, Time
  <1> QED
    BY <1>1, <1>2, <1>3

-----------------------------------------------------------------------------
(* Types                                                                   *)

LEMMA ViewTypes ==
  /\ NoView \in View /\ NoView.event = "none" /\ NoView.edits = 0
  /\ NoView.isPinned = FALSE
  /\ NoMeta \in Meta
  BY MsgFacts DEF NoView, View, NoMeta, Meta

LEMMA BlankFacts ==
  /\ Blank \in Request /\ Blank.pc = "idle" /\ Blank.seen = NoView
  /\ Blank.alone = FALSE /\ SomeUser \in User
  <1>1. SomeUser \in User
    BY DEF SomeUser
  <1>2. /\ [u \in User |-> "no"] \in [User -> {"no", "find", "count", "emit"}]
        /\ [u \in User |-> NoMeta] \in [User -> Meta]
    BY ViewTypes
  <1> QED
    BY <1>1, <1>2, ViewTypes, MsgFacts
      DEF Blank, Request, Label, Operation, Listing

LEMMA MovedFacts ==
  ASSUME NEW q \in Request, NEW l \in Label
  PROVE  \E x \in Request :
           /\ x = [q EXCEPT !.pc = l] /\ x.pc = l
           /\ x.op = q.op /\ x.u = q.u /\ x.m = q.m /\ x.id = q.id
           /\ x.readOnly = q.readOnly /\ x.seen = q.seen /\ x.tell = q.tell
           /\ x.found = q.found /\ x.alone = q.alone
  <1> DEFINE x == [q EXCEPT !.pc = l]
  <1>1. /\ x \in Request /\ x.pc = l
        /\ x.op = q.op /\ x.u = q.u /\ x.m = q.m /\ x.id = q.id
        /\ x.readOnly = q.readOnly /\ x.seen = q.seen /\ x.tell = q.tell
        /\ x.found = q.found /\ x.alone = q.alone
    BY DEF Request
  <1> QED
    BY <1>1

LEMMA FoundTypes ==
  ASSUME TypeOK, NEW u \in User
  PROVE  /\ ChannelFor(u) \in Meta /\ ChannelFor(u).lastReadAt = row[u].lastReadAt
         /\ \A t \in Time : Unread(t) \in Time
         /\ TrueMeta(u) \in Meta
         /\ TrueMeta(u) = [ChannelFor(u) EXCEPT !.unreadCount = Unread(row[u].lastReadAt)]
  <1>1. row[u].lastReadAt \in Time
    BY DEF TypeOK, ChannelMember
  <1>2. LastMessage \in Time
        /\ (IF LastMessage = 0 THEN 0 ELSE message[LastMessage].edits) \in 0..MaxEdit
    BY LastType DEF TypeOK, Message
  <1>3. ChannelFor(u) \in Meta /\ ChannelFor(u).lastReadAt = row[u].lastReadAt
    BY <1>1, <1>2, MsgFacts DEF ChannelFor, Meta
  <1>4. \A t \in Time : Unread(t) \in Time
    BY CountType DEF Unread
  <1> QED
    BY <1>1, <1>3, <1>4 DEF TrueMeta, Meta

LEMMA ResponseType ==
  ASSUME TypeOK, NEW m \in Msg
  PROVE  /\ Response(m) \in View /\ Response(m).edits = message[m].edits
         /\ Response(m).event = "shown" /\ Response(m).isPinned = (m \in pin)
  BY DEF TypeOK, Message, Response, View

-----------------------------------------------------------------------------
(* Steps in general                                                        *)

LEMMA InitInv == Init => MessagesInv
  <1> SUFFICES ASSUME Init PROVE MessagesInv
    OBVIOUS
  <1>0. PICK i \in [User -> RowId] :
          row = [u \in User |->
                   IF u \notin mix.members THEN Absent
                   ELSE [id |-> i[u], lastReadAt |-> 0,
                         role |-> IF u = SomeUser THEN "ADMIN" ELSE "MEMBER"]]
    BY DEF Init
  <1>1. row \in [User -> ChannelMember] /\ \A u \in User : row[u].lastReadAt = 0
    BY <1>0, MsgFacts DEF ChannelMember, Absent
  <1>2. message \in [Msg -> Message] /\ \A m \in Msg : message[m].state = "none"
    BY BlankFacts DEF Init, Message
  <1>3. TypeOK
    BY <1>1, <1>2, BlankFacts, ViewTypes DEF Init, TypeOK, ChannelState
  <1>4. Created = {} /\ pin = {}
    BY <1>2 DEF Created, Init
  <1>5. Dense
    BY <1>4, MsgFacts DEF Dense
  <1>6. Now \in Time
    BY <1>5, NowFacts
  <1>7. Marked /\ PinsExist
    BY <1>1, <1>4, <1>6 DEF Marked, PinsExist, Time
  <1>8. \A r \in Req : RequestOK(req[r]) /\ AloneAt(req[r])
    BY BlankFacts DEF Init, RequestOK, AloneAt
  <1>9. Alone
    BY BlankFacts DEF Init, Alone
  <1>a. Serial /\ PinsAreLive
    BY <1>4, BlankFacts DEF Init, Serial, OneByOne, PinsAreLive, SerialAt, At
  <1>b. Room
    BY <1>2, BlankFacts DEF Init, Room, RoomAt, TrueView
  <1> QED
    BY <1>3, <1>5, <1>7, <1>8, <1>9, <1>a, <1>b DEF MessagesInv

\* A step of a request that is under way.
LEMMA StepInv ==
  ASSUME MessagesInv, NEW r \in Req, NEW q \in Request,
         req' = [req EXCEPT ![r] = q], mix' = mix, channel' = channel,
         ~At(r, "idle"), q.alone => req[r].alone,
         row' \in [User -> ChannelMember], message' \in [Msg -> Message],
         pin' \subseteq Msg, view' \in [Msg -> View], meta' \in [User -> Meta],
         Dense', Marked', PinsExist', Created \subseteq Created',
         RequestOK(q)', AloneAt(q)',
         ~mix.overlap => PinsAreLive' /\ SerialAt(q)',
         ~mix.overlap /\ ~mix.crash =>
             /\ \A m \in Msg : m \in Pending(q) \/ view'[m] = TrueView(m)'
             /\ RoomAt(q)'
  PROVE  MessagesInv'
  <1>0. /\ TypeOK /\ req'[r] = q
        /\ \A s \in Req : s # r => req'[s] = req[s]
    BY DEF MessagesInv, TypeOK
  <1>1. TypeOK'
    BY <1>0 DEF TypeOK
  <1>2. \A s \in Req : RequestOK(req[s])'
    BY <1>0 DEF MessagesInv, RequestOK
  <1>3. \A s \in Req : s # r => ~req[s].alone
    BY DEF MessagesInv, Alone
  <1>4. Alone'
    BY <1>0, <1>3 DEF MessagesInv, Alone, At
  <1>5. \A s \in Req : AloneAt(req[s])'
    BY <1>0, <1>3 DEF AloneAt
  <1>6. ~mix.overlap => \A s \in Req : s # r => req[s].pc = "idle"
    BY DEF MessagesInv, Serial, OneByOne, At
  <1>7. Serial' /\ PinsAreLive'
    <2>1. ~mix.overlap => OneByOne'
      BY <1>0, <1>6 DEF OneByOne, At
    <2>2. ~mix.overlap => \A s \in Req : SerialAt(req[s])'
      BY <1>0, <1>6 DEF SerialAt
    <2> QED
      BY <2>1, <2>2 DEF Serial, PinsAreLive
  <1>8. Room'
    <2> SUFFICES ASSUME ~mix.overlap, ~mix.crash
                 PROVE  /\ \A m \in Msg : (\E s \in Req : m \in Pending(req'[s]))
                                            \/ view'[m] = TrueView(m)'
                        /\ \A s \in Req : RoomAt(req[s])'
      BY DEF Room, Pending
    <2>1. \A m \in Msg : (\E s \in Req : m \in Pending(req'[s])) \/ view'[m] = TrueView(m)'
      BY <1>0
    <2>2. ASSUME NEW s \in Req PROVE RoomAt(req[s])'
      <3>1. CASE s = r
        BY <1>0, <3>1 DEF RoomAt
      <3>2. CASE s # r
        BY <1>0, <1>6, <3>2 DEF MessagesInv, Room, RoomAt
      <3> QED
        BY <3>1, <3>2
    <2> QED
      BY <2>1, <2>2
  <1> QED
    BY <1>1, <1>2, <1>4, <1>5, <1>7, <1>8 DEF MessagesInv

\* A step that only reads.
LEMMA LookStep ==
  ASSUME MessagesInv, NEW r \in Req, NEW q \in Request,
         req' = [req EXCEPT ![r] = q], UNCHANGED <<Stored, Told>>,
         ~At(r, "idle"), q.alone => req[r].alone,
         RequestOK(q), AloneAt(q),
         ~mix.overlap => SerialAt(q),
         ~mix.overlap /\ ~mix.crash => Pending(req[r]) \subseteq Pending(q) /\ RoomAt(q)
  PROVE  MessagesInv'
  <1>1. /\ mix' = mix /\ channel' = channel /\ row' = row /\ message' = message
        /\ pin' = pin /\ view' = view /\ meta' = meta
    BY DEF Stored, Told
  <1>2. TypeOK
    BY DEF MessagesInv
  <1>3. Dense' /\ Marked' /\ PinsExist' /\ Created \subseteq Created'
    BY <1>1 DEF MessagesInv, Dense, Marked, PinsExist, Created, Now
  <1>4. RequestOK(q)'
    BY <1>1 DEF RequestOK, Created
  <1>5. AloneAt(q)'
    BY <1>1 DEF AloneAt, Concerned, Here, TrueMeta, ChannelFor, Unread, LastMessage, Live
  <1>6. ~mix.overlap => PinsAreLive' /\ SerialAt(q)'
    BY <1>1 DEF MessagesInv, Serial, PinsAreLive, SerialAt, Live, Now, Created
  <1>7. \A m \in Msg : TrueView(m)' = TrueView(m)
    BY <1>1 DEF TrueView, Response
  <1>8. ASSUME ~mix.overlap, ~mix.crash
        PROVE  /\ \A m \in Msg : m \in Pending(q) \/ view'[m] = TrueView(m)'
               /\ RoomAt(q)'
    <2>1. \A s \in Req : s # r => Pending(req[s]) = {}
      BY <1>8 DEF MessagesInv, Serial, OneByOne, At, Pending
    <2>2. \A m \in Msg : m \in Pending(q) \/ view[m] = TrueView(m)
      BY <1>8, <2>1 DEF MessagesInv, Room
    <2>3. RoomAt(q)'
      BY <1>1, <1>8 DEF RoomAt, TrueView, Response
    <2> QED
      BY <1>1, <1>7, <2>2, <2>3
  <1> QED
    BY <1>1, <1>2, <1>3, <1>4, <1>5, <1>6, <1>8, StepInv DEF TypeOK

\* The end of a request that has nothing left to tell.
LEMMA EndStep ==
  ASSUME MessagesInv, NEW r \in Req, ~At(r, "idle"), End(r), UNCHANGED <<Stored, Told>>,
         ~mix.overlap /\ ~mix.crash => Pending(req[r]) = {}
  PROVE  MessagesInv'
  <1>1. /\ RequestOK(Blank) /\ AloneAt(Blank) /\ SerialAt(Blank) /\ RoomAt(Blank)
    BY BlankFacts DEF RequestOK, AloneAt, SerialAt, RoomAt
  <1>2. req' = [req EXCEPT ![r] = Blank]
    BY DEF End, Become
  <1> QED
    BY <1>1, <1>2, BlankFacts, LookStep

LEMMA ReadStep ==
  ASSUME MessagesInv, NEW r \in Req, NEW label, label # "idle", NEW ok \in BOOLEAN,
         NEW next, Read(r, label, ok, next),
         ok => /\ next \in Request /\ next.alone = req[r].alone
               /\ RequestOK(next) /\ AloneAt(next)
               /\ ~mix.overlap => SerialAt(next)
               /\ ~mix.overlap /\ ~mix.crash =>
                    Pending(req[r]) \subseteq Pending(next) /\ RoomAt(next),
         ~ok /\ ~mix.overlap /\ ~mix.crash => Pending(req[r]) = {}
  PROVE  MessagesInv'
  <1>1. ~At(r, "idle") /\ UNCHANGED <<Stored, Told>>
        /\ Become(r, IF ok THEN next ELSE Blank)
    BY DEF Read, At
  <1>2. CASE ok
    BY <1>1, <1>2, LookStep DEF Become
  <1>3. CASE ~ok
    BY <1>1, <1>3, EndStep DEF Become, End
  <1> QED
    BY <1>2, <1>3

-----------------------------------------------------------------------------
(* Arrivals and changes by others                                          *)

LEMMA AsideFacts ==
  ASSUME NEW q \in Request
  PROVE  \E x \in Request :
           /\ x = [q EXCEPT !.alone = FALSE] /\ x.pc = q.pc
           /\ x.op = q.op /\ x.u = q.u /\ x.m = q.m /\ x.id = q.id
           /\ x.readOnly = q.readOnly /\ x.seen = q.seen /\ x.tell = q.tell
           /\ x.found = q.found /\ x.alone = FALSE
  <1> DEFINE x == [q EXCEPT !.alone = FALSE]
  <1>1. /\ x \in Request /\ x.pc = q.pc
        /\ x.op = q.op /\ x.u = q.u /\ x.m = q.m /\ x.id = q.id
        /\ x.readOnly = q.readOnly /\ x.seen = q.seen /\ x.tell = q.tell
        /\ x.found = q.found /\ x.alone = FALSE
    BY DEF Request
  <1> QED
    BY <1>1

LEMMA ArriveStep ==
  ASSUME MessagesInv, NEW r \in Req, ChannelArrive(r) \/ MessageArrive(r)
  PROVE  MessagesInv'
  <1>1. PICK u \in User, m \in Created \cup {0},
             op \in {"create", "read"} \cup Listing \cup Editing \cup Pinning :
          /\ Arrive(r, op, u, m)
          /\ op \in Editing \cup Pinning => m \in Created
    <2>1. CASE ChannelArrive(r)
      BY <2>1 DEF ChannelArrive, Editing, Pinning, Listing
    <2>2. CASE MessageArrive(r)
      BY <2>2 DEF MessageArrive
    <2> QED
      BY <2>1, <2>2
  <1>2. /\ At(r, "idle") /\ (mix.overlap \/ Quiet)
        /\ req' = [s \in Req |->
                     IF s = r THEN [Blank EXCEPT !.pc = "channel", !.op = op, !.u = u,
                                                 !.m = m, !.alone = Quiet]
                              ELSE [req[s] EXCEPT !.alone = FALSE]]
        /\ mix' = mix /\ channel' = channel /\ row' = row /\ message' = message
        /\ pin' = pin /\ view' = view /\ meta' = meta
    BY <1>1 DEF Arrive, Stored, Told
  <1>3. TypeOK /\ Dense
    BY DEF MessagesInv
  <1>4. PICK q \in Request :
          /\ q = [Blank EXCEPT !.pc = "channel", !.op = op, !.u = u,
                               !.m = m, !.alone = Quiet]
          /\ q.pc = "channel" /\ q.op = op /\ q.m = m /\ q.alone = Quiet
          /\ q.seen = NoView
    <2>1. m \in Time /\ op \in Operation /\ Quiet \in BOOLEAN
      <3>1. m \in Time
        BY <1>3, NowFacts, MsgFacts
      <3>2. op \in Operation
        BY DEF Operation
      <3> QED
        BY <3>1, <3>2 DEF Quiet
    <2> DEFINE x == [Blank EXCEPT !.pc = "channel", !.op = op, !.u = u,
                                  !.m = m, !.alone = Quiet]
    <2>2. /\ x \in Request
          /\ x.pc = "channel" /\ x.op = op /\ x.m = m /\ x.alone = Quiet
          /\ x.seen = NoView
      BY <2>1, BlankFacts DEF Request, Label
    <2> QED
      BY <2>2
  <1>5. ASSUME NEW s \in Req
        PROVE  /\ req'[s] \in Request
               /\ s = r => req'[s] = q
               /\ s # r => /\ req'[s].pc = req[s].pc
                           /\ req'[s].op = req[s].op /\ req'[s].u = req[s].u
                           /\ req'[s].m = req[s].m /\ req'[s].id = req[s].id
                           /\ req'[s].seen = req[s].seen
                           /\ req'[s].alone = FALSE
    <2>1. CASE s = r
      BY <1>2, <1>4, <2>1
    <2>2. CASE s # r
      <3>1. req'[s] = [req[s] EXCEPT !.alone = FALSE] /\ req[s] \in Request
        BY <1>2, <1>3, <2>2 DEF TypeOK
      <3>2. PICK x \in Request :
              /\ x = [req[s] EXCEPT !.alone = FALSE] /\ x.pc = req[s].pc
              /\ x.op = req[s].op /\ x.u = req[s].u /\ x.m = req[s].m
              /\ x.id = req[s].id /\ x.seen = req[s].seen /\ x.alone = FALSE
        BY <3>1, AsideFacts
      <3> QED
        BY <2>2, <3>1, <3>2
    <2> QED
      BY <2>1, <2>2
  <1>6. TypeOK'
    <2>1. req' \in [Req -> Request]
      BY <1>2, <1>5
    <2> QED
      BY <1>2, <1>3, <2>1 DEF TypeOK
  <1>7. Dense' /\ Marked' /\ PinsExist' /\ Created' = Created
    BY <1>2 DEF MessagesInv, Dense, Marked, PinsExist, Created, Now
  <1>8. ASSUME NEW s \in Req
        PROVE  RequestOK(req[s])' /\ AloneAt(req[s])'
    <2>1. CASE s = r
      <3>1. RequestOK(q)
        BY <1>1, <1>4 DEF RequestOK
      <3> QED
        BY <1>4, <1>5, <1>7, <2>1, <3>1 DEF RequestOK, AloneAt
    <2>2. CASE s # r
      <3>1. RequestOK(req[s])
        BY DEF MessagesInv
      <3>2. RequestOK(req[s])'
        BY <1>5, <1>7, <2>2, <3>1 DEF RequestOK
      <3>3. AloneAt(req[s])'
        BY <1>5, <2>2 DEF AloneAt
      <3> QED
        BY <3>2, <3>3
    <2> QED
      BY <2>1, <2>2
  <1>9. Alone'
    BY <1>4, <1>5 DEF Alone, Quiet, At
  <1>a. Serial' /\ PinsAreLive'
    <2>1. ~mix.overlap => \A s \in Req : req[s].pc = "idle"
      BY <1>2 DEF Quiet, At
    <2>2. ~mix.overlap => OneByOne' /\ \A s \in Req : SerialAt(req[s])'
      BY <1>4, <1>5, <2>1 DEF OneByOne, SerialAt, At
    <2> QED
      BY <1>2, <2>2 DEF MessagesInv, Serial, PinsAreLive, Live
  <1>b. Room'
    <2> SUFFICES ASSUME ~mix.overlap, ~mix.crash
                 PROVE  /\ \A n \in Msg : view[n] = TrueView(n)'
                        /\ \A s \in Req : RoomAt(req[s])'
      BY <1>2 DEF Room
    <2>1. \A s \in Req : req[s].pc = "idle"
      BY <1>2 DEF Quiet, At
    <2>2. \A n \in Msg : view[n] = TrueView(n) /\ TrueView(n)' = TrueView(n)
      BY <1>2, <2>1 DEF MessagesInv, Room, Pending, TrueView, Response
    <2>3. \A s \in Req : RoomAt(req[s])'
      BY <1>4, <1>5, <2>1 DEF MessagesInv, Room, RoomAt
    <2> QED
      BY <2>2, <2>3
  <1> QED
    BY <1>6, <1>7, <1>8, <1>9, <1>a, <1>b DEF MessagesInv

LEMMA MeanwhileStep ==
  ASSUME MessagesInv, Meanwhile, UNCHANGED <<mix, message, pin, view, meta>>,
         channel' \in ChannelState, row' \in [User -> ChannelMember], Marked'
  PROVE  MessagesInv'
  <1>1. mix.overlap \/ Quiet
    BY DEF Meanwhile
  <1>2. TypeOK /\ Dense
    BY DEF MessagesInv
  <1>3. ASSUME NEW s \in Req
        PROVE  /\ req'[s] \in Request
               /\ req'[s].pc = req[s].pc
               /\ req'[s].op = req[s].op /\ req'[s].u = req[s].u
               /\ req'[s].m = req[s].m /\ req'[s].id = req[s].id
               /\ req'[s].seen = req[s].seen
               /\ req'[s].alone = FALSE
    <2>1. req'[s] = [req[s] EXCEPT !.alone = FALSE] /\ req[s] \in Request
      BY <1>2 DEF Meanwhile, TypeOK
    <2>2. PICK x \in Request :
            /\ x = [req[s] EXCEPT !.alone = FALSE] /\ x.pc = req[s].pc
            /\ x.op = req[s].op /\ x.u = req[s].u /\ x.m = req[s].m
            /\ x.id = req[s].id /\ x.seen = req[s].seen /\ x.alone = FALSE
      BY <2>1, AsideFacts
    <2> QED
      BY <2>1, <2>2
  <1>4. TypeOK'
    <2>1. req' \in [Req -> Request]
      BY <1>3 DEF Meanwhile
    <2> QED
      BY <1>2, <2>1 DEF TypeOK
  <1>5. Dense' /\ PinsExist' /\ Created' = Created
    BY DEF MessagesInv, Dense, PinsExist, Created
  <1>6. \A s \in Req : RequestOK(req[s])' /\ AloneAt(req[s])'
    <2> SUFFICES ASSUME NEW s \in Req PROVE RequestOK(req[s])' /\ AloneAt(req[s])'
      OBVIOUS
    <2>1. RequestOK(req[s])
      BY DEF MessagesInv
    <2>2. RequestOK(req[s])'
      BY <1>3, <1>5, <2>1 DEF RequestOK
    <2>3. AloneAt(req[s])'
      BY <1>3 DEF AloneAt
    <2> QED
      BY <2>2, <2>3
  <1>7. Alone'
    BY <1>3 DEF Alone
  <1>8. Serial' /\ PinsAreLive'
    <2>1. ~mix.overlap => \A s \in Req : req[s].pc = "idle"
      BY <1>1 DEF Quiet, At
    <2>2. ~mix.overlap => OneByOne' /\ \A s \in Req : SerialAt(req[s])'
      BY <1>3, <2>1 DEF OneByOne, SerialAt, At
    <2> QED
      BY <2>2 DEF MessagesInv, Serial, PinsAreLive, Live
  <1>9. Room'
    <2> SUFFICES ASSUME ~mix.overlap, ~mix.crash
                 PROVE  /\ \A n \in Msg : view[n] = TrueView(n)'
                        /\ \A s \in Req : RoomAt(req[s])'
      BY DEF Room
    <2>1. \A s \in Req : req[s].pc = "idle"
      BY <1>1 DEF Quiet, At
    <2>2. \A n \in Msg : view[n] = TrueView(n) /\ TrueView(n)' = TrueView(n)
      BY <2>1 DEF MessagesInv, Room, Pending, TrueView, Response
    <2>3. \A s \in Req : RoomAt(req[s])'
      BY <1>3, <2>1 DEF MessagesInv, Room, RoomAt
    <2> QED
      BY <2>2, <2>3
  <1> QED
    BY <1>4, <1>5, <1>6, <1>7, <1>8, <1>9 DEF MessagesInv

LEMMA OutsideStep ==
  ASSUME MessagesInv, ChangeChannel \/ ChangeMember
  PROVE  MessagesInv'
  <1>0. TypeOK /\ Dense /\ Marked
    BY DEF MessagesInv
  <1>1. CASE ChangeChannel
    BY <1>0, <1>1, MeanwhileStep
      DEF ChangeChannel, TypeOK, Told, Marked, Now, Created
  <1>2. CASE ChangeMember
    <2>1. /\ Meanwhile /\ UNCHANGED <<mix, channel, message, pin, view, meta>>
          /\ \E u \in User : Join(u) \/ Leave(u)
      BY <1>2 DEF ChangeMember, Told
    <2>2. Now' = Now /\ Now \in Nat
      BY <1>0, <2>1, NowFacts DEF Now, Created, Time
    <2>3. ASSUME NEW u \in User, NEW value \in ChannelMember, value.lastReadAt = 0,
                 row' = [row EXCEPT ![u] = value]
          PROVE  MessagesInv'
      <3>1. row' \in [User -> ChannelMember]
        BY <1>0, <2>3 DEF TypeOK
      <3>2. Marked'
        BY <1>0, <2>2, <2>3 DEF Marked, TypeOK
      <3> QED
        BY <1>0, <2>1, <3>1, <3>2, MeanwhileStep DEF TypeOK
    <2>4. ASSUME NEW u \in User, Join(u)
          PROVE  MessagesInv'
      <3>1. PICK i \in RowId, role \in {"ADMIN", "MEMBER"} :
              row' = [row EXCEPT ![u] = [id |-> i, role |-> role, lastReadAt |-> 0]]
        BY <2>4 DEF Join
      <3>2. /\ [id |-> i, role |-> role, lastReadAt |-> 0] \in ChannelMember
            /\ [id |-> i, role |-> role, lastReadAt |-> 0].lastReadAt = 0
        BY MsgFacts DEF ChannelMember
      <3> QED
        BY <2>3, <3>1, <3>2
    <2>5. ASSUME NEW u \in User, Leave(u)
          PROVE  MessagesInv'
      <3>1. Absent \in ChannelMember /\ Absent.lastReadAt = 0
        BY MsgFacts DEF ChannelMember, Absent
      <3> QED
        BY <2>3, <2>5, <3>1 DEF Leave
    <2> QED
      BY <2>1, <2>4, <2>5
  <1> QED
    BY <1>1, <1>2

-----------------------------------------------------------------------------
(* Look-ups                                                                *)

\* What is known of a request at its next step.
LEMMA AtStep ==
  ASSUME MessagesInv, NEW r \in Req, NEW q, q = req[r]
  PROVE  /\ TypeOK /\ q \in Request /\ RequestOK(q) /\ AloneAt(q)
         /\ ~mix.overlap => SerialAt(q)
         /\ ~mix.overlap /\ ~mix.crash => RoomAt(q)
  BY DEF MessagesInv, TypeOK, Serial, Room

LEMMA FindChannelStep ==
  ASSUME MessagesInv, NEW r \in Req, FindChannel(r)
  PROVE  MessagesInv'
  <1>1. PICK q : q = req[r]
    OBVIOUS
  <1> DEFINE ok == channel # "deleted" /\ (channel = "archived" => q.op = "read")
             readOnly == channel = "readOnly"
             next == [q EXCEPT !.pc = "member", !.readOnly = readOnly]
  <1>2. Read(r, "channel", ok, next) /\ q.pc = "channel"
    BY <1>1 DEF FindChannel, Read, At
  <1>3. /\ q \in Request /\ RequestOK(q)
        /\ ~mix.overlap /\ ~mix.crash => RoomAt(q)
    BY <1>1, AtStep
  <1>4. /\ next \in Request /\ next.pc = "member" /\ next.op = q.op
        /\ next.m = q.m /\ next.seen = q.seen /\ next.alone = q.alone
    BY <1>3 DEF Request, Label
  <1>5. ok \in BOOLEAN
    OBVIOUS
  <1> HIDE DEF next, ok
  <1>6. RequestOK(next) /\ AloneAt(next) /\ SerialAt(next)
    BY <1>2, <1>3, <1>4 DEF RequestOK, AloneAt, SerialAt
  <1>7. ~mix.overlap /\ ~mix.crash => RoomAt(next)
    BY <1>2, <1>3, <1>4 DEF RoomAt
  <1>8. Pending(req[r]) = {}
    BY <1>1, <1>2 DEF Pending
  <1> QED
    BY <1>1, <1>2, <1>4, <1>5, <1>6, <1>7, <1>8, ReadStep

LEMMA FindMemberStep ==
  ASSUME MessagesInv, NEW r \in Req, FindMember(r)
  PROVE  MessagesInv'
  <1>1. PICK q : q = req[r]
    OBVIOUS
  <1> DEFINE ok == /\ Here(q.u)
                   /\ q.op = "create" /\ q.readOnly => row[q.u].role = "ADMIN"
             label == CASE q.op = "create" -> "insert"
                        [] q.op = "read" -> "now"
                        [] q.op \in Listing -> "list"
                        [] q.op \in Pinning -> "manager"
                        [] OTHER -> "message"
             time == IF q.op = "read" THEN Now ELSE q.m
             next == [q EXCEPT !.id = row[q.u].id, !.m = time, !.pc = label]
  <1>2. Read(r, "member", ok, next) /\ q.pc = "member"
    BY <1>1 DEF FindMember, Read, At
  <1>3. /\ TypeOK /\ q \in Request /\ RequestOK(q)
        /\ ~mix.overlap /\ ~mix.crash => RoomAt(q)
    BY <1>1, AtStep
  <1>4. q.op \in {"create", "read"} \cup Editing \cup Pinning \cup Listing
    BY <1>2, <1>3 DEF RequestOK
  <1>5. /\ label \in {"insert", "now", "list", "manager", "message"}
        /\ label = "insert" => q.op = "create"
        /\ label = "now" => q.op = "read"
        /\ label = "manager" => q.op \in Pinning
        /\ label = "message" => q.op \in Editing \cup Pinning
    BY <1>4 DEF Editing, Pinning, Listing
  <1>6. q.u \in User /\ row[q.u].id \in RowId \cup {None}
    BY <1>3 DEF TypeOK, ChannelMember, Request
  <1>7. PICK l \in Label : l = label
    BY <1>5 DEF Label
  <1>t. PICK t \in Time : /\ t = time
                          /\ q.op = "read" => t = Now /\ t \in {0} \cup Created
                          /\ q.op # "read" => t = q.m
    <2>1. Now \in Time /\ Created = 1..Now /\ q.m \in Time
      BY <1>3, NowFacts DEF MessagesInv, Request
    <2>2. Now \in {0} \cup Created
      BY <2>1 DEF Time
    <2> QED
      BY <2>1, <2>2
  <1> HIDE DEF label, time
  <1>8. /\ next \in Request /\ next.pc = l /\ next.op = q.op /\ next.u = q.u
        /\ next.m = t /\ next.seen = q.seen /\ next.alone = q.alone
        /\ next.id = row[q.u].id
    BY <1>3, <1>6, <1>7, <1>t DEF Request
  <1>9. ok \in BOOLEAN
    OBVIOUS
  <1> HIDE DEF next, ok
  <1>a. RequestOK(next) /\ AloneAt(next) /\ SerialAt(next)
    <2>1. RequestOK(next)
      BY <1>2, <1>3, <1>5, <1>7, <1>8, <1>t DEF RequestOK, Editing, Pinning
    <2>2. AloneAt(next) /\ SerialAt(next)
      BY <1>5, <1>7, <1>8, <1>t DEF AloneAt, SerialAt
    <2> QED
      BY <2>1, <2>2
  <1>b. ~mix.overlap /\ ~mix.crash => RoomAt(next)
    BY <1>2, <1>3, <1>5, <1>7, <1>8 DEF RoomAt
  <1>c. Pending(req[r]) = {}
    BY <1>1, <1>2 DEF Pending
  <1> QED
    BY <1>1, <1>2, <1>8, <1>9, <1>a, <1>b, <1>c, ReadStep

LEMMA FindManagerStep ==
  ASSUME MessagesInv, NEW r \in Req, FindManager(r)
  PROVE  MessagesInv'
  <1>1. PICK q : q = req[r]
    OBVIOUS
  <1> DEFINE ok == q.u \in Manager
  <1>2. Read(r, "manager", ok, [q EXCEPT !.pc = "message"]) /\ q.pc = "manager"
    BY <1>1 DEF FindManager, Read, At
  <1>3. /\ q \in Request /\ RequestOK(q)
        /\ ~mix.overlap /\ ~mix.crash => RoomAt(q)
    BY <1>1, AtStep
  <1>4. PICK next \in Request :
          /\ next = [q EXCEPT !.pc = "message"] /\ next.pc = "message"
          /\ next.op = q.op /\ next.m = q.m /\ next.seen = q.seen /\ next.alone = q.alone
    BY <1>3, MovedFacts DEF Label
  <1>5. ok \in BOOLEAN
    OBVIOUS
  <1> HIDE DEF ok
  <1>6. RequestOK(next) /\ AloneAt(next) /\ SerialAt(next)
    BY <1>2, <1>3, <1>4 DEF RequestOK, AloneAt, SerialAt
  <1>7. ~mix.overlap /\ ~mix.crash => RoomAt(next)
    BY <1>2, <1>3, <1>4 DEF RoomAt
  <1>8. Pending(req[r]) = {}
    BY <1>1, <1>2 DEF Pending
  <1> QED
    BY <1>1, <1>2, <1>4, <1>5, <1>6, <1>7, <1>8, ReadStep

LEMMA FindMessageStep ==
  ASSUME MessagesInv, NEW r \in Req, FindMessage(r)
  PROVE  MessagesInv'
  <1>1. PICK q : q = req[r]
    OBVIOUS
  <1> DEFINE pinned == q.m \in pin
             ok == /\ Live(q.m)
                   /\ q.op \in Editing => message[q.m].sender = q.u
             label == CASE q.op = "update" -> "update"
                        [] q.op = "delete" -> "unpinAll"
                        [] q.op = "pin" -> IF pinned THEN "again" ELSE "pin"
                        [] q.op = "unpin" -> IF pinned THEN "unpin" ELSE "again"
  <1>2. Read(r, "message", ok, [q EXCEPT !.pc = label]) /\ q.pc = "message"
    BY <1>1 DEF FindMessage, Read, At
  <1>3. /\ q \in Request /\ RequestOK(q)
        /\ ~mix.overlap /\ ~mix.crash => RoomAt(q)
    BY <1>1, AtStep
  <1>4. q.op \in {"update", "delete", "pin", "unpin"}
    BY <1>2, <1>3 DEF RequestOK, Editing, Pinning
  <1>5. /\ label \in {"update", "unpinAll", "again", "pin", "unpin"}
        /\ label = "update" => q.op = "update"
        /\ label = "unpinAll" => q.op = "delete"
        /\ label \in {"again", "pin", "unpin"} => q.op \in Pinning
        /\ label = "pin" => ~pinned
        /\ label = "unpin" => pinned
    BY <1>4 DEF Pinning
  <1>6. PICK l \in Label : l = label
    BY <1>5 DEF Label
  <1>7. PICK next \in Request :
          /\ next = [q EXCEPT !.pc = l] /\ next.pc = l
          /\ next.op = q.op /\ next.m = q.m /\ next.seen = q.seen /\ next.alone = q.alone
    BY <1>3, MovedFacts
  <1>8. ok \in BOOLEAN /\ (ok => Live(q.m))
    OBVIOUS
  <1>9. Read(r, "message", ok, next)
    BY <1>2, <1>6, <1>7
  <1> HIDE DEF ok, label, pinned
  <1>a. RequestOK(next) /\ AloneAt(next)
    BY <1>2, <1>3, <1>5, <1>6, <1>7 DEF RequestOK, AloneAt
  <1>b. ok => SerialAt(next)
    BY <1>5, <1>6, <1>7, <1>8 DEF SerialAt, pinned
  <1>c. ~mix.overlap /\ ~mix.crash => RoomAt(next)
    BY <1>2, <1>3, <1>5, <1>6, <1>7 DEF RoomAt
  <1>d. Pending(req[r]) = {}
    BY <1>1, <1>2 DEF Pending
  <1> QED
    BY <1>1, <1>7, <1>8, <1>9, <1>a, <1>b, <1>c, <1>d, ReadStep

LEMMA FindAgainStep ==
  ASSUME MessagesInv, NEW r \in Req, FindAgain(r)
  PROVE  MessagesInv'
  <1>1. PICK q : q = req[r]
    OBVIOUS
  <1> DEFINE ok == Live(q.m)
             next == [q EXCEPT !.pc = "emit", !.seen = Response(q.m)]
  <1>2. Read(r, "again", ok, next) /\ q.pc = "again"
    BY <1>1 DEF FindAgain, Read, At
  <1>3. /\ TypeOK /\ q \in Request /\ RequestOK(q)
        /\ ~mix.overlap => SerialAt(q)
    BY <1>1, AtStep
  <1>4. q.m \in Msg /\ Response(q.m) \in View
    <2>1. q.m \in Created
      BY <1>2, <1>3 DEF RequestOK
    <2> QED
      BY <1>3, <2>1, ResponseType DEF Created
  <1>5. /\ next \in Request /\ next.pc = "emit" /\ next.op = q.op
        /\ next.m = q.m /\ next.seen = Response(q.m) /\ next.alone = q.alone
    BY <1>3, <1>4 DEF Request, Label
  <1>6. ok \in BOOLEAN
    BY DEF Live
  <1> HIDE DEF next
  <1>7. RequestOK(next) /\ AloneAt(next) /\ SerialAt(next)
    BY <1>2, <1>3, <1>5 DEF RequestOK, AloneAt, SerialAt
  <1>8. ~mix.overlap => ok
    BY <1>2, <1>3 DEF SerialAt
  <1>9. ok => RoomAt(next)
    BY <1>5 DEF RoomAt, TrueView, Live
  <1>a. Pending(req[r]) = Pending(next)
    BY <1>1, <1>2, <1>5 DEF Pending
  <1> HIDE DEF ok
  <1> QED
    BY <1>1, <1>2, <1>5, <1>6, <1>7, <1>8, <1>9, <1>a, ReadStep

\* The steps with which a request ends.
LEMMA EndSteps ==
  ASSUME MessagesInv, NEW r \in Req, List(r) \/ Answer(r) \/ Crash(r)
  PROVE  MessagesInv'
  <1>1. ~At(r, "idle") /\ UNCHANGED <<Stored, Told>> /\ End(r)
    BY DEF List, Answer, Crash, Read, At, End
  <1>2. mix.crash \/ Pending(req[r]) = {}
    BY DEF List, Answer, Crash, Read, At, Pending
  <1> QED
    BY <1>1, <1>2, EndStep

-----------------------------------------------------------------------------
(* Telling the members                                                     *)

LEMMA FindMembersStep ==
  ASSUME MessagesInv, NEW r \in Req, FindMembers(r)
  PROVE  MessagesInv'
  <1>1. PICK q : q = req[r]
    OBVIOUS
  <1> DEFINE tell == [u \in User |-> IF Here(u) THEN "find" ELSE "no"]
             next == [q EXCEPT !.pc = "meta", !.tell = tell]
  <1>2. Read(r, "members", TRUE, next) /\ q.pc = "members"
    BY <1>1 DEF FindMembers, Read, At
  <1>3. q \in Request /\ RequestOK(q)
    BY <1>1, AtStep
  <1>4. tell \in [User -> {"no", "find", "count", "emit"}]
    OBVIOUS
  <1>5. /\ next \in Request /\ next.pc = "meta" /\ next.op = q.op
        /\ next.m = q.m /\ next.alone = q.alone /\ next.tell = tell
    BY <1>3, <1>4 DEF Request, Label
  <1> HIDE DEF next
  <1>6. RequestOK(next) /\ SerialAt(next) /\ RoomAt(next)
    BY <1>2, <1>3, <1>5 DEF RequestOK, SerialAt, RoomAt
  <1>7. AloneAt(next)
    BY <1>5 DEF AloneAt, Concerned
  <1>8. Pending(req[r]) = {}
    BY <1>1, <1>2 DEF Pending
  <1> QED
    BY <1>1, <1>2, <1>5, <1>6, <1>7, <1>8, ReadStep

\* A look-up of the payload of one member.
LEMMA TellStep ==
  ASSUME MessagesInv, NEW r \in Req, NEW next \in Request, NEW u \in User,
         Read(r, "meta", TRUE, next),
         next.pc = "meta", next.op = req[r].op, next.m = req[r].m,
         next.u = req[r].u,
         next.alone = req[r].alone,
         \A v \in User : v # u => /\ next.tell[v] = req[r].tell[v]
                                  /\ next.found[v] = req[r].found[v],
         Concerned(next, u) /\ channel # "deleted" /\ AloneAt(req[r]) /\ req[r].alone =>
            \/ next.tell[u] = "find"
            \/ next.tell[u] = "count" /\ next.found[u] = ChannelFor(u)
            \/ next.tell[u] = "emit" /\ next.found[u] = TrueMeta(u)
  PROVE  MessagesInv'
  <1>1. req[r].pc = "meta"
    BY DEF Read, At
  <1>2. RequestOK(req[r]) /\ AloneAt(req[r])
    BY AtStep
  <1>3. RequestOK(next) /\ SerialAt(next) /\ RoomAt(next)
    BY <1>1, <1>2 DEF RequestOK, SerialAt, RoomAt
  <1>4. AloneAt(next)
    <2> SUFFICES ASSUME next.alone, channel # "deleted",
                        NEW v \in User, Concerned(next, v)
                 PROVE  \/ next.tell[v] = "find"
                        \/ next.tell[v] = "count" /\ next.found[v] = ChannelFor(v)
                        \/ next.tell[v] = "emit" /\ next.found[v] = TrueMeta(v)
                        \/ next.tell[v] = "no" /\ meta[v] = TrueMeta(v)
      BY DEF AloneAt
    <2>1. CASE v = u
      BY <1>2, <2>1
    <2>2. CASE v # u
      <3>1. Concerned(req[r], v) /\ req[r].alone
        BY DEF Concerned
      <3> QED
        BY <1>1, <1>2, <2>2, <3>1 DEF AloneAt
    <2> QED
      BY <2>1, <2>2
  <1>5. Pending(req[r]) = {}
    BY <1>1 DEF Pending
  <1> QED
    BY <1>3, <1>4, <1>5, ReadStep

LEMMA FindMetaStep ==
  ASSUME MessagesInv, NEW r \in Req, NEW u \in User, FindMeta(r, u)
  PROVE  MessagesInv'
  <1>1. PICK q : q = req[r]
    OBVIOUS
  <1>2. TypeOK /\ q \in Request /\ q.pc = "meta"
    BY <1>1, AtStep DEF FindMeta, Read, At
  <1>3. CASE channel = "deleted"
    <2> DEFINE next == [q EXCEPT !.tell[u] = "no"]
    <2>1. Read(r, "meta", TRUE, next)
      BY <1>1, <1>3 DEF FindMeta
    <2>2. /\ next \in Request /\ next.pc = "meta" /\ next.op = q.op /\ next.m = q.m
          /\ next.u = q.u
          /\ next.alone = q.alone
          /\ \A v \in User : v # u => /\ next.tell[v] = q.tell[v]
                                      /\ next.found[v] = q.found[v]
      BY <1>2 DEF Request
    <2> HIDE DEF next
    <2> QED
      BY <1>1, <1>3, <2>1, <2>2, TellStep
  <1>4. CASE channel # "deleted"
    <2>1. PICK t \in {"count", "emit"} : t = IF Here(u) THEN "count" ELSE "emit"
      OBVIOUS
    <2>2. PICK p \in Meta : p = ChannelFor(u)
      BY <1>2, FoundTypes
    <2> DEFINE next == [q EXCEPT !.tell[u] = t, !.found[u] = p]
    <2>3. Read(r, "meta", TRUE, next)
      BY <1>1, <1>4, <2>1, <2>2 DEF FindMeta
    <2>4. /\ next \in Request /\ next.pc = "meta" /\ next.op = q.op /\ next.m = q.m
          /\ next.u = q.u
          /\ next.alone = q.alone /\ next.tell[u] = t /\ next.found[u] = p
          /\ \A v \in User : v # u => /\ next.tell[v] = q.tell[v]
                                      /\ next.found[v] = q.found[v]
      BY <1>2 DEF Request
    <2> HIDE DEF next
    <2>5. Concerned(next, u) =>
            next.tell[u] = "count" /\ next.found[u] = ChannelFor(u)
      BY <2>1, <2>2, <2>4 DEF Concerned
    <2>6. /\ next.op = req[r].op /\ next.m = req[r].m /\ next.u = req[r].u
          /\ next.alone = req[r].alone
          /\ \A v \in User : v # u => /\ next.tell[v] = req[r].tell[v]
                                      /\ next.found[v] = req[r].found[v]
      BY <1>1, <2>4
    <2> QED
      BY <2>3, <2>4, <2>5, <2>6, TellStep
  <1> QED
    BY <1>3, <1>4

LEMMA CountUnreadStep ==
  ASSUME MessagesInv, NEW r \in Req, NEW u \in User, CountUnread(r, u)
  PROVE  MessagesInv'
  <1>1. PICK q : q = req[r]
    OBVIOUS
  <1>2. TypeOK /\ q \in Request /\ q.pc = "meta" /\ q.tell[u] = "count"
    BY <1>1, AtStep DEF CountUnread, Read, At
  <1>3. q.found[u] \in Meta /\ q.found[u].lastReadAt \in Time
    BY <1>2 DEF Request, Meta
  <1>4. PICK n \in Time : n = Unread(q.found[u].lastReadAt)
    BY <1>2, <1>3, FoundTypes
  <1>5. PICK p \in Meta : p = [q.found[u] EXCEPT !.unreadCount = n]
    BY <1>3 DEF Meta
  <1> DEFINE next == [q EXCEPT !.tell[u] = "emit", !.found[u] = p]
  <1>6. Read(r, "meta", TRUE, next)
    <2>1. [q EXCEPT !.tell[u] = "emit", !.found[u].unreadCount = n] = next
      BY <1>2, <1>5 DEF Request
    <2> QED
      BY <1>1, <1>4, <2>1 DEF CountUnread
  <1>7. /\ next \in Request /\ next.pc = "meta" /\ next.op = q.op /\ next.m = q.m
          /\ next.u = q.u
        /\ next.alone = q.alone /\ next.tell[u] = "emit" /\ next.found[u] = p
        /\ \A v \in User : v # u => /\ next.tell[v] = q.tell[v]
                                    /\ next.found[v] = q.found[v]
    BY <1>2 DEF Request
  <1> HIDE DEF next
  <1>8. Concerned(next, u) /\ channel # "deleted" /\ AloneAt(q) /\ q.alone
          => next.found[u] = TrueMeta(u)
    <2> SUFFICES ASSUME Concerned(next, u), channel # "deleted", AloneAt(q), q.alone
                 PROVE  p = TrueMeta(u)
      BY <1>7
    <2>1. Concerned(q, u)
      BY <1>7 DEF Concerned
    <2>2. q.found[u] = ChannelFor(u)
      BY <1>2, <2>1 DEF AloneAt
    <2> QED
      BY <1>2, <1>4, <1>5, <2>2, FoundTypes
  <1> QED
    BY <1>1, <1>6, <1>7, <1>8, TellStep

-----------------------------------------------------------------------------
(* Writes to the messages                                                  *)

LEMMA InsertStep ==
  ASSUME MessagesInv, NEW r \in Req, InsertMessage(r)
  PROVE  MessagesInv'
  <1>1. PICK q, m : q = req[r] /\ m = Now + 1
    OBVIOUS
  <1> DEFINE v == [state |-> "live", sender |-> q.u, edits |-> 0]
  <1>2. /\ q.pc = "insert" /\ ~At(r, "idle") /\ m <= MaxMessage
        /\ message' = [message EXCEPT ![m] = v]
        /\ req' = [req EXCEPT ![r] = [q EXCEPT !.pc = "mark", !.m = m]]
        /\ UNCHANGED <<mix, channel, row, pin, view, meta>>
    BY <1>1 DEF InsertMessage, SetMessage, Become, Told, At
  <1>3. /\ TypeOK /\ q \in Request /\ RequestOK(q)
        /\ ~mix.overlap => SerialAt(q)
        /\ ~mix.overlap /\ ~mix.crash => RoomAt(q)
    BY <1>1, AtStep
  <1>4. /\ Now \in Time /\ Created = 1..Now /\ m \in Msg /\ m \in Time /\ m \notin Created
    <2>1. Now \in Time /\ Created = 1..Now
      BY NowFacts DEF MessagesInv
    <2> QED
      BY <1>1, <1>2, <2>1 DEF Msg, Time
  <1>5. v \in Message /\ v.state = "live" /\ v.edits = 0
    BY <1>3 DEF Message, Request
  <1> HIDE DEF v
  <1>6. /\ message' \in [Msg -> Message] /\ message'[m] = v
        /\ \A n \in Msg : n # m => message'[n] = message[n]
    BY <1>2, <1>3, <1>4, <1>5 DEF TypeOK
  <1>7. Created' = 1..m
    <2>1. \A n \in Msg : n \in Created' <=> n \in Created \/ n = m
      BY <1>5, <1>6 DEF Created
    <2>2. \A n : n \in 1..m <=> n \in 1..Now \/ n = m
      BY <1>1, <1>4 DEF Time
    <2>3. Created' \subseteq Msg /\ 1..m \subseteq Msg
      BY <1>2, <1>4 DEF Created, Msg
    <2> QED
      BY <1>4, <2>1, <2>2, <2>3
  <1>8. Now' = m
    <2>1. Cardinality(1..m) = m
      BY <1>4, FS_Interval DEF Msg
    <2> QED
      BY <1>7, <2>1 DEF Now
  <1>9. Dense' /\ Created \subseteq Created'
    BY <1>1, <1>4, <1>7 DEF Dense, Time
  <1>a. Marked'
    <2>1. \A u \in User : row[u].lastReadAt \in Nat /\ row[u].lastReadAt <= Now
      BY <1>3 DEF TypeOK, ChannelMember, Time, MessagesInv, Marked
    <2> QED
      BY <1>1, <1>2, <1>4, <1>8, <2>1 DEF Marked, Time
  <1>b. PinsExist' /\ m \notin pin
    BY <1>2, <1>4, <1>9 DEF MessagesInv, PinsExist
  <1>c. PICK next \in Request :
          /\ next = [q EXCEPT !.pc = "mark", !.m = m]
          /\ next.pc = "mark" /\ next.m = m /\ next.op = q.op /\ next.u = q.u
          /\ next.id = q.id /\ next.seen = q.seen /\ next.alone = q.alone
    <2> DEFINE x == [q EXCEPT !.pc = "mark", !.m = m]
    <2>1. /\ x \in Request /\ x.pc = "mark" /\ x.m = m /\ x.op = q.op /\ x.u = q.u
          /\ x.id = q.id /\ x.seen = q.seen /\ x.alone = q.alone
      BY <1>3, <1>4 DEF Request, Label
    <2> QED
      BY <2>1
  <1>d. RequestOK(next)' /\ AloneAt(next)'
    <2>1. next.op = "create" /\ next.m \in 1..m
      BY <1>2, <1>3, <1>4, <1>c DEF RequestOK, Msg
    <2> QED
      BY <1>7, <1>c, <2>1 DEF RequestOK, AloneAt, Editing, Pinning
  <1>e. ASSUME ~mix.overlap
        PROVE  PinsAreLive' /\ SerialAt(next)'
    <2>1. PinsAreLive'
      BY <1>2, <1>4, <1>5, <1>6, <1>b, <1>e DEF MessagesInv, Serial, PinsAreLive, Live
    <2>2. SerialAt(next)'
      BY <1>2, <1>3, <1>4, <1>5, <1>6, <1>8, <1>b, <1>c, <1>e DEF SerialAt, Live
    <2> QED
      BY <2>1, <2>2
  <1>f. ASSUME ~mix.overlap, ~mix.crash
        PROVE  /\ \A n \in Msg : n \in Pending(next) \/ view'[n] = TrueView(n)'
               /\ RoomAt(next)'
    <2>1. \A n \in Msg : view[n] = TrueView(n)
      BY <1>1, <1>2, <1>f DEF MessagesInv, Room, Pending, Serial, OneByOne, At
    <2>2. \A n \in Msg : n # m => TrueView(n)' = TrueView(n)
      BY <1>2, <1>6 DEF TrueView, Response
    <2> QED
      BY <1>2, <1>3, <1>c, <1>f, <2>1, <2>2 DEF Pending, RoomAt
  <1>g. next.alone => req[r].alone
    BY <1>1, <1>c
  <1> QED
    BY <1>2, <1>3, <1>6, <1>9, <1>a, <1>b, <1>c, <1>d, <1>e, <1>f, <1>g, StepInv
      DEF TypeOK

\* Before a step of a request that nothing has been left to tell about, the
\* room has seen everything.
LEMMA NothingPending ==
  ASSUME MessagesInv, NEW r \in Req, ~At(r, "idle"), Pending(req[r]) = {},
         ~mix.overlap, ~mix.crash
  PROVE  \A n \in Msg : view[n] = TrueView(n)
  BY DEF MessagesInv, Room, Pending, Serial, OneByOne, At

\* A write to one message that is there.
LEMMA EditMessage ==
  ASSUME MessagesInv, NEW r \in Req, NEW m \in Created, NEW v \in Message,
         NEW next \in Request,
         message' = [message EXCEPT ![m] = v], v.state # "none",
         req' = [req EXCEPT ![r] = next], UNCHANGED <<mix, channel, row, pin, view, meta>>,
         ~At(r, "idle"), next.alone => req[r].alone,
         next.pc = "emit", next.m = m, next.op \in Editing, Pending(req[r]) \in {{}, {m}},
         ~mix.overlap => v.state = "live" \/ m \notin pin,
         ~mix.overlap /\ ~mix.crash => next.seen = TrueView(m)'
  PROVE  MessagesInv'
  <1>1. TypeOK /\ m \in Msg
    BY DEF MessagesInv, Created
  <1>2. /\ message' \in [Msg -> Message] /\ message'[m] = v
        /\ \A n \in Msg : n # m => message'[n] = message[n]
    BY <1>1 DEF TypeOK
  <1>3. Created' = Created
    BY <1>2 DEF Created
  <1>4. Dense' /\ Marked' /\ PinsExist'
    BY <1>3 DEF MessagesInv, Dense, Marked, PinsExist, Now
  <1>5. RequestOK(next)' /\ AloneAt(next)'
    BY <1>3 DEF RequestOK, AloneAt, Editing
  <1>6. ~mix.overlap => PinsAreLive' /\ SerialAt(next)'
    <2>1. \A n \in Msg : n # m => (Live(n)' <=> Live(n))
      BY <1>2 DEF Live
    <2> QED
      BY <1>1, <1>2, <2>1 DEF MessagesInv, Serial, PinsAreLive, SerialAt, Live, TypeOK
  <1>7. ASSUME ~mix.overlap, ~mix.crash
        PROVE  /\ \A n \in Msg : n \in Pending(next) \/ view'[n] = TrueView(n)'
               /\ RoomAt(next)'
    <2>1. \A n \in Msg : n # m => view[n] = TrueView(n)
      BY <1>7 DEF MessagesInv, Room, Pending, Serial, OneByOne, At
    <2>2. \A n \in Msg : n # m => TrueView(n)' = TrueView(n)
      BY <1>2 DEF TrueView, Response
    <2> QED
      BY <1>7, <2>1, <2>2 DEF Pending, RoomAt
  <1> QED
    BY <1>1, <1>2, <1>3, <1>4, <1>5, <1>6, <1>7, StepInv DEF TypeOK

LEMMA UpdateStep ==
  ASSUME MessagesInv, NEW r \in Req, Update(r)
  PROVE  MessagesInv'
  <1>1. PICK q, m : q = req[r] /\ m = q.m
    OBVIOUS
  <1>2. /\ q.pc = "update" /\ ~At(r, "idle")
        /\ message[m].edits < MaxEdit
        /\ message' = [message EXCEPT ![m] = [message[m] EXCEPT !.edits = @ + 1]]
        /\ req' = [req EXCEPT ![r] = [q EXCEPT !.pc = "emit",
                                       !.seen = [Response(m) EXCEPT !.edits = @ + 1]]]
        /\ UNCHANGED <<mix, channel, row, pin, view, meta>>
    BY <1>1 DEF Update, SetMessage, Become, Told, At
  <1>3. /\ TypeOK /\ q \in Request /\ RequestOK(q)
        /\ ~mix.overlap => SerialAt(q)
    BY <1>1, AtStep
  <1>4. q.op = "update" /\ m \in Created /\ m \in Msg
    BY <1>1, <1>2, <1>3 DEF RequestOK, Editing, Created
  <1>5. message[m] \in Message /\ message[m].state # "none"
        /\ message[m].edits + 1 \in 0..MaxEdit
    BY <1>2, <1>3, <1>4 DEF TypeOK, Created, Message
  <1>6. PICK v \in Message :
          /\ v = [message[m] EXCEPT !.edits = @ + 1]
          /\ v.state = message[m].state /\ v.edits = message[m].edits + 1
    <2> DEFINE x == [message[m] EXCEPT !.edits = @ + 1]
    <2>1. x \in Message /\ x.state = message[m].state /\ x.edits = message[m].edits + 1
      BY <1>5 DEF Message
    <2> QED
      BY <2>1
  <1>7. PICK w \in View :
          /\ w = [Response(m) EXCEPT !.edits = @ + 1]
          /\ w = [event |-> "shown", edits |-> v.edits, isPinned |-> m \in pin]
    <2>1. [Response(m) EXCEPT !.edits = @ + 1]
            = [event |-> "shown", edits |-> v.edits, isPinned |-> m \in pin]
      BY <1>6 DEF Response
    <2>2. (m \in pin) \in BOOLEAN /\ v.edits \in 0..MaxEdit
      BY <1>5, <1>6
    <2>3. [event |-> "shown", edits |-> v.edits, isPinned |-> m \in pin] \in View
      BY <2>2 DEF View
    <2> QED
      BY <2>1, <2>3
  <1>8. PICK next \in Request :
          /\ next = [q EXCEPT !.pc = "emit", !.seen = w]
          /\ next.pc = "emit" /\ next.m = m /\ next.op = q.op /\ next.seen = w
          /\ next.alone = q.alone
    <2> DEFINE x == [q EXCEPT !.pc = "emit", !.seen = w]
    <2>1. /\ x \in Request /\ x.pc = "emit" /\ x.m = m /\ x.op = q.op /\ x.seen = w
          /\ x.alone = q.alone
      BY <1>1, <1>3 DEF Request, Label
    <2> QED
      BY <2>1
  <1>9. ~mix.overlap => v.state = "live"
    BY <1>1, <1>2, <1>3, <1>6 DEF SerialAt, Live
  <1>a. message'[m] = v
    BY <1>2, <1>3, <1>4, <1>6 DEF TypeOK
  <1>b. ~mix.overlap => next.seen = TrueView(m)'
    BY <1>2, <1>7, <1>8, <1>9, <1>a DEF TrueView, Response
  <1>c. Pending(req[r]) = {}
    BY <1>1, <1>2 DEF Pending
  <1>d. /\ message' = [message EXCEPT ![m] = v] /\ v.state # "none"
        /\ req' = [req EXCEPT ![r] = next]
        /\ next.op \in Editing /\ (next.alone => req[r].alone)
    BY <1>1, <1>2, <1>4, <1>5, <1>6, <1>7, <1>8 DEF Editing
  <1>e. Pending(req[r]) \in {{}, {m}}
    BY <1>c
  <1> QED
    BY <1>2, <1>4, <1>8, <1>9, <1>b, <1>d, <1>e, EditMessage

LEMMA SoftDeleteStep ==
  ASSUME MessagesInv, NEW r \in Req, SoftDelete(r)
  PROVE  MessagesInv'
  <1>1. PICK q, m : q = req[r] /\ m = q.m
    OBVIOUS
  <1>2. /\ q.pc = "delete" /\ ~At(r, "idle")
        /\ message' = [message EXCEPT ![m] = [message[m] EXCEPT !.state = "deleted"]]
        /\ req' = [req EXCEPT ![r] = [q EXCEPT !.pc = "emit", !.seen.event = "deleted"]]
        /\ UNCHANGED <<mix, channel, row, pin, view, meta>>
    BY <1>1 DEF SoftDelete, SetMessage, Become, Told, At
  <1>3. /\ TypeOK /\ q \in Request /\ RequestOK(q)
        /\ ~mix.overlap => SerialAt(q)
        /\ ~mix.overlap /\ ~mix.crash => RoomAt(q)
    BY <1>1, AtStep
  <1>4. q.op = "delete" /\ m \in Created /\ m \in Msg
    BY <1>1, <1>2, <1>3 DEF RequestOK, Editing, Created
  <1>5. PICK v \in Message :
          v = [message[m] EXCEPT !.state = "deleted"] /\ v.state = "deleted"
    <2> DEFINE x == [message[m] EXCEPT !.state = "deleted"]
    <2>1. message[m] \in Message
      BY <1>3, <1>4 DEF TypeOK
    <2>2. x \in Message /\ x.state = "deleted"
      BY <2>1 DEF Message
    <2> QED
      BY <2>2
  <1>6. PICK w \in View : w = [q.seen EXCEPT !.event = "deleted"]
    BY <1>3 DEF Request, View
  <1>7. PICK next \in Request :
          /\ next = [q EXCEPT !.pc = "emit", !.seen = w]
          /\ next.pc = "emit" /\ next.m = m /\ next.op = q.op /\ next.seen = w
          /\ next.alone = q.alone
    <2> DEFINE x == [q EXCEPT !.pc = "emit", !.seen = w]
    <2>1. /\ x \in Request /\ x.pc = "emit" /\ x.m = m /\ x.op = q.op /\ x.seen = w
          /\ x.alone = q.alone
      BY <1>1, <1>3 DEF Request, Label
    <2> QED
      BY <2>1
  <1>8. req' = [req EXCEPT ![r] = next]
    BY <1>2, <1>3, <1>6, <1>7 DEF Request
  <1>9. ~mix.overlap => m \notin pin
    BY <1>1, <1>2, <1>3 DEF SerialAt
  <1>a. message'[m] = v
    BY <1>2, <1>3, <1>4, <1>5 DEF TypeOK
  <1>b. ~mix.overlap /\ ~mix.crash => next.seen = TrueView(m)'
    BY <1>2, <1>3, <1>5, <1>6, <1>7, <1>a DEF TrueView, RoomAt
  <1>c. Pending(req[r]) = {m}
    BY <1>1, <1>2 DEF Pending
  <1>d. /\ message' = [message EXCEPT ![m] = v] /\ v.state # "none"
        /\ next.op \in Editing /\ (next.alone => req[r].alone)
    BY <1>1, <1>2, <1>4, <1>5, <1>7 DEF Editing
  <1>e. Pending(req[r]) \in {{}, {m}}
    BY <1>c
  <1> QED
    BY <1>2, <1>4, <1>5, <1>7, <1>8, <1>9, <1>b, <1>d, <1>e, EditMessage

-----------------------------------------------------------------------------
(* Writes to the read marks and the pins                                   *)

LEMMA MarkStep ==
  ASSUME MessagesInv, NEW r \in Req, Mark(r)
  PROVE  MessagesInv'
  <1>1. PICK q, u : q = req[r] /\ u = q.u
    OBVIOUS
  <1> DEFINE found == row[u].id = q.id
  <1>2. /\ q.pc \in {"mark", "now"} /\ ~At(r, "idle")
        /\ UNCHANGED <<mix, channel, message, pin, view, meta>>
    BY <1>1 DEF Mark, Told, At
  <1>3. /\ TypeOK /\ q \in Request /\ RequestOK(q) /\ u \in User
        /\ ~mix.overlap => SerialAt(q)
        /\ ~mix.overlap /\ ~mix.crash => RoomAt(q)
    BY <1>1, AtStep DEF Request
  <1>4. CASE ~found
    <2>1. row' = row /\ End(r)
      BY <1>1, <1>4 DEF Mark, End
    <2>2. mix.overlap
      BY <1>1, <1>2, <1>3, <1>4 DEF SerialAt
    <2> QED
      BY <1>2, <2>1, <2>2, EndStep DEF Stored, Told
  <1>5. CASE found
    <2>1. PICK t \in Time : t = q.m /\ t <= Now
      <3>1. Now \in Time /\ \A m \in Created : m \in Msg /\ m <= Now
        BY NowFacts DEF MessagesInv
      <3>2. q.m \in {0} \cup Created
        BY <1>2, <1>3 DEF RequestOK
      <3>3. q.m \in Time /\ 0 <= Now
        BY <1>3, <3>1 DEF Request, Time
      <3>4. q.m <= Now
        BY <3>1, <3>2, <3>3
      <3> QED
        BY <3>3, <3>4
    <2>2. row' = [row EXCEPT ![u].lastReadAt = t]
      BY <1>1, <1>5, <2>1 DEF Mark
    <2>3. PICK v \in ChannelMember :
            v = [row[u] EXCEPT !.lastReadAt = t] /\ v.lastReadAt = t /\ v.id = row[u].id
      <3> DEFINE x == [row[u] EXCEPT !.lastReadAt = t]
      <3>0. row[u] \in ChannelMember
        BY <1>3 DEF TypeOK
      <3>1. x \in ChannelMember /\ x.lastReadAt = t /\ x.id = row[u].id
        BY <3>0 DEF ChannelMember
      <3> QED
        BY <3>1
    <2>4. /\ row' \in [User -> ChannelMember] /\ row'[u] = v
          /\ \A w \in User : w # u => row'[w] = row[w]
      BY <1>3, <2>2, <2>3 DEF TypeOK
    <2>5. Created' = Created /\ Now' = Now
      BY <1>2 DEF Created, Now
    <2>6. Dense' /\ PinsExist' /\ Created \subseteq Created'
      BY <1>2, <2>5 DEF MessagesInv, Dense, PinsExist
    <2>7. Marked'
      BY <2>1, <2>3, <2>4, <2>5 DEF MessagesInv, Marked
    <2>8. ~mix.overlap => PinsAreLive'
      BY <1>2 DEF MessagesInv, Serial, PinsAreLive, Live
    <2>9. \A n \in Msg : TrueView(n)' = TrueView(n)
      BY <1>2 DEF TrueView, Response
    <2>a. CASE q.op = "read"
      <3>1. q.pc = "now"
        BY <1>2, <1>3, <2>a DEF RequestOK
      <3>2. PICK next \in Request :
              /\ next = [q EXCEPT !.pc = "meta", !.tell[u] = "find"]
              /\ next.pc = "meta" /\ next.op = q.op /\ next.m = q.m /\ next.u = u
              /\ next.tell[u] = "find" /\ next.alone = q.alone
        <4> DEFINE x == [q EXCEPT !.pc = "meta", !.tell[u] = "find"]
        <4>1. /\ x \in Request /\ x.pc = "meta" /\ x.op = q.op /\ x.m = q.m /\ x.u = u
              /\ x.tell[u] = "find" /\ x.alone = q.alone
          BY <1>1, <1>3 DEF Request, Label
        <4> QED
          BY <4>1
      <3>3. req' = [req EXCEPT ![r] = next]
        BY <1>1, <1>5, <2>a, <3>2 DEF Mark, Become
      <3>4. RequestOK(next)' /\ SerialAt(next)' /\ RoomAt(next)'
        BY <1>2, <1>3, <2>5, <2>a, <3>2 DEF RequestOK, SerialAt, RoomAt, Editing, Pinning
      <3>5. AloneAt(next)'
        BY <2>a, <3>2 DEF AloneAt, Concerned
      <3>6. ~mix.overlap /\ ~mix.crash => \A n \in Msg : view'[n] = TrueView(n)'
        BY <1>1, <1>2, <2>9, <3>1, NothingPending DEF Pending
      <3> QED
        BY <1>1, <1>2, <1>3, <2>4, <2>6, <2>7, <2>8, <3>2, <3>3, <3>4, <3>5, <3>6, StepInv
          DEF TypeOK
    <2>b. CASE q.op # "read"
      <3>1. q.pc = "mark" /\ q.op = "create" /\ q.m \in Created
        BY <1>2, <1>3, <2>b DEF RequestOK
      <3>2. PICK w \in View :
              /\ w = [q.seen EXCEPT !.event = "shown"]
              /\ w.event = "shown" /\ w.edits = q.seen.edits
              /\ w.isPinned = q.seen.isPinned
        <4> DEFINE x == [q.seen EXCEPT !.event = "shown"]
        <4>1. /\ x \in View /\ x.event = "shown" /\ x.edits = q.seen.edits
              /\ x.isPinned = q.seen.isPinned
          BY <1>3 DEF Request, View
        <4> QED
          BY <4>1
      <3>3. PICK next \in Request :
              /\ next = [q EXCEPT !.pc = "emit", !.seen = w]
              /\ next.pc = "emit" /\ next.op = q.op /\ next.m = q.m
              /\ next.seen = w /\ next.alone = q.alone
        <4> DEFINE x == [q EXCEPT !.pc = "emit", !.seen = w]
        <4>1. /\ x \in Request /\ x.pc = "emit" /\ x.op = q.op /\ x.m = q.m
              /\ x.seen = w /\ x.alone = q.alone
          BY <1>3 DEF Request, Label
        <4> QED
          BY <4>1
      <3>4. req' = [req EXCEPT ![r] = next]
        <4>1. [q EXCEPT !.pc = "emit", !.seen.event = "shown"] = next
          BY <1>3, <3>2, <3>3 DEF Request
        <4> QED
          BY <1>1, <1>5, <2>b, <4>1 DEF Mark, Become
      <3>5. RequestOK(next)' /\ SerialAt(next)' /\ AloneAt(next)'
        BY <2>5, <3>1, <3>3 DEF RequestOK, SerialAt, AloneAt, Editing, Pinning
      <3>6. ASSUME ~mix.overlap, ~mix.crash
            PROVE  /\ \A n \in Msg : n \in Pending(next) \/ view'[n] = TrueView(n)'
                   /\ RoomAt(next)'
        <4>1. \A n \in Msg : n # q.m => view[n] = TrueView(n)
          BY <1>1, <1>2, <3>6 DEF MessagesInv, Room, Pending, Serial, OneByOne, At
        <4>2. PICK m : /\ m = q.m
                       /\ m \in Msg /\ message[m].state = "live" /\ message[m].edits = 0
                       /\ (m \in pin) = FALSE /\ q.seen = NoView
          BY <1>3, <3>1, <3>6 DEF SerialAt, Live, RoomAt
        <4>3. TrueView(m)' = Response(m)
          BY <1>2, <4>2 DEF TrueView, Response
        <4>4. Response(m) = [event |-> "shown", edits |-> 0, isPinned |-> FALSE]
          BY <4>2 DEF Response
        <4>5. w = [event |-> "shown", edits |-> 0, isPinned |-> FALSE]
          <5>1. w.event = "shown" /\ w.edits = 0 /\ w.isPinned = FALSE
            BY <3>2, <4>2, ViewTypes
          <5>2. w = [event |-> w.event, edits |-> w.edits, isPinned |-> w.isPinned]
            BY DEF View
          <5> QED
            BY <5>1, <5>2
        <4>6. RoomAt(next)'
          BY <3>3, <4>2, <4>3, <4>4, <4>5 DEF RoomAt
        <4> QED
          BY <1>2, <2>9, <3>3, <4>1, <4>6 DEF Pending
      <3> QED
        BY <1>1, <1>2, <1>3, <2>4, <2>6, <2>7, <2>8, <3>3, <3>4, <3>5, <3>6, StepInv
          DEF TypeOK
    <2> QED
      BY <2>a, <2>b
  <1> QED
    BY <1>4, <1>5

\* A write to the pin of one message.
LEMMA PinStep ==
  ASSUME MessagesInv, NEW r \in Req, NEW m \in Created, NEW next \in Request,
         pin' \in {pin \cup {m}, pin \ {m}},
         req' = [req EXCEPT ![r] = next], UNCHANGED <<mix, channel, row, message, Told>>,
         ~At(r, "idle"), next.alone = req[r].alone, Pending(req[r]) = {},
         next.op = req[r].op, next.m = m, next.pc \in {"again", "delete"},
         next.pc = "again" => next.op \in Pinning,
         next.pc = "delete" => next.op = "delete" /\ pin' = pin \ {m},
         ~mix.overlap /\ next.pc = "again" => Live(m),
         ~mix.overlap /\ ~mix.crash => next.seen = NoView
  PROVE  MessagesInv'
  <1>1. TypeOK /\ m \in Msg /\ UNCHANGED <<view, meta>>
    BY DEF MessagesInv, Created, Told
  <1>2. Created' = Created /\ Now' = Now
    BY DEF Created, Now
  <1>3. /\ Dense' /\ Marked' /\ PinsExist' /\ Created \subseteq Created'
        /\ pin' \subseteq Msg
    BY <1>1, <1>2 DEF MessagesInv, Dense, Marked, PinsExist, TypeOK
  <1>4. RequestOK(next)' /\ AloneAt(next)'
    BY <1>2 DEF RequestOK, AloneAt, Editing, Pinning
  <1>5. ~mix.overlap => PinsAreLive' /\ SerialAt(next)'
    <2>1. \A n \in Msg : Live(n)' <=> Live(n)
      BY DEF Live
    <2>2. ~mix.overlap => \A n \in pin : Live(n)
      BY DEF MessagesInv, Serial, PinsAreLive
    <2>3. ~mix.overlap /\ next.pc = "delete" => PinsAreLive' /\ SerialAt(next)'
      BY <1>1, <1>3, <2>1, <2>2 DEF PinsAreLive, SerialAt
    <2>4. ~mix.overlap /\ next.pc = "again" => PinsAreLive' /\ SerialAt(next)'
      BY <1>1, <1>3, <2>1, <2>2 DEF PinsAreLive, SerialAt
    <2> QED
      BY <2>3, <2>4
  <1>6. ASSUME ~mix.overlap, ~mix.crash
        PROVE  /\ \A n \in Msg : n \in Pending(next) \/ view'[n] = TrueView(n)'
               /\ RoomAt(next)'
    <2>1. \A n \in Msg : view[n] = TrueView(n)
      BY <1>6, NothingPending
    <2>2. \A n \in Msg : n # m => TrueView(n)' = TrueView(n)
      BY DEF TrueView, Response
    <2> QED
      BY <1>1, <1>6, <2>1, <2>2 DEF Pending, RoomAt
  <1> QED
    BY <1>1, <1>3, <1>4, <1>5, <1>6, StepInv DEF TypeOK

LEMMA PinSteps ==
  ASSUME MessagesInv, NEW r \in Req, UnpinAll(r) \/ CreatePin(r) \/ DeletePin(r)
  PROVE  MessagesInv'
  <1>1. PICK q, m : q = req[r] /\ m = q.m
    OBVIOUS
  <1>2. /\ q.pc \in {"unpinAll", "pin", "unpin"} /\ ~At(r, "idle")
        /\ UNCHANGED <<mix, channel, row, message, Told>>
        /\ Pending(req[r]) = {}
    BY <1>1 DEF UnpinAll, CreatePin, DeletePin, SetPins, At, Pending
  <1>3. /\ q \in Request /\ RequestOK(q)
        /\ ~mix.overlap => SerialAt(q)
        /\ ~mix.overlap /\ ~mix.crash => RoomAt(q)
    BY <1>1, AtStep
  <1>4. /\ m \in Created
        /\ q.pc = "unpinAll" => q.op = "delete"
        /\ q.pc \in {"pin", "unpin"} => q.op \in Pinning
        /\ ~mix.overlap /\ ~mix.crash => q.seen = NoView
    BY <1>1, <1>2, <1>3 DEF RequestOK, RoomAt, Editing
  <1>5. CASE UnpinAll(r)
    <2>1. PICK next \in Request :
            /\ next = [q EXCEPT !.pc = "delete"] /\ next.pc = "delete"
            /\ next.op = q.op /\ next.m = m /\ next.seen = q.seen /\ next.alone = q.alone
      <3>1. "delete" \in Label
        BY DEF Label
      <3> QED
        BY <1>1, <1>3, <3>1, MovedFacts
    <2>2. /\ req' = [req EXCEPT ![r] = next] /\ pin' = pin \ {m} /\ q.pc = "unpinAll"
      BY <1>1, <1>5, <2>1 DEF UnpinAll, SetPins, Goto, At
    <2> QED
      BY <1>1, <1>2, <1>4, <2>1, <2>2, PinStep
  <1>6. ASSUME CreatePin(r) \/ DeletePin(r)
        PROVE  MessagesInv'
    <2>1. /\ q.pc \in {"pin", "unpin"}
          /\ \/ End(r) /\ pin' = pin
             \/ Goto(r, "again") /\ pin' \in {pin \cup {m}, pin \ {m}}
      BY <1>1, <1>6 DEF CreatePin, DeletePin, SetPins, At
    <2>2. CASE End(r) /\ pin' = pin
      BY <1>2, <2>2, EndStep DEF Stored
    <2>3. CASE Goto(r, "again") /\ pin' \in {pin \cup {m}, pin \ {m}}
      <3>1. PICK next \in Request :
              /\ next = [q EXCEPT !.pc = "again"] /\ next.pc = "again"
              /\ next.op = q.op /\ next.m = m /\ next.seen = q.seen /\ next.alone = q.alone
        <4>1. "again" \in Label
          BY DEF Label
        <4> QED
          BY <1>1, <1>3, <4>1, MovedFacts
      <3>2. req' = [req EXCEPT ![r] = next]
        BY <1>1, <2>3, <3>1 DEF Goto
      <3>3. ~mix.overlap => Live(m)
        BY <1>1, <1>3, <2>1 DEF SerialAt
      <3> QED
        BY <1>1, <1>2, <1>4, <2>1, <2>3, <3>1, <3>2, <3>3, PinStep
    <2> QED
      BY <2>1, <2>2, <2>3
  <1> QED
    BY <1>5, <1>6

-----------------------------------------------------------------------------
(* Events                                                                  *)

LEMMA EmitStep ==
  ASSUME MessagesInv, NEW r \in Req, Emit(r)
  PROVE  MessagesInv'
  <1>1. PICK q, m : q = req[r] /\ m = q.m
    OBVIOUS
  <1>2. /\ q.pc = "emit" /\ ~At(r, "idle")
        /\ view' = [view EXCEPT ![m] = q.seen]
        /\ IF q.op \in Pinning THEN End(r) ELSE Goto(r, "members")
        /\ mix' = mix /\ channel' = channel /\ row' = row /\ message' = message
        /\ pin' = pin /\ meta' = meta
    BY <1>1 DEF Emit, Stored, At
  <1>3. /\ TypeOK /\ q \in Request /\ RequestOK(q)
        /\ ~mix.overlap /\ ~mix.crash => RoomAt(q)
    BY <1>1, AtStep
  <1>4. q.seen \in View
    BY <1>3 DEF Request
  <1>5. view' \in [Msg -> View]
        /\ \A n \in Msg : view'[n] = IF n = m THEN q.seen ELSE view[n]
    BY <1>2, <1>3, <1>4 DEF TypeOK
  <1>6. Created' = Created /\ Now' = Now /\ Dense' /\ Marked' /\ PinsExist'
    BY <1>2 DEF MessagesInv, Created, Now, Dense, Marked, PinsExist
  <1>7. ~mix.overlap => PinsAreLive'
    BY <1>2 DEF MessagesInv, Serial, PinsAreLive, Live
  <1>8. ASSUME ~mix.overlap, ~mix.crash
        PROVE  \A n \in Msg : view'[n] = TrueView(n)'
    <2>1. \A n \in Msg : n # m => view[n] = TrueView(n)
      BY <1>1, <1>2, <1>8 DEF MessagesInv, Room, Pending, Serial, OneByOne, At
    <2>2. q.seen = TrueView(m)
      BY <1>1, <1>2, <1>3, <1>8 DEF RoomAt
    <2>3. \A n \in Msg : TrueView(n)' = TrueView(n)
      BY <1>2 DEF TrueView, Response
    <2> QED
      BY <1>5, <2>1, <2>2, <2>3
  <1>9. ASSUME NEW next \in Request, req' = [req EXCEPT ![r] = next],
               next.pc \in {"idle", "members"}, next.pc = "idle" => next = Blank,
               next.alone => req[r].alone, RequestOK(next)
        PROVE  MessagesInv'
    <2>1. RequestOK(next)'
      BY <1>6, <1>9 DEF RequestOK
    <2>2. AloneAt(next)' /\ SerialAt(next)' /\ RoomAt(next)'
      BY <1>9, BlankFacts DEF AloneAt, SerialAt, RoomAt
    <2> QED
      BY <1>2, <1>3, <1>5, <1>6, <1>7, <1>8, <1>9, <2>1, <2>2, StepInv DEF TypeOK
  <1>a. CASE q.op \in Pinning
    <2>1. req' = [req EXCEPT ![r] = Blank] /\ RequestOK(Blank)
      BY <1>2, <1>a, BlankFacts DEF End, Become, RequestOK
    <2> QED
      BY <1>9, <2>1, BlankFacts
  <1>b. CASE q.op \notin Pinning
    <2>1. PICK next \in Request :
            /\ next = [q EXCEPT !.pc = "members"] /\ next.pc = "members"
            /\ next.op = q.op /\ next.m = q.m /\ next.alone = q.alone
      <3>1. "members" \in Label
        BY DEF Label
      <3> QED
        BY <1>3, <3>1, MovedFacts
    <2>2. req' = [req EXCEPT ![r] = next]
      BY <1>1, <1>2, <1>b, <2>1 DEF Goto
    <2>3. RequestOK(next)
      BY <1>2, <1>3, <2>1 DEF RequestOK
    <2> QED
      BY <1>1, <1>9, <2>1, <2>2, <2>3
  <1> QED
    BY <1>a, <1>b

LEMMA EmitMetaStep ==
  ASSUME MessagesInv, NEW r \in Req, NEW u \in User, EmitMeta(r, u)
  PROVE  MessagesInv'
  <1>1. PICK q : q = req[r]
    OBVIOUS
  <1>2. /\ q.pc = "meta" /\ ~At(r, "idle") /\ q.tell[u] = "emit"
        /\ meta' = [meta EXCEPT ![u] = q.found[u]]
        /\ req' = [req EXCEPT ![r] = [q EXCEPT !.tell[u] = "no", !.found[u] = NoMeta]]
        /\ mix' = mix /\ channel' = channel /\ row' = row /\ message' = message
        /\ pin' = pin /\ view' = view
    BY <1>1 DEF EmitMeta, Stored, Become, At
  <1>3. TypeOK /\ q \in Request /\ RequestOK(q) /\ AloneAt(q)
    BY <1>1, AtStep
  <1>4. meta' \in [User -> Meta] /\ meta'[u] = q.found[u]
        /\ \A v \in User : v # u => meta'[v] = meta[v]
    BY <1>2, <1>3 DEF TypeOK, Request
  <1>5. PICK next \in Request :
          /\ next = [q EXCEPT !.tell[u] = "no", !.found[u] = NoMeta]
          /\ next.pc = "meta" /\ next.op = q.op /\ next.m = q.m /\ next.u = q.u
          /\ next.alone = q.alone /\ next.tell[u] = "no"
          /\ \A v \in User : v # u => /\ next.tell[v] = q.tell[v]
                                      /\ next.found[v] = q.found[v]
    <2> DEFINE x == [q EXCEPT !.tell[u] = "no", !.found[u] = NoMeta]
    <2>1. /\ x \in Request
          /\ x.pc = "meta" /\ x.op = q.op /\ x.m = q.m /\ x.u = q.u
          /\ x.alone = q.alone /\ x.tell[u] = "no"
          /\ \A v \in User : v # u => /\ x.tell[v] = q.tell[v]
                                      /\ x.found[v] = q.found[v]
      BY <1>2, <1>3, ViewTypes DEF Request
    <2> QED
      BY <2>1
  <1>6. /\ Created' = Created /\ Now' = Now /\ Dense' /\ Marked' /\ PinsExist'
        /\ ~mix.overlap => PinsAreLive'
    BY <1>2
      DEF MessagesInv, Created, Now, Dense, Marked, PinsExist, Serial, PinsAreLive, Live
  <1>7. RequestOK(next)' /\ SerialAt(next)' /\ RoomAt(next)'
    BY <1>2, <1>3, <1>5, <1>6 DEF RequestOK, SerialAt, RoomAt
  <1>8. AloneAt(next)'
    <2>1. /\ \A v \in User : TrueMeta(v)' = TrueMeta(v) /\ ChannelFor(v)' = ChannelFor(v)
          /\ \A v \in User : Here(v)' <=> Here(v)
      BY <1>2 DEF TrueMeta, ChannelFor, Unread, LastMessage, Live, Here
    <2> SUFFICES ASSUME next.alone, channel # "deleted",
                        NEW v \in User, Here(v), next.op = "read" => v = next.u
                 PROVE  \/ next.tell[v] = "find"
                        \/ next.tell[v] = "count" /\ next.found[v] = ChannelFor(v)
                        \/ next.tell[v] = "emit" /\ next.found[v] = TrueMeta(v)
                        \/ next.tell[v] = "no" /\ meta'[v] = TrueMeta(v)
      BY <1>2, <2>1 DEF AloneAt, Concerned
    <2>2. Concerned(q, v)
      BY <1>5 DEF Concerned
    <2>3. \/ q.tell[v] = "find"
          \/ q.tell[v] = "count" /\ q.found[v] = ChannelFor(v)
          \/ q.tell[v] = "emit" /\ q.found[v] = TrueMeta(v)
          \/ q.tell[v] = "no" /\ meta[v] = TrueMeta(v)
      BY <1>2, <1>3, <1>5, <2>2 DEF AloneAt
    <2>4. CASE v = u
      BY <1>2, <1>4, <1>5, <2>3, <2>4
    <2>5. CASE v # u
      BY <1>4, <1>5, <2>3, <2>5
    <2> QED
      BY <2>4, <2>5
  <1>9. ASSUME ~mix.overlap, ~mix.crash
        PROVE  \A n \in Msg : view'[n] = TrueView(n)'
    <2>1. \A n \in Msg : view[n] = TrueView(n)
      BY <1>1, <1>2, <1>9, NothingPending DEF Pending
    <2>2. \A n \in Msg : TrueView(n)' = TrueView(n)
      BY <1>2 DEF TrueView, Response
    <2> QED
      BY <1>2, <2>1, <2>2
  <1>a. req' = [req EXCEPT ![r] = next] /\ (next.alone => req[r].alone)
    BY <1>1, <1>2, <1>5
  <1> QED
    BY <1>2, <1>3, <1>4, <1>5, <1>6, <1>7, <1>8, <1>9, <1>a, StepInv DEF TypeOK

-----------------------------------------------------------------------------
(* The theorems                                                            *)

LEMMA NextInv ==
  ASSUME MessagesInv, [Next]_vars
  PROVE  MessagesInv'
  <1>1. CASE ChangeChannel \/ ChangeMember
    BY <1>1, OutsideStep
  <1>2. ASSUME NEW r \in Req, ChannelArrive(r) \/ MessageArrive(r)
        PROVE  MessagesInv'
    BY <1>2, ArriveStep
  <1>3. ASSUME NEW r \in Req, Lookups(r)
        PROVE  MessagesInv'
    BY <1>3, FindChannelStep, FindMemberStep, FindManagerStep, FindMessageStep,
       FindAgainStep, EndSteps DEF Lookups
  <1>4. ASSUME NEW r \in Req, Writes(r)
        PROVE  MessagesInv'
    BY <1>4, InsertStep, MarkStep, UpdateStep, SoftDeleteStep, PinSteps DEF Writes
  <1>5. ASSUME NEW r \in Req, Events(r)
        PROVE  MessagesInv'
    BY <1>5, EmitStep, FindMembersStep, EndSteps, FindMetaStep, CountUnreadStep,
       EmitMetaStep DEF Events
  <1>6. ASSUME NEW r \in Req, Crash(r)
        PROVE  MessagesInv'
    BY <1>6, EndSteps
  <1>7. CASE UNCHANGED vars
    <2>1. /\ mix' = mix /\ channel' = channel /\ row' = row /\ message' = message
          /\ pin' = pin /\ view' = view /\ meta' = meta /\ req' = req
      BY <1>7 DEF vars
    <2>2. Created' = Created /\ Now' = Now /\ \A m : Live(m)' = Live(m)
      BY <2>1 DEF Created, Now, Live
    <2>3. /\ \A m \in Msg : TrueView(m)' = TrueView(m)
          /\ \A u \in User : TrueMeta(u)' = TrueMeta(u) /\ ChannelFor(u)' = ChannelFor(u)
      BY <2>1
        DEF TrueView, Response, TrueMeta, ChannelFor, Unread, LastMessage, Live
    <2>4. TypeOK' /\ PinsAreLive' /\ Dense' /\ Marked' /\ PinsExist'
      BY <2>1, <2>2 DEF MessagesInv, TypeOK, PinsAreLive, Dense, Marked, PinsExist
    <2>5. \A r \in Req : RequestOK(req[r])'
      BY <2>1, <2>2 DEF MessagesInv, RequestOK
    <2>6. \A r \in Req : AloneAt(req[r])'
      BY <2>1, <2>3 DEF MessagesInv, AloneAt, Concerned, Here
    <2>7. Alone' /\ Serial'
      BY <2>1, <2>2
        DEF MessagesInv, Alone, Serial, OneByOne, PinsAreLive, SerialAt, At
    <2>8. Room'
      <3>1. ASSUME NEW r \in Req, RoomAt(req[r]) PROVE RoomAt(req[r])'
        BY <2>1, <3>1 DEF RoomAt, TrueView, Response
      <3> QED
        BY <2>1, <2>3, <3>1 DEF MessagesInv, Room, Pending
    <2> QED
      BY <2>4, <2>5, <2>6, <2>7, <2>8 DEF MessagesInv
  <1> QED
    BY <1>1, <1>2, <1>3, <1>4, <1>5, <1>6, <1>7 DEF Next

LEMMA Reachable == Spec => []MessagesInv
  <1> QED
    BY InitInv, NextInv, PTL DEF Spec

\* RoomSeesTheMessages: after every request that neither overlapped nor was cut
\* off, the room knows every message as it is stored.
THEOREM RoomFollows == Spec => []RoomSeesTheMessages
  <1>1. MessagesInv => RoomSeesTheMessages
    BY DEF MessagesInv, Room, Pending, RoomSeesTheMessages, Quiet, At
  <1> QED
    BY <1>1, Reachable, PTL

\* Inv: the variables have their types, requests that do not overlap leave no pin
\* on a message that is deleted, and the room knows what is stored.
THEOREM OnlyLivePinned == Spec => []Inv
  <1>1. MessagesInv => TypeOK /\ PinsAreLive
    BY DEF MessagesInv
  <1> QED
    BY <1>1, Reachable, RoomFollows, PTL DEF Inv

\* LoneRequestsTellAll: a request that ran alone has told every member that it
\* concerns the true unread count and last message, whatever was told before.
THEOREM MembersAreTold == Spec => LoneRequestsTellAll
  <1> DEFINE P == \A r \in Req :
                    Answer(r) /\ req[r].alone /\ channel # "deleted" =>
                      \A u \in User : Here(u) /\ (req[r].op = "read" => u = req[r].u) =>
                        meta[u] = TrueMeta(u)
  <1>1. MessagesInv => P
    <2> SUFFICES ASSUME MessagesInv, NEW r \in Req, Answer(r), req[r].alone,
                        channel # "deleted", NEW u \in User, Concerned(req[r], u)
                 PROVE  meta[u] = TrueMeta(u)
      BY DEF Concerned
    <2>1. req[r].pc = "meta" /\ req[r].tell[u] = "no"
      BY DEF Answer, At
    <2> QED
      BY <2>1 DEF MessagesInv, AloneAt
  <1>2. MessagesInv /\ [Next]_vars => [P]_vars
    BY <1>1
  <1> QED
    BY <1>2, Reachable, PTL DEF Spec, LoneRequestsTellAll

\* ReadMarksGoForward: nobody who stays in a channel has unread again what they
\* had read, as long as requests do not overlap.
THEOREM MarksGoForward == Spec => ReadMarksGoForward
  <1> DEFINE P == ~mix.overlap =>
                    \A u \in User : row'[u].id = row[u].id =>
                      row'[u].lastReadAt >= row[u].lastReadAt
  <1>1. ASSUME MessagesInv, Next
        PROVE  P
    <2>0. TypeOK /\ Now \in Nat /\ \A u \in User : row[u].lastReadAt \in Nat
      <3>1. TypeOK /\ Now \in Time
        BY <1>1, NowFacts DEF MessagesInv
      <3> QED
        BY <3>1 DEF TypeOK, ChannelMember, Time
    <2>1. CASE row' = row
      BY <2>0, <2>1
    <2>2. ASSUME NEW r \in Req, Mark(r)
          PROVE  P
      <3> SUFFICES ASSUME ~mix.overlap, NEW v \in User, row'[v].id = row[v].id
                   PROVE  row'[v].lastReadAt >= row[v].lastReadAt
        OBVIOUS
      <3>1. PICK q : q = req[r]
        OBVIOUS
      <3>2. /\ q \in Request /\ SerialAt(q) /\ RequestOK(q) /\ q.pc \in {"mark", "now"}
        BY <1>1, <2>2, <3>1, AtStep DEF Mark, At
      <3>3. q.m = Now /\ row[q.u].id = q.id
        BY <3>2 DEF SerialAt
      <3>4. row' = [row EXCEPT ![q.u].lastReadAt = Now]
        BY <2>2, <3>1, <3>3 DEF Mark
      <3>5. row'[v].lastReadAt \in {row[v].lastReadAt, Now}
        <4>1. row[v] \in ChannelMember /\ q.u \in User
          BY <2>0, <3>2 DEF TypeOK, Request
        <4> QED
          BY <2>0, <3>4, <4>1 DEF TypeOK, ChannelMember
      <3>6. row[v].lastReadAt <= Now
        BY <1>1 DEF MessagesInv, Marked
      <3> QED
        BY <2>0, <3>5, <3>6
    <2>3. CASE ChangeMember
      <3>1. PICK u \in User : Join(u) \/ Leave(u)
        BY <2>3 DEF ChangeMember
      <3>2. \A v \in User : v # u => row'[v] = row[v]
        BY <2>0, <3>1 DEF Join, Leave, TypeOK
      <3>3. CASE Join(u)
        <4>1. PICK i \in RowId, role \in {"ADMIN", "MEMBER"} :
                row' = [row EXCEPT ![u] = [id |-> i, role |-> role, lastReadAt |-> 0]]
          BY <3>3 DEF Join
        <4>2. row'[u].id = i /\ row[u].id = None
          BY <2>0, <3>3, <4>1 DEF Join, Here, TypeOK
        <4> QED
          BY <2>0, <3>2, <4>2
      <3>4. CASE Leave(u)
        <4>1. row'[u] = Absent /\ row[u].id # None
          BY <2>0, <3>4 DEF Leave, Here, TypeOK
        <4> QED
          BY <2>0, <3>2, <4>1 DEF Absent
      <3> QED
        BY <3>1, <3>3, <3>4
    <2>4. \/ row' = row \/ ChangeMember
          \/ \E r \in Req : Mark(r)
      BY <1>1
        DEF Next, ChangeChannel, ChannelArrive, MessageArrive, Arrive, Lookups, Writes,
            Events, Crash, FindChannel, FindMember, FindManager, FindMessage, FindAgain,
            List, Read, InsertMessage, Update, SoftDelete, UnpinAll, CreatePin,
            DeletePin, SetMessage, SetPins, Emit, FindMembers, FindMeta, CountUnread,
            EmitMeta, Answer, Stored
    <2> QED
      BY <2>1, <2>2, <2>3, <2>4
  <1>2. MessagesInv /\ [Next]_vars => [P]_vars
    BY <1>1
  <1> QED
    BY <1>2, Reachable, PTL DEF Spec, ReadMarksGoForward

-----------------------------------------------------------------------------
(* The contract: what an event finds                                       *)

Smooth == ~mix.overlap /\ ~mix.crash

\* Where a request is that has been allowed to do what it does.
Allowed == {"message", "insert", "mark", "update", "unpinAll", "delete", "pin",
            "unpin", "again", "emit"}

\* What was checked about the channel, the member and the message still holds
\* when the event goes out, and clients have the message as it was before.
Fits(q) ==
    /\ q.pc \in Allowed \cup {"member", "manager"} /\ q.op # "read" =>
         channel \in {"open", "readOnly"} /\ (q.readOnly <=> channel = "readOnly")
    /\ q.pc \in Allowed \cup {"manager"} =>
         /\ q.op \notin {"read"} \cup Listing /\ Here(q.u)
         /\ q.op = "create" /\ q.readOnly => row[q.u].role = "ADMIN"
    /\ q.pc \in Allowed /\ q.op \in Pinning => q.u \in Manager
    /\ q.pc \in {"mark", "update", "unpinAll", "delete", "emit"}
         /\ q.op \in {"create"} \cup Editing => message[q.m].sender = q.u
    /\ q.pc \in {"pin", "unpin"} => q.op = q.pc
    /\ q.pc = "mark" => view[q.m] = NoView
    /\ q.pc \in {"unpinAll", "delete", "again"} => view[q.m].event = "shown"
    /\ q.pc = "again" => /\ view[q.m].edits = message[q.m].edits
                         /\ q.op = "pin" <=> q.m \in pin
    /\ q.pc = "emit" =>
         /\ q.op = "create" =>
              /\ view[q.m] = NoView /\ q.m = Now /\ q.m \in Created
              /\ q.seen = [NoView EXCEPT !.event = "shown"]
         /\ q.op \in Editing \cup Pinning => view[q.m].event = "shown"
         /\ q.op = "update" => q.seen = [view[q.m] EXCEPT !.edits = @ + 1]
         /\ q.op = "delete" => q.seen = [NoView EXCEPT !.event = "deleted"]
         /\ q.op \in Pinning => q.seen = [view[q.m] EXCEPT !.isPinned = q.op = "pin"]

FeedInv == MessagesInv /\ (Smooth => \A r \in Req : Fits(req[r]))

LEMMA FitsElsewhere ==
  ASSUME NEW q, q.pc \in {"idle", "channel", "list", "now", "members", "meta"}
  PROVE  Fits(q) /\ Fits(q)'
  BY DEF Fits, Allowed

\* A step of the one request that is under way.
LEMMA NextFits ==
  ASSUME FeedInv, MessagesInv', NEW r \in Req, NEW q, req' = [req EXCEPT ![r] = q],
         ~At(r, "idle"), mix' = mix, Smooth => Fits(q)'
  PROVE  FeedInv'
  <1>1. CASE ~Smooth
    BY <1>1 DEF FeedInv, Smooth
  <1>2. CASE Smooth
    <2>1. /\ req'[r] = q
          /\ \A s \in Req : s # r => req'[s] = req[s] /\ req[s].pc = "idle"
      BY <1>2 DEF FeedInv, MessagesInv, TypeOK, Serial, OneByOne, Smooth, At
    <2>2. ASSUME NEW s \in Req PROVE Fits(req[s])'
      <3>1. CASE s = r
        BY <1>2, <2>1, <3>1 DEF Fits, Here, Now, Created
      <3>2. CASE s # r
        <4>1. PICK p : p = req'[s]
          OBVIOUS
        <4>2. p.pc = "idle"
          BY <2>1, <3>2, <4>1
        <4>3. Fits(p)'
          BY <4>2, FitsElsewhere
        <4> QED
          BY <4>1, <4>3 DEF Fits, Here, Now, Created
      <3> QED
        BY <3>1, <3>2
    <2> QED
      BY <1>2, <2>2 DEF FeedInv
  <1> QED
    BY <1>1, <1>2

\* What is known of the one request.
LEMMA OnItsWay ==
  ASSUME FeedInv, Smooth, NEW r \in Req, ~At(r, "idle"), NEW q, q = req[r]
  PROVE  /\ TypeOK /\ Dense /\ q \in Request /\ RequestOK(q) /\ SerialAt(q)
         /\ RoomAt(q) /\ Fits(q)
         /\ \A m \in Msg : m \in Pending(q) \/ view[m] = TrueView(m)
  <1>1. \A s \in Req : s # r => Pending(req[s]) = {}
    BY DEF FeedInv, MessagesInv, Serial, OneByOne, Smooth, At, Pending
  <1>2. \A m \in Msg : m \in Pending(q) \/ view[m] = TrueView(m)
    BY <1>1 DEF FeedInv, MessagesInv, Room, Smooth
  <1>3. Fits(q)
    BY DEF FeedInv, Fits
  <1> QED
    BY <1>2, <1>3, AtStep DEF FeedInv, MessagesInv, Smooth

-----------------------------------------------------------------------------

LEMMA InitFits == Init => FeedInv
  <1> SUFFICES ASSUME Init PROVE FeedInv
    OBVIOUS
  <1>1. \A r \in Req : req[r].pc = "idle"
    BY BlankFacts DEF Init
  <1>2. ASSUME NEW r \in Req PROVE Fits(req[r])
    BY <1>1 DEF Fits, Allowed
  <1> QED
    BY <1>2, InitInv DEF FeedInv

\* Arrivals and changes by others come when no request is under way.
LEMMA FitsOutside ==
  ASSUME FeedInv, MessagesInv',
         \/ ChangeChannel \/ ChangeMember
         \/ \E r \in Req : ChannelArrive(r) \/ MessageArrive(r)
  PROVE  FeedInv'
  <1>1. CASE mix.overlap
    BY <1>1 DEF FeedInv, Smooth, ChangeChannel, ChangeMember, ChannelArrive,
                MessageArrive, Arrive, Stored
  <1>2. CASE ~mix.overlap
    <2>1. \A s \in Req : req[s].pc = "idle"
      BY <1>2 DEF ChangeChannel, ChangeMember, Meanwhile, ChannelArrive,
                  MessageArrive, Arrive, Quiet, At
    <2>2. TypeOK
      BY DEF FeedInv, MessagesInv
    <2>3. ASSUME NEW s \in Req PROVE req'[s].pc \in {"idle", "channel"}
      <3>1. CASE ChangeChannel \/ ChangeMember
        <4>1. req'[s] = [req[s] EXCEPT !.alone = FALSE] /\ req[s] \in Request
          BY <2>2, <3>1 DEF ChangeChannel, ChangeMember, Meanwhile, TypeOK
        <4>2. PICK x \in Request : x = [req[s] EXCEPT !.alone = FALSE] /\ x.pc = req[s].pc
          BY <4>1, AsideFacts
        <4> QED
          BY <2>1, <4>1, <4>2
      <3>2. ASSUME NEW r \in Req, NEW op, NEW u, NEW m, Arrive(r, op, u, m)
            PROVE  req'[s].pc \in {"idle", "channel"}
        <4>1. CASE s = r
          <5>1. req'[s] = [Blank EXCEPT !.pc = "channel", !.op = op, !.u = u,
                                        !.m = m, !.alone = Quiet]
            BY <3>2, <4>1 DEF Arrive
          <5> QED
            BY <5>1, BlankFacts DEF Blank
        <4>2. CASE s # r
          <5>1. req'[s] = [req[s] EXCEPT !.alone = FALSE] /\ req[s] \in Request
            BY <2>2, <3>2, <4>2 DEF Arrive, TypeOK
          <5>2. PICK x \in Request : x = [req[s] EXCEPT !.alone = FALSE] /\ x.pc = req[s].pc
            BY <5>1, AsideFacts
          <5> QED
            BY <2>1, <5>1, <5>2
        <4> QED
          BY <4>1, <4>2
      <3> QED
        BY <3>1, <3>2 DEF ChannelArrive, MessageArrive
    <2>4. ASSUME NEW s \in Req PROVE Fits(req[s])'
      <3>1. PICK p : p = req'[s]
        OBVIOUS
      <3>2. Fits(p)'
        BY <2>3, <3>1, FitsElsewhere
      <3> QED
        BY <3>1, <3>2 DEF Fits, Here, Now, Created
    <2> QED
      BY <2>4 DEF FeedInv
  <1> QED
    BY <1>1, <1>2

\* Steps after which a request has nothing left that the contract asks for.
LEMMA FitsAfterwards ==
  ASSUME FeedInv, MessagesInv', NEW r \in Req, ~At(r, "idle"), mix' = mix, NEW q,
         req' = [req EXCEPT ![r] = q],
         q.pc \in {"idle", "channel", "list", "now", "members", "meta"}
  PROVE  FeedInv'
  <1>1. Fits(q)'
    BY FitsElsewhere
  <1> QED
    BY <1>1, NextFits

LEMMA FitsEnd ==
  ASSUME FeedInv, MessagesInv', NEW r \in Req, ~At(r, "idle"), mix' = mix, End(r)
  PROVE  FeedInv'
  BY BlankFacts, FitsAfterwards DEF End, Become

LEMMA FitsLookups ==
  ASSUME FeedInv, MessagesInv', NEW r \in Req, Lookups(r)
  PROVE  FeedInv'
  <1>1. PICK q : q = req[r]
    OBVIOUS
  <1>2. ~At(r, "idle") /\ UNCHANGED <<Stored, Told>>
    BY DEF Lookups, FindChannel, FindMember, FindManager, FindMessage, FindAgain, List,
           Read, At
  <1>3. /\ mix' = mix /\ channel' = channel /\ row' = row /\ message' = message
        /\ pin' = pin /\ view' = view
    BY <1>2 DEF Stored, Told
  <1>4. CASE End(r)
    BY <1>2, <1>3, <1>4, FitsEnd
  <1>5. Smooth => /\ TypeOK /\ q \in Request /\ RequestOK(q) /\ SerialAt(q)
                  /\ RoomAt(q) /\ Fits(q)
                  /\ \A m \in Msg : m \in Pending(q) \/ view[m] = TrueView(m)
    BY <1>1, <1>2, OnItsWay
  <1>6. ASSUME NEW next, req' = [req EXCEPT ![r] = next], Smooth => Fits(next)
        PROVE  FeedInv'
    <2>1. Smooth => Fits(next)'
      BY <1>3, <1>6 DEF Fits, Here, Now, Created
    <2> QED
      BY <1>2, <1>3, <1>6, <2>1, NextFits
  <1>7. q \in Request
    BY <1>1 DEF FeedInv, MessagesInv, TypeOK
  <1>8. CASE FindChannel(r) /\ ~End(r)
    <2>1. PICK next : next = [q EXCEPT !.pc = "member", !.readOnly = channel = "readOnly"]
      OBVIOUS
    <2>2. /\ req' = [req EXCEPT ![r] = next]
          /\ channel # "deleted" /\ (channel = "archived" => q.op = "read")
      BY <1>1, <1>8, <2>1 DEF FindChannel, Read, End, Become
    <2>3. /\ next.pc = "member" /\ next.op = q.op /\ next.u = q.u
          /\ next.readOnly <=> channel = "readOnly"
      BY <1>7, <2>1 DEF Request
    <2>4. channel \in ChannelState
      BY DEF FeedInv, MessagesInv, TypeOK
    <2>5. Fits(next)
      BY <2>2, <2>3, <2>4 DEF Fits, Allowed, ChannelState
    <2> QED
      BY <1>6, <2>2, <2>5
  <1>9. CASE FindMember(r) /\ ~End(r)
    <2>1. PICK label : label = CASE q.op = "create" -> "insert"
                                 [] q.op = "read" -> "now"
                                 [] q.op \in Listing -> "list"
                                 [] q.op \in Pinning -> "manager"
                                 [] OTHER -> "message"
      OBVIOUS
    <2>2. PICK next : next = [q EXCEPT !.id = row[q.u].id,
                                       !.m = IF q.op = "read" THEN Now ELSE q.m,
                                       !.pc = label]
      OBVIOUS
    <2>3. /\ At(r, "member") /\ req' = [req EXCEPT ![r] = next]
          /\ Here(q.u) /\ (q.op = "create" /\ q.readOnly => row[q.u].role = "ADMIN")
      BY <1>1, <1>9, <2>1, <2>2 DEF FindMember, Read, End, Become
    <2>4. /\ next.pc = label /\ next.op = q.op /\ next.u = q.u
          /\ next.readOnly = q.readOnly
      BY <1>7, <2>2 DEF Request
    <2>5. q.pc = "member" /\ RequestOK(q)
      BY <1>1, <2>3 DEF At, FeedInv, MessagesInv
    <2>6. q.op \in {"create", "read"} \cup Editing \cup Pinning \cup Listing
      BY <2>5 DEF RequestOK
    <2>7. CASE label \in {"now", "list"}
      BY <1>2, <1>3, <2>3, <2>4, <2>7, FitsAfterwards
    <2>8. CASE label \notin {"now", "list"}
      <3>1. label \in {"insert", "manager", "message"}
            /\ q.op \notin {"read"} \cup Listing
            /\ (label = "message" => q.op \notin Pinning)
        BY <2>1, <2>6, <2>8 DEF Editing, Pinning, Listing
      <3>2. Smooth => channel \in {"open", "readOnly"} /\ (q.readOnly <=> channel = "readOnly")
        BY <1>5, <2>5, <3>1 DEF Fits
      <3>3. label = "insert" => q.op = "create"
        BY <2>1, <2>6 DEF Editing, Pinning, Listing
      <3>4. Smooth => Fits(next)
        BY <2>3, <2>4, <3>1, <3>2, <3>3 DEF Fits, Allowed, Pinning
      <3> QED
        BY <1>6, <2>3, <3>4
    <2> QED
      BY <2>7, <2>8
  <1>a. CASE FindManager(r) /\ ~End(r)
    <2>1. PICK next : next = [q EXCEPT !.pc = "message"]
      OBVIOUS
    <2>2. At(r, "manager") /\ req' = [req EXCEPT ![r] = next] /\ q.u \in Manager
      BY <1>1, <1>a, <2>1 DEF FindManager, Read, End, Become
    <2>3. /\ next.pc = "message" /\ next.op = q.op /\ next.u = q.u
          /\ next.readOnly = q.readOnly
      BY <1>7, <2>1 DEF Request
    <2>4. Smooth => Fits(next)
      BY <1>1, <1>5, <2>2, <2>3 DEF Fits, Allowed, At
    <2> QED
      BY <1>6, <2>2, <2>4
  <1>b. CASE FindMessage(r) /\ ~End(r)
    <2> DEFINE pinned == q.m \in pin
    <2>1. PICK label : label = CASE q.op = "update" -> "update"
                                 [] q.op = "delete" -> "unpinAll"
                                 [] q.op = "pin" -> IF pinned THEN "again" ELSE "pin"
                                 [] q.op = "unpin" -> IF pinned THEN "unpin" ELSE "again"
      OBVIOUS
    <2>2. PICK next : next = [q EXCEPT !.pc = label]
      OBVIOUS
    <2>3. /\ At(r, "message") /\ req' = [req EXCEPT ![r] = next]
          /\ Live(q.m) /\ (q.op \in Editing => message[q.m].sender = q.u)
      BY <1>1, <1>b, <2>1, <2>2 DEF FindMessage, Read, End, Become
    <2>4. /\ next.pc = label /\ next.op = q.op /\ next.u = q.u
          /\ next.m = q.m /\ next.readOnly = q.readOnly
      BY <1>7, <2>2 DEF Request
    <2>5. q.pc = "message" /\ RequestOK(q)
      BY <1>1, <2>3 DEF At, FeedInv, MessagesInv
    <2>6. q.op \in {"update", "delete", "pin", "unpin"}
      BY <2>5 DEF RequestOK, Editing, Pinning
    <2>7. /\ label \in {"update", "unpinAll", "pin", "unpin", "again"}
          /\ label \in {"pin", "unpin"} => q.op = label
          /\ label = "again" => (q.op = "pin" <=> q.m \in pin)
      BY <2>1, <2>6
    <2>8. Smooth => view[q.m] = Response(q.m)
      BY <1>5, <2>3, <2>5 DEF Pending, TrueView, Live
    <2>9. Response(q.m).event = "shown" /\ Response(q.m).edits = message[q.m].edits
      BY DEF Response
    <2>a. ASSUME Smooth PROVE Fits(next)
      <3>1. Fits(q) /\ q.op \notin {"create", "read"}
        BY <1>5, <2>6, <2>a
      <3>2. /\ channel \in {"open", "readOnly"} /\ (q.readOnly <=> channel = "readOnly")
            /\ q.op \notin {"read"} \cup Listing /\ Here(q.u)
            /\ q.op \in Pinning => q.u \in Manager
        BY <2>5, <3>1 DEF Fits, Allowed
      <3> QED
        BY <2>3, <2>4, <2>7, <2>8, <2>9, <2>a, <3>1, <3>2 DEF Fits, Allowed
    <2> QED
      BY <1>6, <2>3, <2>a
  <1>c. CASE FindAgain(r) /\ ~End(r)
    <2>1. PICK next : next = [q EXCEPT !.pc = "emit", !.seen = Response(q.m)]
      OBVIOUS
    <2>2. At(r, "again") /\ req' = [req EXCEPT ![r] = next] /\ Live(q.m)
      BY <1>1, <1>c, <2>1 DEF FindAgain, Read, End, Become
    <2>3. /\ next.pc = "emit" /\ next.op = q.op /\ next.u = q.u
          /\ next.m = q.m /\ next.readOnly = q.readOnly /\ next.seen = Response(q.m)
      BY <1>7, <2>1 DEF Request
    <2>4. q.pc = "again" /\ RequestOK(q) /\ q.m \in Msg /\ view[q.m] \in View
      BY <1>1, <2>2 DEF At, FeedInv, MessagesInv, Live, TypeOK
    <2>5. q.op \in {"pin", "unpin"}
      BY <2>4 DEF RequestOK, Pinning
    <2>6. ASSUME Smooth PROVE Fits(next)
      <3>1. /\ channel \in {"open", "readOnly"} /\ (q.readOnly <=> channel = "readOnly")
            /\ Here(q.u) /\ q.u \in Manager
            /\ view[q.m].event = "shown" /\ view[q.m].edits = message[q.m].edits
            /\ q.op = "pin" <=> q.m \in pin
        BY <1>5, <2>4, <2>5, <2>6 DEF Fits, Allowed, Pinning
      <3>2. Response(q.m) = [view[q.m] EXCEPT !.isPinned = q.op = "pin"]
        BY <2>4, <3>1 DEF Response, View
      <3> QED
        BY <2>3, <2>5, <3>1, <3>2 DEF Fits, Allowed, Editing, Pinning, Listing
    <2> QED
      BY <1>6, <2>2, <2>6
  <1>d. List(r) => End(r)
    BY DEF List, Read, End
  <1> QED
    BY <1>4, <1>8, <1>9, <1>a, <1>b, <1>c, <1>d DEF Lookups

LEMMA FitsWrites ==
  ASSUME FeedInv, MessagesInv', NEW r \in Req, Writes(r)
  PROVE  FeedInv'
  <1>1. PICK q : q = req[r]
    OBVIOUS
  <1>2. ~At(r, "idle") /\ mix' = mix /\ channel' = channel /\ view' = view
    BY DEF Writes, InsertMessage, Mark, Update, SoftDelete, UnpinAll, CreatePin, DeletePin,
           SetMessage, SetPins, Told, At
  <1>3. CASE End(r)
    BY <1>2, <1>3, FitsEnd
  <1>4. Smooth => /\ TypeOK /\ Dense /\ q \in Request /\ RequestOK(q) /\ SerialAt(q)
                  /\ RoomAt(q) /\ Fits(q)
                  /\ \A m \in Msg : m \in Pending(q) \/ view[m] = TrueView(m)
    BY <1>1, <1>2, OnItsWay
  <1>5. TypeOK /\ Dense /\ q \in Request /\ RequestOK(q)
    BY <1>1 DEF FeedInv, MessagesInv, TypeOK
  <1>6. CASE InsertMessage(r)
    <2>1. PICK m : m = Now + 1
      OBVIOUS
    <2>2. PICK next : next = [q EXCEPT !.pc = "mark", !.m = m]
      OBVIOUS
    <2>3. /\ q.pc = "insert" /\ m \in Msg /\ row' = row
          /\ message' = [message EXCEPT ![m] = [state |-> "live", sender |-> q.u, edits |-> 0]]
          /\ req' = [req EXCEPT ![r] = next]
      <3>1. Now \in Time
        BY <1>5, NowFacts
      <3> QED
        BY <1>1, <1>6, <2>1, <2>2, <3>1
        DEF InsertMessage, SetMessage, Become, At, Msg, Time
    <2>4. /\ next.pc = "mark" /\ next.op = q.op /\ next.u = q.u /\ next.m = m
          /\ next.readOnly = q.readOnly /\ q.op = "create"
      BY <1>5, <2>2, <2>3 DEF Request, RequestOK
    <2>5. m \notin Created
      BY <1>5, <2>1, NowFacts DEF Time
    <2>6. Smooth => view[m] = NoView
      BY <1>4, <2>3, <2>5 DEF Pending, TrueView, Created
    <2>7. message'[m].sender = q.u
      BY <1>5, <2>3 DEF TypeOK
    <2>8. Smooth => Fits(next)'
      BY <1>2, <1>4, <2>3, <2>4, <2>6, <2>7 DEF Fits, Allowed, Here, Listing, Pinning
    <2> QED
      BY <1>2, <2>3, <2>8, NextFits
  <1>7. CASE Mark(r) /\ q.op = "read" /\ ~End(r)
    <2>1. PICK next : next = [q EXCEPT !.pc = "meta", !.tell[q.u] = "find"]
      OBVIOUS
    <2>2. next.pc = "meta" /\ req' = [req EXCEPT ![r] = next]
      BY <1>1, <1>5, <1>7, <2>1 DEF Mark, Become, End, Request
    <2> QED
      BY <1>2, <2>2, FitsAfterwards
  <1>8. CASE Mark(r) /\ q.op # "read" /\ ~End(r)
    <2>1. PICK next : next = [q EXCEPT !.pc = "emit", !.seen.event = "shown"]
      OBVIOUS
    <2>2. /\ q.pc = "mark" /\ req' = [req EXCEPT ![r] = next]
          /\ row' = [row EXCEPT ![q.u].lastReadAt = q.m] /\ message' = message
      BY <1>1, <1>5, <1>8, <2>1 DEF Mark, Become, End, At, RequestOK
    <2>3. /\ next.pc = "emit" /\ next.op = q.op /\ next.u = q.u /\ next.m = q.m
          /\ next.readOnly = q.readOnly /\ q.op = "create"
          /\ next.seen = [q.seen EXCEPT !.event = "shown"]
      BY <1>5, <2>1, <2>2 DEF Request, RequestOK
    <2>4. row'[q.u].id = row[q.u].id /\ row'[q.u].role = row[q.u].role
      BY <1>5, <2>2 DEF TypeOK, ChannelMember, Request
    <2>5. Smooth => /\ q.seen = NoView /\ view[q.m] = NoView
                    /\ q.m = Now /\ q.m \in Created
      BY <1>4, <2>2 DEF RoomAt, SerialAt, Fits, RequestOK
    <2>6. Now' = Now /\ Created' = Created
      BY <2>2 DEF Now, Created
    <2>7. Smooth => Fits(next)'
      BY <1>2, <1>4, <2>2, <2>3, <2>4, <2>5, <2>6
      DEF Fits, Allowed, Here, Listing, Pinning, Editing
    <2> QED
      BY <1>2, <2>2, <2>7, NextFits
  <1>9. CASE Update(r)
    <2>1. PICK next : next = [q EXCEPT !.pc = "emit",
                                       !.seen = [Response(q.m) EXCEPT !.edits = @ + 1]]
      OBVIOUS
    <2>2. /\ q.pc = "update" /\ req' = [req EXCEPT ![r] = next] /\ row' = row
          /\ message' = [message EXCEPT ![q.m] = [message[q.m] EXCEPT !.edits = @ + 1]]
      BY <1>1, <1>9, <2>1 DEF Update, SetMessage, Become, At
    <2>3. /\ next.pc = "emit" /\ next.op = q.op /\ next.u = q.u /\ next.m = q.m
          /\ next.readOnly = q.readOnly /\ q.op = "update" /\ q.m \in Msg
          /\ next.seen = [Response(q.m) EXCEPT !.edits = @ + 1]
      BY <1>5, <2>1, <2>2, NowFacts DEF Request, RequestOK, Editing
    <2>4. Smooth => view[q.m] = Response(q.m)
      BY <1>4, <2>2, <2>3 DEF Pending, SerialAt, TrueView, Live
    <2>5. Response(q.m).event = "shown"
      BY DEF Response
    <2>6. message'[q.m].sender = message[q.m].sender
      BY <1>5, <2>2, <2>3 DEF TypeOK, Message
    <2>7. Smooth => Fits(next)'
      BY <1>2, <1>4, <2>2, <2>3, <2>4, <2>5, <2>6
      DEF Fits, Allowed, Here, Listing, Pinning, Editing
    <2> QED
      BY <1>2, <2>2, <2>7, NextFits
  <1>a. CASE UnpinAll(r)
    <2>1. PICK next : next = [q EXCEPT !.pc = "delete"]
      OBVIOUS
    <2>2. /\ q.pc = "unpinAll" /\ req' = [req EXCEPT ![r] = next] /\ row' = row
          /\ message' = message
      BY <1>1, <1>a, <2>1 DEF UnpinAll, SetPins, Goto, At
    <2>3. /\ next.pc = "delete" /\ next.op = q.op /\ next.u = q.u /\ next.m = q.m
          /\ next.readOnly = q.readOnly /\ q.op = "delete"
      BY <1>5, <2>1, <2>2 DEF Request, RequestOK
    <2>4. Smooth => Fits(next)'
      BY <1>2, <1>4, <2>2, <2>3 DEF Fits, Allowed, Here, Listing, Pinning, Editing
    <2> QED
      BY <1>2, <2>2, <2>4, NextFits
  <1>b. CASE SoftDelete(r)
    <2>1. PICK next : next = [q EXCEPT !.pc = "emit", !.seen.event = "deleted"]
      OBVIOUS
    <2>2. /\ q.pc = "delete" /\ req' = [req EXCEPT ![r] = next] /\ row' = row
          /\ message' = [message EXCEPT ![q.m] = [message[q.m] EXCEPT !.state = "deleted"]]
      BY <1>1, <1>b, <2>1 DEF SoftDelete, SetMessage, Become, At
    <2>3. /\ next.pc = "emit" /\ next.op = q.op /\ next.u = q.u /\ next.m = q.m
          /\ next.readOnly = q.readOnly /\ q.op = "delete" /\ q.m \in Msg
          /\ next.seen = [q.seen EXCEPT !.event = "deleted"]
      BY <1>5, <2>1, <2>2, NowFacts DEF Request, RequestOK, Editing
    <2>4. Smooth => q.seen = NoView
      BY <1>4, <2>2 DEF RoomAt
    <2>5. message'[q.m].sender = message[q.m].sender
      BY <1>5, <2>2, <2>3 DEF TypeOK, Message
    <2>6. Smooth => Fits(next)'
      BY <1>2, <1>4, <2>2, <2>3, <2>4, <2>5
      DEF Fits, Allowed, Here, Listing, Pinning, Editing
    <2> QED
      BY <1>2, <2>2, <2>6, NextFits
  <1>c. CASE (CreatePin(r) \/ DeletePin(r)) /\ ~End(r)
    <2>1. PICK next : next = [q EXCEPT !.pc = "again"]
      OBVIOUS
    <2>2. /\ q.pc \in {"pin", "unpin"} /\ req' = [req EXCEPT ![r] = next]
          /\ row' = row /\ message' = message
          /\ q.pc = "pin" => pin' = pin \cup {q.m}
          /\ q.pc = "unpin" => pin' = pin \ {q.m}
      BY <1>1, <1>c, <2>1 DEF CreatePin, DeletePin, SetPins, Goto, At
    <2>3. /\ next.pc = "again" /\ next.op = q.op /\ next.u = q.u /\ next.m = q.m
          /\ next.readOnly = q.readOnly
      BY <1>5, <2>1 DEF Request
    <2>4. q.op \in Pinning /\ q.m \in Msg
      BY <1>5, <2>2, NowFacts DEF RequestOK
    <2>5. Smooth => view[q.m] = Response(q.m) /\ (q.op = "pin" <=> q.pc = "pin")
      <3>1. Smooth => view[q.m] = Response(q.m)
        BY <1>4, <2>2, <2>4 DEF Pending, SerialAt, TrueView, Live
      <3>2. Smooth => (q.op = "pin" <=> q.pc = "pin")
        BY <1>4, <2>2 DEF Fits
      <3> QED
        BY <3>1, <3>2
    <2>6. Response(q.m).event = "shown" /\ Response(q.m).edits = message[q.m].edits
      BY DEF Response
    <2>7. Smooth => Fits(next)'
      BY <1>2, <1>4, <2>2, <2>3, <2>4, <2>5, <2>6
      DEF Fits, Allowed, Here, Listing, Pinning, Editing
    <2> QED
      BY <1>2, <2>2, <2>7, NextFits
  <1> QED
    BY <1>3, <1>6, <1>7, <1>8, <1>9, <1>a, <1>b, <1>c DEF Writes

LEMMA FitsEvents ==
  ASSUME FeedInv, MessagesInv', NEW r \in Req, Events(r)
  PROVE  FeedInv'
  <1>1. PICK q : q = req[r]
    OBVIOUS
  <1>2. q \in Request
    BY <1>1 DEF FeedInv, MessagesInv, TypeOK
  <1>3. ~At(r, "idle") /\ mix' = mix
    BY DEF Events, Emit, FindMembers, Answer, FindMeta, CountUnread, EmitMeta, Read,
           Stored, At
  <1>4. CASE End(r)
    BY <1>3, <1>4, FitsEnd
  <1>5. ASSUME NEW next, req' = [req EXCEPT ![r] = next], next.pc \in {"members", "meta"}
        PROVE  FeedInv'
    BY <1>3, <1>5, FitsAfterwards
  <1>6. CASE Emit(r) /\ ~End(r)
    <2>1. PICK next : next = [q EXCEPT !.pc = "members"]
      OBVIOUS
    <2>2. next.pc = "members" /\ req' = [req EXCEPT ![r] = next]
      BY <1>1, <1>2, <1>6, <2>1 DEF Emit, Goto, Request
    <2> QED
      BY <1>5, <2>2
  <1>7. CASE FindMembers(r)
    <2>1. PICK next : next = [q EXCEPT !.pc = "meta",
                                       !.tell = [u \in User |-> IF Here(u) THEN "find" ELSE "no"]]
      OBVIOUS
    <2>2. next.pc = "meta" /\ req' = [req EXCEPT ![r] = next]
      BY <1>1, <1>2, <1>7, <2>1 DEF FindMembers, Read, Become, Request
    <2> QED
      BY <1>5, <2>2
  <1>8. ASSUME NEW u \in User, FindMeta(r, u) \/ CountUnread(r, u) \/ EmitMeta(r, u)
        PROVE  FeedInv'
    <2>1. q.pc = "meta"
      BY <1>1, <1>8 DEF FindMeta, CountUnread, EmitMeta, Read, At
    <2>2. ASSUME NEW tell, NEW found,
                 req' = [req EXCEPT ![r] = [q EXCEPT !.tell = tell, !.found = found]]
          PROVE  FeedInv'
      <3>1. PICK next : next = [q EXCEPT !.tell = tell, !.found = found]
        OBVIOUS
      <3>2. next.pc = "meta" /\ req' = [req EXCEPT ![r] = next]
        BY <1>2, <2>1, <2>2, <3>1 DEF Request
      <3> QED
        BY <1>5, <3>2
    <2>3. PICK tell, found :
            req' = [req EXCEPT ![r] = [q EXCEPT !.tell = tell, !.found = found]]
      <3>1. CASE FindMeta(r, u) /\ channel = "deleted"
        <4>1. [q EXCEPT !.tell[u] = "no"]
                = [q EXCEPT !.tell = [q.tell EXCEPT ![u] = "no"], !.found = q.found]
          BY <1>2 DEF Request
        <4>2. req' = [req EXCEPT ![r] = [q EXCEPT !.tell[u] = "no"]]
          BY <1>1, <3>1 DEF FindMeta, Read, Become
        <4> WITNESS [q.tell EXCEPT ![u] = "no"], q.found
        <4> QED
          BY <4>1, <4>2
      <3>2. CASE FindMeta(r, u) /\ channel # "deleted"
        BY <1>1, <1>2, <3>2 DEF FindMeta, Read, Become, Request
      <3>3. CASE CountUnread(r, u)
        BY <1>1, <1>2, <3>3 DEF CountUnread, Read, Become, Request
      <3>4. CASE EmitMeta(r, u)
        BY <1>1, <1>2, <3>4 DEF EmitMeta, Become, Request
      <3> QED
        BY <1>8, <3>1, <3>2, <3>3, <3>4
    <2> QED
      BY <2>2, <2>3
  <1> QED
    BY <1>4, <1>6, <1>7, <1>8 DEF Events, Answer

LEMMA NextFeed == FeedInv /\ [Next]_vars => FeedInv'
  <1> SUFFICES ASSUME FeedInv, [Next]_vars PROVE FeedInv'
    OBVIOUS
  <1>1. MessagesInv'
    BY NextInv DEF FeedInv
  <1>2. ASSUME NEW r \in Req, Crash(r) PROVE FeedInv'
    BY <1>1, <1>2, FitsEnd DEF Crash, Stored
  <1>3. CASE UNCHANGED vars
    <2>1. ASSUME NEW s \in Req, Fits(req[s]) PROVE Fits(req[s])'
      BY <1>3, <2>1 DEF vars, Fits, Here, Now, Created
    <2> QED
      BY <1>1, <1>3, <2>1 DEF vars, FeedInv, Smooth
  <1> QED
    BY <1>1, <1>2, <1>3, FitsOutside, FitsLookups, FitsWrites, FitsEvents DEF Next

-----------------------------------------------------------------------------
(* The contract: every step is one of its operations, or none              *)

\* A request that runs is the only one, and stays that of the same person until
\* its end.
LEMMA IsAsked ==
  ASSUME OneByOne, NEW r \in Req, ~At(r, "idle")
  PROVE  asking = {req[r].u}
  BY DEF OneByOne, asking

LEMMA RunsOn ==
  ASSUME TypeOK, NEW r \in Req, Lookups(r) \/ Writes(r) \/ Events(r) \/ Crash(r)
  PROVE  /\ ~At(r, "idle")
         /\ \A s \in Req : s # r => req'[s] = req[s]
         /\ req'[r].pc = "idle" \/ req'[r].u = req[r].u
  <1>0. ~At(r, "idle")
    BY DEF Lookups, FindChannel, FindMember, FindManager, FindMessage, FindAgain, List,
           Writes, InsertMessage, Mark, Update, SoftDelete, UnpinAll, CreatePin, DeletePin,
           Events, Emit, FindMembers, Answer, FindMeta, CountUnread, EmitMeta, Crash, Read,
           At
  <1>1. req \in [Req -> Request]
    BY DEF TypeOK
  <1>2. PICK q : q = req[r] /\ q \in Request
    BY <1>1
  <1>3. ASSUME NEW next, Become(r, next)
        PROVE  req'[r] = next /\ \A s \in Req : s # r => req'[s] = req[s]
    BY <1>1, <1>3 DEF Become
  <1>4. /\ \A s \in Req : s # r => req'[s] = req[s]
        /\ req'[r].pc = "idle" \/ req'[r].u = q.u
    <2>1. CASE End(r)
      BY <1>3, <2>1, BlankFacts DEF End
    <2>2. ASSUME NEW label, Goto(r, label)
          PROVE  /\ \A s \in Req : s # r => req'[s] = req[s]
                 /\ req'[r].u = q.u
      BY <1>1, <1>2, <2>2 DEF Goto, Request
    <2>3. CASE Lookups(r)
      <3>1. CASE FindChannel(r)
        BY <1>1, <1>2, <3>1, BlankFacts DEF Become, FindChannel, Read, Request
      <3>5. CASE FindMember(r)
        BY <1>1, <1>2, <3>5, BlankFacts DEF Become, FindMember, Read, Request
      <3>2. CASE FindManager(r)
        BY <1>1, <1>2, <3>2, BlankFacts DEF Become, FindManager, Read, Request
      <3>3. CASE FindMessage(r)
        BY <1>1, <1>2, <3>3, BlankFacts DEF Become, FindMessage, Read, Request
      <3>4. CASE FindAgain(r)
        BY <1>1, <1>2, <3>4, BlankFacts DEF Become, FindAgain, Read, Request
      <3>6. CASE List(r)
        BY <1>1, <1>2, <3>6, BlankFacts DEF Become, List, Read
      <3> QED
        BY <2>3, <3>1, <3>2, <3>3, <3>4, <3>5, <3>6 DEF Lookups
    <2>4. CASE Writes(r)
      <3>1. CASE InsertMessage(r)
        BY <1>1, <1>2, <3>1, BlankFacts DEF Become, InsertMessage, Request
      <3>2. CASE Mark(r)
        BY <1>1, <1>2, <3>2, BlankFacts DEF Become, Mark, Request
      <3>3. CASE Update(r)
        BY <1>1, <1>2, <3>3, BlankFacts DEF Become, Update, Request
      <3>6. CASE SoftDelete(r)
        BY <1>1, <1>2, <3>6, BlankFacts DEF Become, SoftDelete, Request
      <3>4. CASE UnpinAll(r)
        BY <2>2, <3>4 DEF UnpinAll
      <3>5. CASE CreatePin(r) \/ DeletePin(r)
        BY <2>1, <2>2, <3>5 DEF CreatePin, DeletePin
      <3> QED
        BY <2>4, <3>1, <3>2, <3>3, <3>4, <3>5, <3>6 DEF Writes
    <2>5. CASE Events(r)
      <3>1. CASE Emit(r) \/ Answer(r)
        BY <2>1, <2>2, <3>1 DEF Emit, Answer
      <3>2. CASE FindMembers(r)
        BY <1>1, <1>2, <3>2, BlankFacts DEF Become, FindMembers, Read, Request
      <3>3. ASSUME NEW u \in User, FindMeta(r, u)
            PROVE  /\ \A s \in Req : s # r => req'[s] = req[s]
                   /\ req'[r].pc = "idle" \/ req'[r].u = q.u
        BY <1>1, <1>2, <3>3, BlankFacts DEF Become, FindMeta, Read, Request
      <3>4. ASSUME NEW u \in User, CountUnread(r, u)
            PROVE  /\ \A s \in Req : s # r => req'[s] = req[s]
                   /\ req'[r].pc = "idle" \/ req'[r].u = q.u
        BY <1>1, <1>2, <3>4, BlankFacts DEF Become, CountUnread, Read, Request
      <3>5. ASSUME NEW u \in User, EmitMeta(r, u)
            PROVE  /\ \A s \in Req : s # r => req'[s] = req[s]
                   /\ req'[r].pc = "idle" \/ req'[r].u = q.u
        BY <1>1, <1>2, <3>5, BlankFacts DEF Become, EmitMeta, Request
      <3> QED
        BY <2>5, <3>1, <3>2, <3>3, <3>4, <3>5 DEF Events
    <2> QED
      BY <2>1, <2>3, <2>4, <2>5 DEF Crash
  <1> QED
    BY <1>0, <1>2, <1>4

LEMMA MovesOn ==
  ASSUME FeedInv, Smooth, NEW r \in Req, Lookups(r) \/ Writes(r) \/ Events(r) \/ Crash(r)
  PROVE  asking = {req[r].u} /\ asking' \in {{req[r].u}, {}}
  <1>1. TypeOK /\ OneByOne
    BY DEF FeedInv, MessagesInv, Serial, Smooth
  <1>2. /\ ~At(r, "idle")
        /\ \A s \in Req : s # r => req'[s] = req[s]
        /\ req'[r].pc = "idle" \/ req'[r].u = req[r].u
    BY <1>1, RunsOn
  <1>3. \A s \in Req : s # r => req'[s].pc = "idle"
    BY <1>1, <1>2 DEF OneByOne, At
  <1>4. CASE req'[r].pc = "idle"
    BY <1>1, <1>2, <1>3, <1>4, IsAsked DEF asking, At
  <1>5. CASE req'[r].pc # "idle"
    BY <1>1, <1>2, <1>3, <1>5, IsAsked DEF asking, At
  <1> QED
    BY <1>4, <1>5

LEMMA Asks ==
  ASSUME TypeOK, NEW r \in Req, ChannelArrive(r) \/ MessageArrive(r), ~mix.overlap
  PROVE  \E u \in User : asking = {} /\ asking' = {u}
  <1>1. PICK op \in Operation, u \in User, m \in Time : Arrive(r, op, u, m)
    <2>1. CASE ChannelArrive(r)
      BY <2>1, MsgFacts DEF ChannelArrive, Operation
    <2>2. CASE MessageArrive(r)
      BY <2>2, MsgFacts DEF MessageArrive, Operation, Created
    <2> QED
      BY <2>1, <2>2
  <1>2. Quiet /\ req'[r].pc = "channel" /\ req'[r].u = u
    BY <1>1 DEF Arrive, Blank
  <1>3. \A s \in Req : s # r => req'[s].pc = req[s].pc
    BY <1>1 DEF Arrive, TypeOK, Request
  <1>4. asking = {} /\ asking' = {u}
    BY <1>2, <1>3 DEF asking, Quiet, At
  <1> QED
    BY <1>4

\* Of what a request does, nothing but its events and its end is seen.
LEMMA IsHidden ==
  ASSUME FeedInv, MessagesInv', [Next]_vars, Smooth,
         ~ChangeChannel, ~ChangeMember, \A r \in Req : ~Emit(r)
  PROVE  Contract!CNext \/ UNCHANGED Contract!cvars
  <1>0. TypeOK /\ Dense /\ Now \in Time
    BY NowFacts DEF FeedInv, MessagesInv
  <1>1. channel' = channel /\ view' = view
    BY DEF Next, vars, ChannelArrive, MessageArrive, Arrive, Lookups, FindChannel,
           FindMember, FindManager, FindMessage, FindAgain, List, Read, Writes,
           InsertMessage, Mark, Update, SoftDelete, UnpinAll, CreatePin, DeletePin,
           SetMessage, SetPins, Events, FindMembers, Answer, FindMeta, CountUnread,
           EmitMeta, Crash, Stored, Told
  <1>2. roles' = roles
    <2>1. ASSUME NEW r \in Req, Mark(r) PROVE roles' = roles
      <3>1. \/ row' = row
            \/ \E u, t : row' = [row EXCEPT ![u].lastReadAt = t]
        BY <2>1 DEF Mark
      <3>2. ASSUME NEW u, NEW t, row' = [row EXCEPT ![u].lastReadAt = t], NEW v \in User
            PROVE  row'[v].id = row[v].id /\ row'[v].role = row[v].role
        BY <1>0, <3>2 DEF TypeOK, ChannelMember
      <3> QED
        BY <3>1, <3>2 DEF roles, Here
    <2>2. (\A r \in Req : ~Mark(r)) => row' = row
      BY DEF Next, vars, ChannelArrive, MessageArrive, Arrive, Lookups, FindChannel,
             FindMember, FindManager, FindMessage, FindAgain, List, Read, Writes,
             InsertMessage, Update, SoftDelete, UnpinAll, CreatePin, DeletePin,
             SetMessage, SetPins, Events, FindMembers, Answer, FindMeta, CountUnread,
             EmitMeta, Crash, Stored
    <2> QED
      BY <2>1, <2>2 DEF roles, Here
  <1>3. author' = author
    <2>1. ASSUME NEW r \in Req, InsertMessage(r) PROVE author' = author
      <3>1. PICK m : /\ m = Now + 1 /\ m <= MaxMessage /\ At(r, "insert")
                     /\ \A n \in Msg : n # m => message'[n] = message[n]
        BY <1>0, <2>1 DEF InsertMessage, SetMessage, TypeOK
      <3>2. m \in Msg /\ m \notin Created
        BY <1>0, <3>1, NowFacts DEF Msg, Time
      <3>3. view[m] = NoView
        <4>1. PICK q : q = req[r]
          OBVIOUS
        <4>2. m \in Pending(q) \/ view[m] = TrueView(m)
          BY <3>1, <3>2, <4>1, OnItsWay DEF At
        <4> QED
          BY <3>1, <3>2, <4>1, <4>2 DEF Pending, At, TrueView, Created
      <3> QED
        BY <1>1, <3>1, <3>3, ViewTypes DEF author
    <2>2. ASSUME NEW r \in Req, Update(r) \/ SoftDelete(r) PROVE author' = author
      <3>1. \A n \in Msg : message'[n].sender = message[n].sender
        BY <1>0, <2>2 DEF Update, SoftDelete, SetMessage, TypeOK, Message
      <3> QED
        BY <1>1, <3>1 DEF author
    <2>3. (\A r \in Req : ~InsertMessage(r) /\ ~Update(r) /\ ~SoftDelete(r))
            => message' = message
      BY DEF Next, vars, ChannelArrive, MessageArrive, Arrive, Lookups, FindChannel,
             FindMember, FindManager, FindMessage, FindAgain, List, Read, Writes, Mark,
             UnpinAll, CreatePin, DeletePin, SetPins, Events, FindMembers, Answer,
             FindMeta, CountUnread, EmitMeta, Crash, Stored
    <2> QED
      BY <1>1, <2>1, <2>2, <2>3 DEF author
  <1>4. ASSUME NEW r \in Req, ChannelArrive(r) \/ MessageArrive(r)
        PROVE  Contract!CNext
    <2>1. PICK u \in User : asking = {} /\ asking' = {u}
      BY <1>0, <1>4, Asks DEF Smooth
    <2>2. Contract!Ask(u)
      BY <1>1, <1>2, <1>3, <2>1 DEF Contract!Ask
    <2> QED
      BY <2>2 DEF Contract!CNext
  <1>5. ASSUME NEW r \in Req, Lookups(r) \/ Writes(r) \/ Events(r) \/ Crash(r)
        PROVE  Contract!CNext \/ UNCHANGED Contract!cvars
    <2>1. asking' \in {asking, {}}
      BY <1>5, MovesOn
    <2>2. CASE asking' = asking
      BY <1>1, <1>2, <1>3, <2>2 DEF Contract!cvars
    <2>3. CASE asking' = {}
      <3>1. Contract!Answer
        BY <1>1, <1>2, <1>3, <2>3 DEF Contract!Answer
      <3> QED
        BY <3>1 DEF Contract!CNext
    <2> QED
      BY <2>1, <2>2, <2>3
  <1>6. CASE UNCHANGED vars
    BY <1>1, <1>2, <1>3, <1>6 DEF Contract!cvars, vars, asking, At
  <1> QED
    BY <1>4, <1>5, <1>6 DEF Next

LEMMA IsSurroundings ==
  ASSUME FeedInv, Smooth, ChangeChannel \/ ChangeMember
  PROVE  Contract!CNext
  <1>0. TypeOK /\ Quiet /\ asking = {} /\ asking' = {}
    <2>1. TypeOK /\ Quiet
      BY DEF FeedInv, MessagesInv, ChangeChannel, ChangeMember, Meanwhile, Smooth
    <2>2. \A r \in Req : req'[r].pc = req[r].pc
      BY <2>1 DEF ChangeChannel, ChangeMember, Meanwhile, TypeOK, Request
    <2> QED
      BY <2>1, <2>2 DEF asking, Quiet, At
  <1>1. view' = view /\ message' = message /\ author' = author
    BY DEF ChangeChannel, ChangeMember, Told, author
  <1>2. CASE ChangeChannel
    <2>1. /\ channel # "deleted" /\ channel' \in ChannelState /\ roles' = roles
      BY <1>2 DEF ChangeChannel, roles, Here
    <2> QED
      BY <1>0, <1>1, <2>1 DEF Contract!CNext, Contract!Surroundings, ChannelState
  <1>3. CASE ChangeMember
    <2>1. channel' = channel
      BY <1>3 DEF ChangeMember
    <2>2. PICK u \in User, role \in {"ADMIN", "MEMBER", "NONE"} :
            /\ roles[u] = "NONE" \/ role = "NONE"
            /\ roles' = [roles EXCEPT ![u] = role]
      <3>1. ASSUME NEW u \in User, Join(u)
            PROVE  \E role \in {"ADMIN", "MEMBER"} :
                     roles[u] = "NONE" /\ roles' = [roles EXCEPT ![u] = role]
        <4>1. PICK i \in RowId, role \in {"ADMIN", "MEMBER"} :
                /\ ~Here(u)
                /\ row' = [row EXCEPT ![u] = [id |-> i, role |-> role, lastReadAt |-> 0]]
          BY <3>1 DEF Join
        <4>2. i # None
          OBVIOUS
        <4> QED
          BY <1>0, <4>1, <4>2 DEF roles, Here, TypeOK
      <3>2. ASSUME NEW u \in User, Leave(u)
            PROVE  roles' = [roles EXCEPT ![u] = "NONE"]
        BY <1>0, <3>2 DEF Leave, roles, Here, Absent, TypeOK
      <3>3. PICK u \in User : Join(u) \/ Leave(u)
        BY <1>3 DEF ChangeMember
      <3> QED
        BY <3>1, <3>2, <3>3
    <2> QED
      BY <1>0, <1>1, <2>1, <2>2 DEF Contract!CNext, Contract!Surroundings
  <1> QED
    BY <1>2, <1>3

\* An event is an operation of somebody who may do it now.
LEMMA IsOperation ==
  ASSUME FeedInv, Smooth, NEW r \in Req, Emit(r)
  PROVE  Contract!CNext
  <1>1. PICK q : q = req[r]
    OBVIOUS
  <1>2. /\ q.pc = "emit" /\ ~At(r, "idle")
        /\ view' = [view EXCEPT ![q.m] = q.seen] /\ channel' = channel
        /\ row' = row /\ message' = message
    BY <1>1 DEF Emit, Stored, At
  <1>3. /\ TypeOK /\ Dense /\ q \in Request /\ RequestOK(q) /\ Fits(q)
        /\ \A m \in Msg : m \in {q.m} \/ view[m] = TrueView(m)
    <2>1. /\ TypeOK /\ Dense /\ q \in Request /\ RequestOK(q) /\ Fits(q)
          /\ \A m \in Msg : m \in Pending(q) \/ view[m] = TrueView(m)
      BY <1>1, <1>2, OnItsWay
    <2> QED
      BY <1>2, <2>1 DEF Pending
  <1>4. q.op \in {"create", "update", "delete", "pin", "unpin"}
    BY <1>2, <1>3 DEF RequestOK, Fits, Allowed, Editing, Pinning, Listing
  <1>5. PICK u \in User : u = q.u
    BY <1>3 DEF Request
  <1>6. /\ channel \in {"open", "readOnly"} /\ (q.readOnly <=> channel = "readOnly")
        /\ Here(u) /\ (q.op = "create" /\ q.readOnly => row[u].role = "ADMIN")
        /\ q.op \in {"pin", "unpin"} => u \in Manager
        /\ q.op \in {"create", "update", "delete"} => message[q.m].sender = u
    BY <1>2, <1>3, <1>4, <1>5 DEF Fits, Allowed, Editing, Pinning
  <1>e. asking = {u} /\ asking' \in {{u}, {}}
    BY <1>1, <1>5, MovesOn DEF Events
  <1>7. Contract!Active /\ u \in Contract!In /\ (q.op = "create" /\ channel = "readOnly" =>
                                                   roles[u] = "ADMIN")
    BY <1>3, <1>6 DEF Contract!Active, Contract!In, roles, TypeOK, ChannelMember
  <1>8. q.m \in Msg
    <2>1. CASE q.op = "create"
      BY <1>2, <1>3, <2>1, NowFacts DEF Fits
    <2>2. CASE q.op # "create"
      BY <1>2, <1>3, <1>4, <2>2, NowFacts DEF RequestOK, Editing, Pinning
    <2> QED
      BY <2>1, <2>2
  <1>9. PICK m \in Msg : m = q.m
    BY <1>8
  <1>a. roles' = roles
    BY <1>2 DEF roles, Here
  <1>b. view[m] \in View /\ message[m] \in Message
    BY <1>3 DEF TypeOK
  <1>c. CASE q.op = "create"
    <2>1. /\ view[m] = NoView /\ m = Now /\ message[m].sender = u
          /\ q.seen = [NoView EXCEPT !.event = "shown"]
      BY <1>2, <1>3, <1>6, <1>9, <1>c DEF Fits
    <2>2. ASSUME NEW n \in Msg PROVE view[n].event = "none" <=> n >= m
      <3>1. Created = 1..Now /\ Now \in Time
        BY <1>3, NowFacts
      <3>2. CASE n = m
        BY <2>1, <3>2, ViewTypes DEF Msg
      <3>3. CASE n # m
        <4>1. view[n] = TrueView(n)
          BY <1>3, <1>9, <3>3
        <4>2. n \in Created <=> n < m
          BY <2>1, <3>1, <3>3 DEF Msg, Time
        <4>3. message[n].state \in {"none", "live", "deleted"}
          BY <1>3 DEF TypeOK, Message
        <4>4. view[n].event = "none" <=> message[n].state = "none"
          BY <4>1, <4>3, ViewTypes DEF TrueView, Response, NoView
        <4> QED
          BY <3>3, <4>2, <4>4 DEF Created, Msg
      <3> QED
        BY <3>2, <3>3
    <2>3. view' = [view EXCEPT ![m] = [event |-> "shown", edits |-> 0, isPinned |-> FALSE]]
      BY <1>2, <1>9, <2>1 DEF NoView
    <2>4. author' = [author EXCEPT ![m] = u]
      <3>1. view'[m].event = "shown" /\ \A n \in Msg : n # m => view'[n] = view[n]
        BY <1>3, <2>3 DEF TypeOK
      <3>2. author'[m] = u /\ \A n \in Msg : n # m => author'[n] = author[n]
        BY <1>2, <2>1, <3>1 DEF author
      <3> QED
        BY <3>2 DEF author
    <2>5. Contract!Post(u, m)
      BY <1>2, <1>7, <1>a, <1>c, <1>e, <2>2, <2>3, <2>4
      DEF Contract!Post, Contract!Tell
    <2> QED
      BY <2>5 DEF Contract!CNext
  <1>d. CASE q.op # "create"
    <2>1. view[m].event = "shown"
      BY <1>2, <1>3, <1>4, <1>9, <1>d DEF Fits, Editing, Pinning
    <2>2. /\ q.op = "update" => q.seen = [view[m] EXCEPT !.edits = @ + 1]
          /\ q.op = "delete" => q.seen = [NoView EXCEPT !.event = "deleted"]
          /\ q.op \in {"pin", "unpin"} => q.seen = [view[m] EXCEPT !.isPinned = q.op = "pin"]
      BY <1>2, <1>3, <1>4, <1>9 DEF Fits, Pinning
    <2>3. q.seen.event # "none"
      BY <1>4, <1>b, <1>d, <2>1, <2>2 DEF View, NoView
    <2>4. author' = author
      <3>1. view'[m].event # "none"
        BY <1>2, <1>3, <1>9, <2>3 DEF TypeOK
      <3>2. \A n \in Msg : n # m => view'[n] = view[n]
        BY <1>2, <1>3, <1>9 DEF TypeOK
      <3> QED
        BY <1>2, <2>1, <3>1, <3>2 DEF author
    <2>5. Contract!Shown(m) /\ view' = [view EXCEPT ![m] = q.seen]
      BY <1>2, <1>9, <2>1 DEF Contract!Shown
    <2>6. q.op \in {"update", "delete"} => author[m] = u
      BY <1>6, <1>9, <2>1 DEF author
    <2>7. CASE q.op = "update"
      <3>1. Contract!Change(u, m)
        BY <1>2, <1>7, <1>a, <1>e, <2>2, <2>4, <2>5, <2>6, <2>7
        DEF Contract!Change, Contract!Tell
      <3> QED
        BY <3>1 DEF Contract!CNext
    <2>8. CASE q.op = "delete"
      <3>1. Contract!Remove(u, m)
        BY <1>2, <1>7, <1>a, <1>e, <2>2, <2>4, <2>5, <2>6, <2>8
        DEF Contract!Remove, Contract!Tell, NoView
      <3> QED
        BY <3>1 DEF Contract!CNext
    <2>9. CASE q.op \in {"pin", "unpin"}
      <3>1. PICK isPinned \in BOOLEAN : isPinned = (q.op = "pin")
        OBVIOUS
      <3>2. Contract!SetPin(u, m, isPinned)
        BY <1>2, <1>6, <1>7, <1>a, <1>e, <2>2, <2>4, <2>5, <2>9, <3>1
        DEF Contract!SetPin, Contract!Tell
      <3> QED
        BY <3>2 DEF Contract!CNext
    <2> QED
      BY <1>4, <1>d, <2>7, <2>8, <2>9
  <1> QED
    BY <1>c, <1>d

LEMMA ContractBegins == Init => Contract!CInit
  <1> SUFFICES ASSUME Init PROVE Contract!CInit
    OBVIOUS
  <1>1. TypeOK
    BY InitInv DEF MessagesInv
  <1>2. roles \in [User -> {"ADMIN", "MEMBER", "NONE"}]
    BY <1>1 DEF roles, TypeOK, ChannelMember
  <1>3. view = [m \in Msg |-> [event |-> "none", edits |-> 0, isPinned |-> FALSE]]
    BY DEF Init, NoView
  <1>4. author = [m \in Msg |-> "NOBODY"]
    BY <1>3 DEF author
  <1>5. asking = {}
    BY DEF Init, asking, At, Blank
  <1> QED
    BY <1>2, <1>3, <1>4, <1>5 DEF Init, Contract!CInit, Contract!Active

\* KeepsContract: of requests that neither overlap nor are cut off, everything
\* that clients see is an operation of the contract.
THEOREM FeedKeepsTheContract == Spec => KeepsContract
  <1>1. FeedInv /\ [Next]_vars =>
          [~mix.overlap /\ ~mix.crash => Contract!CNext]_(Contract!cvars)
    <2> SUFFICES ASSUME FeedInv, [Next]_vars, Smooth
                 PROVE  Contract!CNext \/ UNCHANGED Contract!cvars
      BY DEF Smooth
    <2> QED
      BY IsHidden, IsSurroundings, IsOperation, NextInv DEF FeedInv
  <1> QED
    BY InitFits, NextFeed, ContractBegins, <1>1, PTL DEF Spec, KeepsContract

=============================================================================
