--------------------------- MODULE ChannelsProofs ---------------------------
(***************************************************************************)
(* Theorems about Channels that hold for every set of accounts, channels,  *)
(* names and overlapping requests, and whatever operations are enabled;    *)
(* the last two sections are about requests that do not overlap.           *)
(***************************************************************************)
EXTENDS Channels, TLAPS

\* What a handler has established by the time it reaches a statement: which
\* operations get there, and what they know of their channel.
Consistent(ch, q) ==
    /\ q.pc = "guard" => q.op \in Own
    /\ q.pc = "channel" => q.op \in Management \cup Moderation \cup Own
    /\ q.pc = "person" => q.op = "add"
    /\ q.pc = "name" => q.op \in {"create", "rename"}
    /\ q.pc \in {"insert", "own"} => q.op = "create"
    /\ q.pc \in Management => q.op = q.pc
    /\ q.op \in Management /\ q.pc # "channel" => ch[q.c].state # "none"
    /\ q.pc = "activate" => q.op = "admit"
    /\ q.pc = "row" => q.op \in Own \cup Moderation \cup {"admit"}
    /\ q.pc = "enter" => q.op \in {"join", "add", "admit"}
    /\ q.op = "admit" => q.c = General
    /\ q.pc \in {"name", "insert", "rename", "delete", "archive", "exit"}
         => q.c # General
    /\ q.pc = "row" /\ q.op \in {"leave", "kick"} => q.c # General
    /\ q.pc \in {"row", "enter"} /\ q.op \in {"join", "admit"}
         => ch[q.c].state # "none" /\ ch[q.c].type = "PUBLIC"
    /\ q.pc \in {"name", "insert"} /\ q.op = "create" => ch[q.c].state = "none"
    /\ q.pc = "own" => ch[q.c].state # "none" /\ ch[q.c].creator = q.who
    /\ q.pc \in {"deactivate", "channels"} => q.op = "depart"

\* Ids of new channels are drawn once.
IdsDrawnOnce ==
    \A r, s \in Req :
        r # s /\ req[r].op = "create" /\ req[s].op = "create" => req[r].c # req[s].c

ChannelsInv ==
    /\ TypeOK
    /\ GeneralStays
    /\ \A r \in Req : Consistent(channel, req[r])
    /\ IdsDrawnOnce

USE ChannelsAssumption DEF Management, Moderation, Own

-----------------------------------------------------------------------------
(* The shape of the steps                                                  *)

LEMMA BlankType == Blank \in Request /\ Consistent(channel, Blank)
  BY DEF Blank, Request, Label, Operation, Own, ChannelType, MemberRole, Consistent

LEMMA InitInv == Init => ChannelsInv
  <1> SUFFICES ASSUME Init PROVE ChannelsInv
    OBVIOUS
  <1>1. active \in SUBSET User
    BY DEF Init
  <1>2. channel \in [Chan -> Channel]
    BY DEF Init, Channel, ChannelType
  <1>3. row \in [Chan -> [User -> ChannelMember]]
    <2>1. PICK i \in RowId :
            row = [c \in Chan |-> [u \in User |->
                     IF c = General /\ u = Founder
                     THEN [Absent EXCEPT !.id = i, !.role = "ADMIN"] ELSE Absent]]
      BY DEF Init
    <2>2. /\ Absent \in ChannelMember
          /\ [Absent EXCEPT !.id = i, !.role = "ADMIN"] \in ChannelMember
      BY DEF Absent, ChannelMember, MemberRole
    <2> QED
      BY <2>1, <2>2
  <1>4. req \in [Req -> Request] /\ \A r \in Req : req[r] = Blank
    BY BlankType DEF Init
  <1>5. GeneralStays
    BY DEF Init, GeneralStays, Live
  <1>6. IdsDrawnOnce
    BY <1>4 DEF IdsDrawnOnce, Blank
  <1> QED
    BY <1>1, <1>2, <1>3, <1>4, <1>5, <1>6, BlankType DEF ChannelsInv, TypeOK

\* A step of one request that leaves the channels alone.
LEMMA SameChannels ==
  ASSUME ChannelsInv, NEW r \in Req, NEW q \in Request,
         req' = [req EXCEPT ![r] = q], channel' = channel,
         active' \in SUBSET User, row' \in [Chan -> [User -> ChannelMember]],
         Consistent(channel, q),
         q.op = "create" =>
            \A s \in Req \ {r} : req[s].op = "create" => req[s].c # q.c
  PROVE  ChannelsInv'
  <1>1. TypeOK'
    BY DEF ChannelsInv, TypeOK
  <1>2. GeneralStays'
    BY DEF ChannelsInv, GeneralStays, Live
  <1>3. \A s \in Req : req'[s] = IF s = r THEN q ELSE req[s]
    BY DEF ChannelsInv, TypeOK
  <1>4. ASSUME NEW s \in Req PROVE Consistent(channel', req'[s])
    <2>1. Consistent(channel, req'[s])
      BY <1>3 DEF ChannelsInv
    <2> QED
      BY <2>1 DEF Consistent, Known
  <1>5. IdsDrawnOnce'
    BY <1>3 DEF ChannelsInv, IdsDrawnOnce
  <1> QED
    BY <1>1, <1>2, <1>4, <1>5 DEF ChannelsInv

\* The same for one that ends.
LEMMA EndsQuietly ==
  ASSUME ChannelsInv, NEW r \in Req, End(r), channel' = channel,
         active' \in SUBSET User, row' \in [Chan -> [User -> ChannelMember]]
  PROVE  ChannelsInv'
  <1>1. Blank \in Request /\ Consistent(channel, Blank) /\ Blank.op # "create"
    BY BlankType DEF Blank
  <1>2. req' = [req EXCEPT ![r] = Blank]
    BY DEF End
  <1> QED
    BY <1>1, <1>2, SameChannels

LEMMA ArrivalsKeepInv ==
  ASSUME ChannelsInv, NEW r \in Req, Arrivals(r)
  PROVE  ChannelsInv'
  <1> USE DEF Arrive, At
  <1>0. /\ active \in SUBSET User /\ row \in [Chan -> [User -> ChannelMember]]
        /\ channel \in [Chan -> Channel] /\ req \in [Req -> Request]
    BY DEF ChannelsInv, TypeOK
  <1>1. CASE CreateArrive(r)
    <2>1. PICK u \in Staff \cap active, c \in Chan, n \in Name, t \in ChannelType :
            /\ ~Known(c)
            /\ \A s \in Req : ~(req[s].op = "create" /\ req[s].c = c)
            /\ req' = [req EXCEPT ![r] =
                 [[Blank EXCEPT !.pc = "name", !.c = c, !.who = u,
                                !.name = n, !.type = t] EXCEPT !.op = "create"]]
            /\ UNCHANGED <<active, channel, row>>
      BY <1>1 DEF CreateArrive
    <2> DEFINE q == [[Blank EXCEPT !.pc = "name", !.c = c, !.who = u,
                                !.name = n, !.type = t] EXCEPT !.op = "create"]
    <2>2. c # General
      BY <2>1 DEF ChannelsInv, GeneralStays, Live, Known
    <2>3. q \in Request
      BY DEF Blank, Request, Label, Operation, MemberRole
    <2>4. Consistent(channel, q)
      BY <2>1, <2>2 DEF Blank, Consistent, Known
    <2>5. \A s \in Req \ {r} : req[s].op = "create" => req[s].c # q.c
      BY <2>1 DEF Blank
    <2> HIDE DEF q
    <2> QED
      BY <2>1, <2>3, <2>4, <2>5, <1>0, SameChannels DEF q
  <1>2. CASE ManageArrive(r)
    <2>1. PICK op \in Management, c \in Chan, n \in Name :
            /\ req' = [req EXCEPT ![r] =
                 [[Blank EXCEPT !.pc = "channel", !.c = c, !.name = n] EXCEPT !.op = op]]
            /\ UNCHANGED <<active, channel, row>>
      BY <1>2 DEF ManageArrive
    <2> DEFINE q == [[Blank EXCEPT !.pc = "channel", !.c = c, !.name = n] EXCEPT !.op = op]
    <2>2. q \in Request /\ Consistent(channel, q) /\ q.op # "create"
      BY DEF Blank, Request, Label, Operation, Management, ChannelType, MemberRole, Consistent
    <2> HIDE DEF q
    <2> QED
      BY <2>1, <2>2, <1>0, SameChannels DEF q
  <1>3. CASE ModerateArrive(r)
    <2>1. PICK op \in Moderation, c \in Chan, u \in User, k \in MemberRole :
            /\ req' = [req EXCEPT ![r] =
                 [[Blank EXCEPT !.pc = "channel", !.c = c, !.who = u, !.role = k]
                    EXCEPT !.op = op]]
            /\ UNCHANGED <<active, channel, row>>
      <3>1. PICK op \in Moderation, c \in Chan, u \in User, k \in MemberRole :
              /\ Known(c) /\ Staff \cap active # {}
              /\ op # "role" => k = "MEMBER"
              /\ Arrive(r, op, [Blank EXCEPT !.pc = "channel", !.c = c,
                                             !.who = u, !.role = k])
        BY <1>3 DEF ModerateArrive
      <3> QED
        BY <3>1
    <2> DEFINE q == [[Blank EXCEPT !.pc = "channel", !.c = c, !.who = u, !.role = k]
                       EXCEPT !.op = op]
    <2>2. q \in Request /\ Consistent(channel, q) /\ q.op # "create"
      BY DEF Blank, Request, Label, Operation, Moderation, ChannelType, Consistent
    <2> HIDE DEF q
    <2> QED
      BY <2>1, <2>2, <1>0, SameChannels DEF q
  <1>4. CASE OwnArrive(r)
    <2>1. PICK op \in Own, c \in Chan, u \in active :
            /\ req' = [req EXCEPT ![r] =
                 [[Blank EXCEPT !.c = c, !.who = u,
                      !.pc = IF op = "join" THEN "channel" ELSE "guard"] EXCEPT !.op = op]]
            /\ UNCHANGED <<active, channel, row>>
      BY <1>4 DEF OwnArrive
    <2> DEFINE q == [[Blank EXCEPT !.c = c, !.who = u,
                      !.pc = IF op = "join" THEN "channel" ELSE "guard"] EXCEPT !.op = op]
    <2>2. q \in Request /\ Consistent(channel, q) /\ q.op # "create"
      BY <1>0 DEF Blank, Request, Label, Operation, Own, ChannelType, MemberRole, Consistent
    <2> HIDE DEF q
    <2> QED
      BY <2>1, <2>2, <1>0, SameChannels DEF q
  <1>5. CASE AdmitArrive(r)
    <2>1. PICK u \in User :
            /\ req' = [req EXCEPT ![r] =
                 [[Blank EXCEPT !.pc = "activate", !.who = u] EXCEPT !.op = "admit"]]
            /\ UNCHANGED <<active, channel, row>>
      BY <1>5 DEF AdmitArrive
    <2> DEFINE q == [[Blank EXCEPT !.pc = "activate", !.who = u] EXCEPT !.op = "admit"]
    <2>2. q \in Request /\ Consistent(channel, q) /\ q.op # "create"
      BY DEF Blank, Request, Label, Operation, ChannelType, MemberRole, Consistent
    <2> HIDE DEF q
    <2> QED
      BY <2>1, <2>2, <1>0, SameChannels DEF q
  <1>6. CASE DepartArrive(r)
    <2>1. PICK u \in active :
            /\ req' = [req EXCEPT ![r] =
                 [[Blank EXCEPT !.pc = "deactivate", !.who = u] EXCEPT !.op = "depart"]]
            /\ UNCHANGED <<active, channel, row>>
      BY <1>6 DEF DepartArrive
    <2> DEFINE q == [[Blank EXCEPT !.pc = "deactivate", !.who = u] EXCEPT !.op = "depart"]
    <2>2. q \in Request /\ Consistent(channel, q) /\ q.op # "create"
      BY <1>0 DEF Blank, Request, Label, Operation, ChannelType, MemberRole, Consistent
    <2> HIDE DEF q
    <2> QED
      BY <2>1, <2>2, <1>0, SameChannels DEF q
  <1> QED
    BY <1>1, <1>2, <1>3, <1>4, <1>5, <1>6 DEF Arrivals

LEMMA LookupsKeepInv ==
  ASSUME ChannelsInv, NEW r \in Req, Lookups(r)
  PROVE  ChannelsInv'
  <1> USE DEF Read, At
  <1> DEFINE old == req[r]
  <1>0. /\ active \in SUBSET User /\ row \in [Chan -> [User -> ChannelMember]]
        /\ channel \in [Chan -> Channel] /\ req \in [Req -> Request]
        /\ old \in Request /\ Consistent(channel, old)
    BY DEF ChannelsInv, TypeOK
  \* A look-up either throws or passes on a request for the same channel.
  <1>1. ASSUME NEW q \in Request, NEW ok, Consistent(channel, q), q.op = old.op, q.c = old.c,
               req' = [req EXCEPT ![r] = IF ok THEN q ELSE Blank],
               UNCHANGED <<active, channel, row>>
        PROVE  ChannelsInv'
    <2>1. CASE ok
      <3>1. req' = [req EXCEPT ![r] = q]
        BY <1>1, <2>1
      <3>2. \A s \in Req \ {r} :
              q.op = "create" /\ req[s].op = "create" => req[s].c # q.c
        BY <1>1 DEF ChannelsInv, IdsDrawnOnce
      <3> QED
        BY <3>1, <3>2, <1>0, <1>1, SameChannels
    <2>2. CASE ~ok
      BY <1>0, <1>1, <2>2, EndsQuietly DEF End
    <2> QED
      BY <2>1, <2>2
  <1>2. CASE ChannelMemberGuard(r)
    <2> DEFINE q == [old EXCEPT !.pc = "channel"]
    <2>1. q \in Request /\ Consistent(channel, q) /\ q.op = old.op /\ q.c = old.c
      BY <1>0, <1>2 DEF ChannelMemberGuard, Request, Label, Consistent
    <2>2. /\ req' = [req EXCEPT ![r] = IF Here(req[r].c, req[r].who) THEN q ELSE Blank]
          /\ UNCHANGED <<active, channel, row>>
      BY <1>2 DEF ChannelMemberGuard
    <2> HIDE DEF q
    <2> QED
      BY <2>1, <2>2, <1>1
  <1>3. CASE FindChannel(r)
    <2> DEFINE q == [old EXCEPT !.flag = old.op = "archive" /\ channel[old.c].archived,
                       !.pc = CASE old.op \in {"delete", "archive"} -> old.op
                                [] old.op = "rename" -> "name"
                                [] old.op = "add" -> "person"
                                [] OTHER -> "row"]
    <2>1. /\ req' = [req EXCEPT ![r] = IF ChannelAllows(old) THEN q ELSE Blank]
          /\ UNCHANGED <<active, channel, row>> /\ old.pc = "channel"
      BY <1>3 DEF FindChannel
    <2>2. CASE ChannelAllows(old)
      <3>1. q \in Request /\ q.op = old.op /\ q.c = old.c
        BY <1>0, <2>1 DEF Request, Label
      <3>2. Consistent(channel, q)
        BY <1>0, <2>1, <2>2
           DEF Request, Label, Consistent, ChannelAllows, Management, Moderation, Own,
               Live, Known
      <3>3. req' = [req EXCEPT ![r] = IF TRUE THEN q ELSE Blank]
        BY <2>1, <2>2
      <3> HIDE DEF q
      <3> QED
        BY <3>1, <3>2, <3>3, <2>1, <1>1
    <2>3. CASE ~ChannelAllows(old)
      BY <1>0, <2>1, <2>3, EndsQuietly DEF End
    <2> QED
      BY <2>2, <2>3
  <1>4. CASE FindName(r)
    <2> DEFINE q == [old EXCEPT !.pc = IF old.op = "create" THEN "insert" ELSE "rename"]
               ok == /\ old.name # GeneralName
                     /\ \A c \in Chan \ {old.c} :
                           Live(c) => channel[c].name # old.name
    <2>1. /\ req' = [req EXCEPT ![r] = IF ok THEN q ELSE Blank]
          /\ UNCHANGED <<active, channel, row>> /\ old.pc = "name"
      BY <1>4 DEF FindName
    <2>2. q \in Request /\ Consistent(channel, q) /\ q.op = old.op /\ q.c = old.c
      BY <1>0, <2>1 DEF Request, Label, Consistent
    <2> HIDE DEF q, ok
    <2> QED
      BY <2>1, <2>2, <1>1
  <1>5. CASE FindPerson(r)
    <2> DEFINE q == [old EXCEPT !.pc = "row"]
    <2>1. /\ req' = [req EXCEPT ![r] = IF req[r].who \in active THEN q ELSE Blank]
          /\ UNCHANGED <<active, channel, row>> /\ old.pc = "person"
      BY <1>5 DEF FindPerson
    <2>2. q \in Request /\ Consistent(channel, q) /\ q.op = old.op /\ q.c = old.c
      BY <1>0, <2>1 DEF Request, Label, Consistent, Moderation
    <2> HIDE DEF q
    <2> QED
      BY <2>1, <2>2, <1>1
  <1>6. CASE FindRow(r)
    <2> DEFINE found == row[old.c][old.who]
               q == [old EXCEPT !.id = found.id,
                       !.flag = old.op = "mute" /\ found.archived,
                       !.pc = CASE old.op \in {"leave", "kick"} -> "exit"
                                [] old.op \in {"role", "mute"} -> old.op
                                [] OTHER -> "enter"]
    <2>1. /\ req' = [req EXCEPT ![r] =
                IF old.op \in {"join", "add", "admit"} <=> ~Here(old.c, old.who)
                THEN q ELSE Blank]
          /\ UNCHANGED <<active, channel, row>> /\ old.pc = "row"
      BY <1>6 DEF FindRow
    <2>2. found \in ChannelMember
      BY <1>0 DEF Request
    <2>3. q \in Request /\ q.op = old.op /\ q.c = old.c
      BY <1>0, <2>1, <2>2 DEF Request, Label, ChannelMember
    <2>4. Consistent(channel, q)
      BY <1>0, <2>1 DEF Request, Label, Consistent, Moderation, Own
    <2> HIDE DEF q, found
    <2> QED
      BY <2>1, <2>3, <2>4, <1>1
  <1> QED
    BY <1>2, <1>3, <1>4, <1>5, <1>6 DEF Lookups

\* A write to a channel other than #general that keeps what never changes.
LEMMA ChannelWrite ==
  ASSUME ChannelsInv, NEW r \in Req, NEW q \in Request, NEW v \in Channel,
         req' = [req EXCEPT ![r] = q], UNCHANGED <<active, row>>,
         channel' = [channel EXCEPT ![req[r].c] = v],
         req[r].c # General, v.state # "none",
         Known(req[r].c) =>
            /\ v.type = channel[req[r].c].type
            /\ v.creator = channel[req[r].c].creator,
         Known(req[r].c) \/ req[r].op = "create",
         Consistent(channel', q), q.op = "create" => req[r].op = "create" /\ q.c = req[r].c
  PROVE  ChannelsInv'
  <1> DEFINE c == req[r].c
  <1>0. /\ channel \in [Chan -> Channel] /\ req \in [Req -> Request] /\ c \in Chan
    BY DEF ChannelsInv, TypeOK, Request
  <1>1. TypeOK'
    BY DEF ChannelsInv, TypeOK
  <1>2. GeneralStays'
    BY <1>0 DEF ChannelsInv, GeneralStays, Live
  <1>3. \A s \in Req : req'[s] = IF s = r THEN q ELSE req[s]
    BY <1>0
  <1>4. \A d \in Chan : channel'[d] = IF d = c THEN v ELSE channel[d]
    BY <1>0
  <1>5. ASSUME NEW s \in Req PROVE Consistent(channel', req'[s])
    <2>1. CASE s = r
      BY <1>3, <2>1 DEF Consistent, Known
    <2>2. CASE s # r
      <3>1. Consistent(channel, req[s]) /\ req'[s] = req[s] /\ req[s].c \in Chan
        BY <1>0, <1>3, <2>2 DEF ChannelsInv, Request
      <3>2. CASE req[s].c # c
        BY <1>4, <3>1, <3>2 DEF Consistent, Known
      <3>3. CASE req[s].c = c
        <4>1. ~(req[s].pc \in {"name", "insert"} /\ req[s].op = "create")
          <5>1. Consistent(channel, req[s]) /\ (req[s].op # "create" \/ req[r].op # "create")
            BY <2>2, <3>1, <3>3 DEF ChannelsInv, IdsDrawnOnce
          <5> QED
            BY <5>1, <3>3 DEF Consistent, Known
        <4>2. channel'[c] = v
          BY <1>0, <1>4
        <4> QED
          BY <3>1, <3>3, <4>1, <4>2 DEF Consistent, Known
      <3> QED
        BY <3>2, <3>3
    <2> QED
      BY <2>1, <2>2
  <1>6. IdsDrawnOnce'
    BY <1>3 DEF ChannelsInv, IdsDrawnOnce
  <1> QED
    BY <1>1, <1>2, <1>5, <1>6 DEF ChannelsInv

LEMMA ChannelWritesKeepInv ==
  ASSUME ChannelsInv, NEW r \in Req, ChannelWrites(r)
  PROVE  ChannelsInv'
  <1> USE DEF At, End, Goto, SetChannel
  <1> DEFINE old == req[r]
             c == old.c
  <1>0. /\ channel \in [Chan -> Channel] /\ req \in [Req -> Request]
        /\ old \in Request /\ c \in Chan /\ Consistent(channel, old) /\ channel[c] \in Channel
    BY DEF ChannelsInv, TypeOK, Request
  <1>1. Blank \in Request /\ Consistent(channel', Blank) /\ Blank.op # "create"
    BY BlankType DEF Blank, Consistent
  <1>2. CASE InsertChannel(r)
    <2> DEFINE v == [state |-> "live", name |-> old.name, type |-> old.type,
                     archived |-> FALSE, creator |-> old.who]
               q == [old EXCEPT !.pc = "own"]
    <2>1. /\ req' = [req EXCEPT ![r] = q] /\ UNCHANGED <<active, row>>
          /\ channel' = [channel EXCEPT ![c] = v] /\ old.pc = "insert"
      BY <1>0, <1>2 DEF InsertChannel
    <2>2. old.op = "create" /\ c # General /\ ~Known(c)
      BY <1>0, <2>1 DEF Consistent, Known
    <2>3. v \in Channel /\ q \in Request /\ q.c = c /\ q.op = "create" /\ q.pc = "own"
          /\ q.who = old.who
      BY <1>0, <2>2 DEF Channel, Request, Label
    <2>4. Consistent(channel', q)
      <3>1. channel'[c] = v
        BY <1>0, <2>1
      <3> QED
        BY <2>3, <3>1 DEF Consistent
    <2>5. v.state # "none"
      OBVIOUS
    <2> HIDE DEF q, v
    <2> QED
      BY <2>1, <2>2, <2>3, <2>4, <2>5, ChannelWrite
  <1>3. ASSUME NEW v \in Channel, channel' = [channel EXCEPT ![c] = v],
               v.state # "none", v.type = channel[c].type,
               v.creator = channel[c].creator,
               old.pc \in Management, End(r), UNCHANGED <<active, row>>
        PROVE  ChannelsInv'
    <2>1. Known(c) /\ c # General
      BY <1>0, <1>3 DEF Consistent, Known
    <2> QED
      BY <1>1, <1>3, <2>1, ChannelWrite
  <1>4. CASE Rename(r)
    <2> DEFINE v == [channel[c] EXCEPT !.name = old.name]
    <2>1. v \in Channel /\ v.type = channel[c].type /\ v.creator = channel[c].creator
          /\ v.state = channel[c].state
      BY <1>0 DEF Channel, Request
    <2>2. old.pc = "rename" /\ channel' = [channel EXCEPT ![c] = v] /\ End(r)
          /\ UNCHANGED <<active, row>>
      BY <1>4 DEF Rename
    <2>3. Known(c)
      BY <1>0, <2>2 DEF Consistent, Known
    <2> HIDE DEF v
    <2> QED
      BY <1>3, <2>1, <2>2, <2>3 DEF Known, Management
  <1>5. CASE SoftDelete(r)
    <2> DEFINE v == [channel[c] EXCEPT !.state = "deleted"]
    <2>1. v \in Channel /\ v.type = channel[c].type /\ v.creator = channel[c].creator
          /\ v.state = "deleted"
      BY <1>0 DEF Channel
    <2>2. old.pc = "delete" /\ channel' = [channel EXCEPT ![c] = v] /\ End(r)
          /\ UNCHANGED <<active, row>>
      BY <1>5 DEF SoftDelete
    <2> HIDE DEF v
    <2> QED
      BY <1>3, <2>1, <2>2 DEF Management
  <1>6. CASE ToggleArchive(r)
    <2> DEFINE v == [channel[c] EXCEPT !.archived = ~old.flag]
    <2>1. v \in Channel /\ v.type = channel[c].type /\ v.creator = channel[c].creator
          /\ v.state = channel[c].state
      BY <1>0 DEF Channel
    <2>2. old.pc = "archive" /\ channel' = [channel EXCEPT ![c] = v] /\ End(r)
          /\ UNCHANGED <<active, row>>
      BY <1>6 DEF ToggleArchive
    <2>3. Known(c)
      BY <1>0, <2>2 DEF Consistent, Known
    <2> HIDE DEF v
    <2> QED
      BY <1>3, <2>1, <2>2, <2>3 DEF Known, Management
  <1> QED
    BY <1>2, <1>4, <1>5, <1>6 DEF ChannelWrites

LEMMA RowWritesKeepInv ==
  ASSUME ChannelsInv, NEW r \in Req, RowWrites(r)
  PROVE  ChannelsInv'
  <1> DEFINE c == req[r].c
             u == req[r].who
  <1>0. /\ active \in SUBSET User /\ row \in [Chan -> [User -> ChannelMember]]
        /\ req[r] \in Request /\ c \in Chan /\ u \in User
        /\ row[c][u] \in ChannelMember
    BY DEF ChannelsInv, TypeOK, Request
  <1>1. ASSUME NEW v \in ChannelMember, SetRow(c, u, v), End(r)
        PROVE  ChannelsInv'
    BY <1>0, <1>1, EndsQuietly DEF SetRow
  <1>2. ASSUME NEW role \in MemberRole, NewRow(c, u, role), End(r)
        PROVE  ChannelsInv'
    BY <1>1, <1>2 DEF NewRow, ChannelMember
  <1>3. CASE InsertCreator(r)
    BY <1>2, <1>3 DEF InsertCreator, MemberRole
  <1>4. CASE Enter(r)
    BY <1>2, <1>4 DEF Enter, MemberRole
  <1>5. CASE Exit(r)
    BY <1>1, <1>5 DEF Exit, Absent, ChannelMember, MemberRole
  <1>6. CASE SetRole(r)
    BY <1>0, <1>1, <1>6 DEF SetRole, ChannelMember, Request
  <1>7. CASE ToggleMute(r)
    BY <1>0, <1>1, <1>7 DEF ToggleMute, ChannelMember
  <1>8. CASE RemoveAll(r)
    <2>1. Absent \in ChannelMember
      BY DEF Absent, ChannelMember, MemberRole
    <2>2. row' \in [Chan -> [User -> ChannelMember]]
      BY <1>0, <1>8, <2>1 DEF RemoveAll
    <2> QED
      BY <1>0, <1>8, <2>2, EndsQuietly DEF RemoveAll
  <1> QED
    BY <1>3, <1>4, <1>5, <1>6, <1>7, <1>8 DEF RowWrites

LEMMA WorkspaceWritesKeepInv ==
  ASSUME ChannelsInv, NEW r \in Req, WorkspaceWrites(r)
  PROVE  ChannelsInv'
  <1> DEFINE old == req[r]
  <1>0. /\ active \in SUBSET User /\ row \in [Chan -> [User -> ChannelMember]]
        /\ old \in Request /\ Consistent(channel, old) /\ req \in [Req -> Request]
        /\ old.who \in User /\ Known(General) /\ channel[General].type = "PUBLIC"
    BY DEF ChannelsInv, TypeOK, Request, GeneralStays, Live, Known
  <1>1. \A s \in Req \ {r} :
          old.op = "create" /\ req[s].op = "create" => req[s].c # old.c
    BY DEF ChannelsInv, IdsDrawnOnce
  <1>2. CASE Activate(r)
    <2> DEFINE q == [old EXCEPT !.pc = "row"]
    <2>1. /\ old.pc = "activate" /\ active' = active \cup {old.who}
          /\ req' = [req EXCEPT ![r] = q] /\ UNCHANGED <<channel, row>>
      BY <1>0, <1>2 DEF Activate, At, Goto
    <2>2. q \in Request /\ Consistent(channel, q) /\ q.op = old.op /\ q.c = old.c
      BY <1>0, <2>1 DEF Request, Label, Consistent, Known
    <2> HIDE DEF q
    <2> QED
      BY <1>0, <1>1, <2>1, <2>2, SameChannels
  <1>3. CASE Deactivate(r)
    <2> DEFINE q == [old EXCEPT !.pc = "channels"]
    <2>1. /\ old.pc = "deactivate" /\ active' = active \ {old.who}
          /\ req' = [req EXCEPT ![r] = q] /\ UNCHANGED <<channel, row>>
      BY <1>0, <1>3 DEF Deactivate, At, Goto
    <2>2. q \in Request /\ Consistent(channel, q) /\ q.op = old.op /\ q.c = old.c
      BY <1>0, <2>1 DEF Request, Label, Consistent, Management
    <2> HIDE DEF q
    <2> QED
      BY <1>0, <1>1, <2>1, <2>2, SameChannels
  <1> QED
    BY <1>2, <1>3 DEF WorkspaceWrites

-----------------------------------------------------------------------------
(* The theorems                                                            *)

LEMMA StepInv == ChannelsInv /\ [Next]_vars => ChannelsInv'
  <1> SUFFICES ASSUME ChannelsInv, [Next]_vars PROVE ChannelsInv'
    OBVIOUS
  <1>0. active \in SUBSET User /\ row \in [Chan -> [User -> ChannelMember]]
    BY DEF ChannelsInv, TypeOK
  <1>1. CASE Next
    <2>1. PICK r \in Req :
            \/ Arrivals(r) \/ Lookups(r) \/ ChannelWrites(r) \/ RowWrites(r)
            \/ WorkspaceWrites(r) \/ Refused(r) \/ Fail(r)
      BY <1>1 DEF Next
    <2>2. CASE Refused(r)
      BY <1>0, <2>2, EndsQuietly DEF Refused
    <2>3. CASE Fail(r)
      BY <1>0, <2>3, EndsQuietly DEF Fail
    <2> QED
      BY <2>1, <2>2, <2>3, ArrivalsKeepInv, LookupsKeepInv, ChannelWritesKeepInv,
         RowWritesKeepInv, WorkspaceWritesKeepInv
  <1>2. CASE UNCHANGED vars
    BY <1>2 DEF vars, ChannelsInv, TypeOK, GeneralStays, Live, Consistent, Known,
                IdsDrawnOnce
  <1> QED
    BY <1>1, <1>2

\* Types, #general and the requests' knowledge of their channel hold always.
THEOREM InvHolds == Spec => []ChannelsInv
  BY InitInv, StepInv, PTL DEF Spec

\* Every variable keeps its type.
THEOREM TypeCorrect == Spec => []TypeOK
  <1>1. ChannelsInv => TypeOK
    BY DEF ChannelsInv
  <1> QED
    BY <1>1, InvHolds, PTL

\* #general is never renamed, archived, deleted or made private.
THEOREM GeneralIsKept == Spec => []GeneralStays
  <1>1. ChannelsInv => GeneralStays
    BY DEF ChannelsInv
  <1> QED
    BY <1>1, InvHolds, PTL

-----------------------------------------------------------------------------
(* Names                                                                   *)

\* Steps other than a write to a channel leave all of them alone.
LEMMA OtherStepsSpareChannels ==
  ASSUME NEW r \in Req,
         \/ Arrivals(r) \/ Lookups(r) \/ RowWrites(r) \/ WorkspaceWrites(r)
         \/ Refused(r) \/ Fail(r)
  PROVE  channel' = channel
  <1> USE DEF Arrive, Read
  <1>1. CASE Arrivals(r)
    BY <1>1 DEF Arrivals, CreateArrive, ManageArrive, ModerateArrive, OwnArrive,
                AdmitArrive, DepartArrive
  <1>2. CASE Lookups(r)
    BY <1>2 DEF Lookups, ChannelMemberGuard, FindChannel, FindName, FindPerson, FindRow
  <1>3. CASE RowWrites(r)
    BY <1>3 DEF RowWrites, InsertCreator, Enter, Exit, SetRole, ToggleMute, RemoveAll,
                NewRow, SetRow
  <1>4. CASE WorkspaceWrites(r) \/ Refused(r) \/ Fail(r)
    BY <1>4 DEF WorkspaceWrites, Activate, Deactivate, Refused, Fail
  <1> QED
    BY <1>1, <1>2, <1>3, <1>4

LEMMA StepNames == ChannelsInv /\ NamesAreUnique /\ [Next]_vars => NamesAreUnique'
  <1> SUFFICES ASSUME ChannelsInv, NamesAreUnique, [Next]_vars PROVE NamesAreUnique'
    OBVIOUS
  <1>0. channel \in [Chan -> Channel] /\ \A r \in Req : req[r] \in Request
    BY DEF ChannelsInv, TypeOK
  <1>1. CASE channel' = channel
    BY <1>1 DEF NamesAreUnique, Known
  <1>2. ASSUME NEW r \in Req, ChannelWrites(r) PROVE NamesAreUnique'
    <2> DEFINE c == req[r].c
    <2>0. c \in Chan /\ Consistent(channel, req[r])
      BY <1>0 DEF Request, ChannelsInv
    <2>1. ASSUME NEW v \in Channel, SetChannel(c, v),
                 NameFree(c, v.name) \/ (Known(c) /\ v.name = channel[c].name)
          PROVE  NamesAreUnique'
      <3>1. \A d \in Chan : channel'[d] = IF d = c THEN v ELSE channel[d]
        BY <1>0, <2>1 DEF SetChannel
      <3>2. \A d \in Chan \ {c} : Known(d) => channel[d].name # v.name
        BY <2>0, <2>1 DEF NameFree, NamesAreUnique
      <3> QED
        BY <3>1, <3>2 DEF NamesAreUnique, Known
    <2>2. channel[c] \in Channel /\ req[r] \in Request
      BY <1>0, <2>0
    <2>3. CASE InsertChannel(r)
      BY <2>1, <2>2, <2>3 DEF InsertChannel, Channel, Request
    <2>4. CASE Rename(r)
      BY <2>1, <2>2, <2>4 DEF Rename, Channel, Request
    <2>5. CASE SoftDelete(r)
      <3>1. Known(c)
        BY <2>0, <2>5 DEF SoftDelete, At, Consistent, Known
      <3> QED
        BY <2>1, <2>2, <2>5, <3>1 DEF SoftDelete, Channel
    <2>6. CASE ToggleArchive(r)
      <3>1. Known(c)
        BY <2>0, <2>6 DEF ToggleArchive, At, Consistent, Known
      <3> QED
        BY <2>1, <2>2, <2>6, <3>1 DEF ToggleArchive, Channel
    <2> QED
      BY <1>2, <2>3, <2>4, <2>5, <2>6 DEF ChannelWrites
  <1> QED
    BY <1>1, <1>2, OtherStepsSpareChannels DEF Next, vars

\* However look-ups and writes of names overlap, no two channels share one.
THEOREM NamesStayUnique == Spec => []NamesAreUnique
  <1>1. Init => NamesAreUnique
    BY DEF Init, NamesAreUnique, Known
  <1> QED
    BY <1>1, StepNames, InvHolds, PTL DEF Spec

\* With the types of the rows, that is what every handler keeps, however their
\* look-ups and writes overlap and wherever they die.
THEOREM InvStays == Spec => []Inv
  BY TypeCorrect, NamesStayUnique, PTL DEF Inv

-----------------------------------------------------------------------------
(* Entering and leaving channels                                           *)

\* What the requests that change rows are about to do to them.
LEMMA RowChanges ==
  ASSUME ChannelsInv, [Next]_vars, NEW c \in Chan, NEW u \in User,
         row'[c][u].id # row[c][u].id
  PROVE  \E r \in Req :
            /\ req[r].who = u
            /\ \/ req[r].pc = "channels" /\ ~Here(c, u)'
               \/ req[r].pc = "exit" /\ req[r].c = c /\ ~Here(c, u)'
                  /\ req[r].id = row[c][u].id
               \/ req[r].pc \in {"own", "enter"} /\ req[r].c = c /\ ~Here(c, u)
  <1>0. /\ row \in [Chan -> [User -> ChannelMember]]
        /\ \A r \in Req : req[r].c \in Chan /\ req[r].who \in User
    BY DEF ChannelsInv, TypeOK, Request
  <1>1. PICK r \in Req : RowWrites(r)
    <2>1. row' # row
      OBVIOUS
    <2>2. ASSUME NEW r \in Req, Arrivals(r) PROVE row' = row
      BY <2>2 DEF Arrivals, CreateArrive, ManageArrive, ModerateArrive, OwnArrive,
                  AdmitArrive, DepartArrive, Arrive
    <2>3. ASSUME NEW r \in Req, Lookups(r) PROVE row' = row
      BY <2>3 DEF Lookups, ChannelMemberGuard, FindChannel, FindName, FindPerson,
                  FindRow, Read
    <2>4. ASSUME NEW r \in Req, ChannelWrites(r) PROVE row' = row
      BY <2>4 DEF ChannelWrites, InsertChannel, Rename, SoftDelete, ToggleArchive,
                  SetChannel
    <2>5. ASSUME NEW r \in Req, WorkspaceWrites(r) \/ Refused(r) \/ Fail(r)
          PROVE  row' = row
      BY <2>5 DEF WorkspaceWrites, Activate, Deactivate, Refused, Fail
    <2> QED
      BY <2>1, <2>2, <2>3, <2>4, <2>5 DEF Next, vars
  <1> DEFINE d == req[r].c
             w == req[r].who
  <1>2. ASSUME NEW v, SetRow(d, w, v)
        PROVE  /\ row'[d][w] = v
               /\ (c # d \/ u # w) => row'[c][u] = row[c][u]
    BY <1>0, <1>2 DEF SetRow
  <1>3. CASE InsertCreator(r) \/ Enter(r)
    <2>1. PICK role \in MemberRole : NewRow(d, w, role)
      BY <1>3 DEF InsertCreator, Enter, MemberRole
    <2>2. ~Here(d, w) /\ c = d /\ u = w
      BY <1>2, <2>1 DEF NewRow
    <2> QED
      BY <1>3, <2>2 DEF InsertCreator, Enter, At
  <1>4. CASE Exit(r)
    <2>1. c = d /\ u = w /\ row'[c][u] = Absent
      BY <1>2, <1>4 DEF Exit
    <2> QED
      BY <1>4, <2>1 DEF Exit, At, Found, Here, Absent
  <1>5. ASSUME SetRole(r) \/ ToggleMute(r) PROVE FALSE
    <2>1. PICK v \in ChannelMember : SetRow(d, w, v) /\ v.id = row[d][w].id
      <3>1. row[d][w] \in ChannelMember /\ req[r] \in Request
        BY <1>0 DEF ChannelsInv, TypeOK
      <3>2. CASE SetRole(r)
        <4> DEFINE v == [row[d][w] EXCEPT !.role = req[r].role]
        <4>1. v \in ChannelMember /\ v.id = row[d][w].id
          BY <3>1 DEF ChannelMember, Request
        <4>2. SetRow(d, w, v)
          BY <3>2 DEF SetRole
        <4> QED
          BY <4>1, <4>2
      <3>3. CASE ToggleMute(r)
        <4> DEFINE v == [row[d][w] EXCEPT !.archived = ~req[r].flag]
        <4>1. v \in ChannelMember /\ v.id = row[d][w].id
          BY <3>1 DEF ChannelMember
        <4>2. SetRow(d, w, v)
          BY <3>3 DEF ToggleMute
        <4> QED
          BY <4>1, <4>2
      <3> QED
        BY <1>5, <3>2, <3>3
    <2> QED
      BY <1>2, <2>1
  <1>6. CASE RemoveAll(r)
    <2>1. row'[c] = [row[c] EXCEPT ![w] = Absent]
      BY <1>6 DEF RemoveAll
    <2>2. u = w /\ row'[c][u] = Absent
      BY <1>0, <2>1
    <2> QED
      BY <1>6, <2>2 DEF RemoveAll, At, Here, Absent
  <1> QED
    BY <1>1, <1>3, <1>4, <1>5, <1>6 DEF RowWrites

\* Private channels are entered by their creator and by people staff add.
THEOREM PrivateIsByInvitation == Spec => PrivateByInvitation
  <1>1. ASSUME ChannelsInv, [Next]_vars, NEW c \in Chan, NEW u \in User,
               channel[c].type = "PRIVATE", ~Here(c, u), Here(c, u)'
        PROVE  \/ u = channel[c].creator
               \/ \E r \in Req : req[r].op = "add" /\ req[r].c = c /\ req[r].who = u
    <2>1. PICK r \in Req : /\ req[r].who = u /\ req[r].c = c
                           /\ req[r].pc \in {"own", "enter"}
      BY <1>1, RowChanges DEF Here
    <2>2. Consistent(channel, req[r])
      BY <1>1 DEF ChannelsInv
    <2> QED
      BY <1>1, <2>1, <2>2 DEF Consistent
  <1>2. ChannelsInv /\ [Next]_vars =>
          [\A c \in Chan, u \in User :
             channel[c].type = "PRIVATE" /\ ~Here(c, u) /\ Here(c, u)' =>
                \/ u = channel[c].creator
                \/ \E r \in Req : req[r].op = "add" /\ req[r].c = c
                                    /\ req[r].who = u]_vars
    BY <1>1
  <1> QED
    BY <1>2, InvHolds, PTL DEF Spec, PrivateByInvitation

\* A membership ends by a departure or by a request that found it; #general is
\* left by departures only.
THEOREM MembershipsEndAsFound == Spec => EndsTheMembershipFound
  <1>1. ASSUME ChannelsInv, [Next]_vars, NEW c \in Chan, NEW u \in User,
               Here(c, u), ~Here(c, u)'
        PROVE  \E r \in Req :
                  /\ req[r].who = u
                  /\ \/ req[r].pc = "channels"
                     \/ /\ req[r].pc = "exit" /\ req[r].c = c /\ c # General
                        /\ req[r].id = row[c][u].id
    <2>1. \A r \in Req : Consistent(channel, req[r])
      BY <1>1 DEF ChannelsInv
    <2>2. row'[c][u].id # row[c][u].id
      BY <1>1 DEF Here
    <2> QED
      BY <1>1, <2>1, <2>2, RowChanges DEF Consistent
  <1>2. ChannelsInv /\ [Next]_vars =>
          [\A c \in Chan, u \in User :
             Here(c, u) /\ ~Here(c, u)' =>
                \E r \in Req :
                   /\ req[r].who = u
                   /\ \/ req[r].pc = "channels"
                      \/ /\ req[r].pc = "exit" /\ req[r].c = c /\ c # General
                         /\ req[r].id = row[c][u].id]_vars
    BY <1>1
  <1> QED
    BY <1>2, InvHolds, PTL DEF Spec, EndsTheMembershipFound

-----------------------------------------------------------------------------
(* Requests that do not overlap and are not cut off                        *)

\* An acceptInvite that has written the membership and not yet the channel row.
Admitting(q) == q.op = "admit" /\ q.pc \in {"row", "enter"}

\* A request that may go on to insert a row for its account.
Joins(q) ==
    \/ q.op \in {"join", "create"} /\ q.pc # "idle"
    \/ q.op \in {"add", "admit"} /\ q.pc \in {"row", "enter"}

\* ChannelsFollowWorkspace while a request is under way: the two exceptions are
\* the account it is admitting and the account it has deactivated.
Follows(q) ==
    /\ \A c \in Chan, u \in User :
         Here(c, u) => u \in active \/ (q.pc = "channels" /\ q.who = u)
    /\ \A u \in active : Here(General, u) \/ (Admitting(q) /\ q.who = u)
    /\ Joins(q) => q.who \in active
    /\ q.pc = "channels" => q.who \notin active

FollowInv == \A r \in Req : Follows(req[r])

LEMMA BlankFollows ==
  /\ Blank.pc = "idle" /\ ~Admitting(Blank) /\ ~Joins(Blank)
  BY DEF Blank, Admitting, Joins

LEMMA InitFollows == Init => FollowInv
  <1> SUFFICES ASSUME Init PROVE FollowInv
    OBVIOUS
  <1>1. PICK i \in RowId :
          row = [c \in Chan |-> [u \in User |->
                   IF c = General /\ u = Founder
                   THEN [Absent EXCEPT !.id = i, !.role = "ADMIN"] ELSE Absent]]
    BY DEF Init
  <1>2. \A c \in Chan, u \in User : Here(c, u) <=> c = General /\ u = Founder
    BY <1>1 DEF Here, Absent
  <1>3. active = {Founder} /\ \A r \in Req : req[r] = Blank
    BY DEF Init
  <1> QED
    BY <1>2, <1>3, BlankFollows DEF FollowInv, Follows

\* A step of the only request, to the record q, that changes neither the members
\* of the workspace nor the rows.
LEMMA FollowQuietly ==
  ASSUME ChannelsInv, FollowInv, NEW r, Req = {r}, UNCHANGED <<active, row>>,
         req[r].pc # "channels", req'[r].pc # "channels",
         Admitting(req[r]) => \/ Admitting(req'[r]) /\ req'[r].who = req[r].who
                              \/ Here(General, req[r].who),
         Joins(req'[r]) => req'[r].who \in active
  PROVE  FollowInv'
  <1>1. Follows(req[r])
    BY DEF FollowInv
  <1>2. \A c \in Chan, u \in User : Here(c, u)' <=> Here(c, u)
    BY DEF Here
  <1>3. \A u \in active : Here(General, u)' <=> Here(General, u)
    BY DEF Here
  <1>4. Follows(req[r])'
    BY <1>1, <1>2, <1>3 DEF Follows, Admitting, Joins
  <1> QED
    BY <1>4 DEF FollowInv

LEMMA ArrivalsFollow ==
  ASSUME ChannelsInv, FollowInv, NEW r, Req = {r}, Arrivals(r)
  PROVE  FollowInv'
  <1> USE DEF Arrive, At
  <1>0. r \in Req /\ req \in [Req -> Request] /\ active \in SUBSET User
    BY DEF ChannelsInv, TypeOK
  <1>1. req[r].pc = "idle" /\ UNCHANGED <<active, row>>
    BY DEF Arrivals, CreateArrive, ManageArrive, ModerateArrive, OwnArrive,
           AdmitArrive, DepartArrive
  <1>2. /\ req'[r].pc # "channels"
        /\ Joins(req'[r]) => req'[r].who \in active
    <2>1. CASE CreateArrive(r)
      BY <1>0, <2>1 DEF CreateArrive, Blank, Joins
    <2>2. CASE ManageArrive(r)
      BY <1>0, <2>2 DEF ManageArrive, Blank, Joins, Management
    <2>3. CASE ModerateArrive(r)
      <3>1. PICK op \in Moderation, c \in Chan, u \in User, k \in MemberRole :
              /\ Known(c) /\ Staff \cap active # {}
              /\ op # "role" => k = "MEMBER"
              /\ Arrive(r, op, [Blank EXCEPT !.pc = "channel", !.c = c,
                                             !.who = u, !.role = k])
        BY <2>3 DEF ModerateArrive
      <3>2. req'[r].pc = "channel" /\ req'[r].op = op
        BY <1>0, <3>1 DEF Blank
      <3> QED
        BY <3>2 DEF Joins, Moderation
    <2>4. CASE OwnArrive(r)
      BY <1>0, <2>4 DEF OwnArrive, Blank, Joins, Own
    <2>5. CASE AdmitArrive(r)
      BY <1>0, <2>5 DEF AdmitArrive, Blank, Joins
    <2>6. CASE DepartArrive(r)
      BY <1>0, <2>6 DEF DepartArrive, Blank, Joins
    <2> QED
      BY <2>1, <2>2, <2>3, <2>4, <2>5, <2>6 DEF Arrivals
  <1> QED
    BY <1>1, <1>2, FollowQuietly DEF Admitting

LEMMA LookupsFollow ==
  ASSUME ChannelsInv, FollowInv, NEW r, Req = {r}, Lookups(r)
  PROVE  FollowInv'
  <1> USE DEF Read, At
  <1> DEFINE q == req[r]
  <1>0. /\ r \in Req /\ req \in [Req -> Request] /\ q \in Request
        /\ Consistent(channel, q) /\ Follows(q)
    BY DEF ChannelsInv, TypeOK, FollowInv
  <1>1. CASE ChannelMemberGuard(r) \/ FindChannel(r) \/ FindName(r) \/ FindPerson(r)
    <2>1. UNCHANGED <<active, row>> /\ q.pc \in {"guard", "channel", "name", "person"}
      BY <1>1 DEF ChannelMemberGuard, FindChannel, FindName, FindPerson
    <2>2. \/ req'[r] = Blank
          \/ /\ req'[r].pc # "channels" /\ req'[r].op = q.op /\ req'[r].who = q.who
             /\ q.op = "add" /\ req'[r].pc \in {"row", "enter"} => q.who \in active
      <3>1. CASE ChannelMemberGuard(r)
        BY <1>0, <3>1 DEF ChannelMemberGuard, Request
      <3>2. CASE FindChannel(r)
        BY <1>0, <3>2 DEF FindChannel, Request
      <3>3. CASE FindName(r)
        BY <1>0, <3>3 DEF FindName, Request
      <3>4. CASE FindPerson(r)
        BY <1>0, <3>4 DEF FindPerson, Request
      <3> QED
        BY <1>1, <3>1, <3>2, <3>3, <3>4
    <2>3. q.op # "admit"
      BY <1>0, <2>1 DEF Consistent
    <2>4. Joins(req'[r]) => req'[r].who \in active
      BY <1>0, <2>1, <2>2, <2>3, BlankFollows DEF Joins, Follows
    <2> QED
      BY <2>1, <2>2, <2>3, <2>4, BlankFollows, FollowQuietly DEF Admitting
  <1>2. CASE FindRow(r)
    <2>1. UNCHANGED <<active, row>> /\ q.pc = "row"
      BY <1>2 DEF FindRow
    <2>2. \/ /\ req'[r] = Blank
             /\ q.op = "admit" => Here(q.c, q.who)
          \/ /\ req'[r].op = q.op /\ req'[r].who = q.who
             /\ req'[r].pc \in {"exit", "role", "mute", "enter"}
             /\ q.op = "admit" => req'[r].pc = "enter"
      BY <1>0, <1>2 DEF FindRow, Request
    <2>3. q.op \in Own \cup Moderation \cup {"admit"} /\ (q.op = "admit" => q.c = General)
      BY <1>0, <2>1 DEF Consistent
    <2>4. Joins(req'[r]) => req'[r].who \in active
      BY <1>0, <2>1, <2>2, <2>3, BlankFollows DEF Joins, Follows, Own, Moderation
    <2>5. Admitting(q) => \/ Admitting(req'[r]) /\ req'[r].who = q.who
                          \/ Here(General, q.who)
      BY <2>2, <2>3 DEF Admitting
    <2> QED
      BY <2>1, <2>2, <2>4, <2>5, BlankFollows, FollowQuietly
  <1> QED
    BY <1>1, <1>2 DEF Lookups

LEMMA ChannelWritesFollow ==
  ASSUME ChannelsInv, FollowInv, NEW r, Req = {r}, ChannelWrites(r)
  PROVE  FollowInv'
  <1> USE DEF At, Goto, End
  <1> DEFINE q == req[r]
  <1>0. /\ r \in Req /\ req \in [Req -> Request] /\ q \in Request
        /\ Consistent(channel, q) /\ Follows(q)
    BY DEF ChannelsInv, TypeOK, FollowInv
  <1>1. /\ UNCHANGED <<active, row>> /\ q.pc \in {"insert", "rename", "delete", "archive"}
        /\ \/ req'[r] = Blank
           \/ q.pc = "insert" /\ req'[r].pc = "own" /\ req'[r].op = q.op
              /\ req'[r].who = q.who
    BY <1>0 DEF ChannelWrites, InsertChannel, Rename, SoftDelete, ToggleArchive,
                SetChannel, Request
  <1>2. Joins(req'[r]) => req'[r].who \in active
    BY <1>0, <1>1, BlankFollows DEF Joins, Follows
  <1> QED
    BY <1>1, <1>2, BlankFollows, FollowQuietly DEF Admitting

LEMMA RefusedFollows ==
  ASSUME ChannelsInv, FollowInv, NEW r, Req = {r}, Refused(r)
  PROVE  FollowInv'
  <1> DEFINE q == req[r]
  <1>0. /\ r \in Req /\ req \in [Req -> Request] /\ q \in Request
        /\ Consistent(channel, q)
    BY DEF ChannelsInv, TypeOK
  <1>1. /\ UNCHANGED <<active, row>> /\ req'[r] = Blank
        /\ q.pc \in {"insert", "rename", "own", "enter", "exit", "role", "mute"}
        /\ q.pc = "enter" => Here(q.c, q.who)
    BY <1>0 DEF Refused, End
  <1>2. Admitting(q) => Here(General, q.who)
    BY <1>0, <1>1 DEF Admitting, Consistent
  <1> QED
    BY <1>1, <1>2, BlankFollows, FollowQuietly

\* The end of a request that changed the rows.
LEMMA RowsFollow ==
  ASSUME ChannelsInv, FollowInv, NEW r, Req = {r}, End(r), active' = active,
         \A c \in Chan, u \in User : Here(c, u)' => u \in active,
         \A u \in active : Here(General, u)'
  PROVE  FollowInv'
  <1>1. req'[r] = Blank
    BY DEF ChannelsInv, TypeOK, End
  <1>2. Follows(req[r])'
    BY <1>1, BlankFollows DEF Follows, Admitting, Joins
  <1> QED
    BY <1>2 DEF FollowInv

LEMMA RowWritesFollow ==
  ASSUME ChannelsInv, FollowInv, NEW r, Req = {r}, RowWrites(r)
  PROVE  FollowInv'
  <1> DEFINE q == req[r]
  <1>0. /\ r \in Req /\ req \in [Req -> Request] /\ q \in Request
        /\ q.c \in Chan /\ q.who \in User /\ active \in SUBSET User
        /\ row \in [Chan -> [User -> ChannelMember]]
        /\ Consistent(channel, q) /\ Follows(q)
    BY DEF ChannelsInv, TypeOK, Request, FollowInv
  \* A write to the one row of the request.
  <1>1. ASSUME NEW v, SetRow(q.c, q.who, v), End(r), q.pc # "channels",
               v.id # None /\ ~Here(q.c, q.who) => q.who \in active,
               v.id = None => q.c # General,
               Admitting(q) => q.c = General
        PROVE  FollowInv'
    <2>1. /\ \A c \in Chan, u \in User :
               row'[c][u] = IF c = q.c /\ u = q.who THEN v ELSE row[c][u]
          /\ active' = active
      BY <1>0, <1>1 DEF SetRow
    <2>2. \A c \in Chan, u \in User : Here(c, u)' => u \in active
      BY <1>0, <1>1, <2>1 DEF Here, Follows
    <2>3. \A u \in active : Here(General, u)'
      BY <1>0, <1>1, <2>1 DEF Here, Follows
    <2> QED
      BY <1>1, <2>1, <2>2, <2>3, RowsFollow
  <1>2. CASE InsertCreator(r) \/ Enter(r)
    <2>1. /\ q.pc \in {"own", "enter"} /\ End(r)
          /\ \E role : NewRow(q.c, q.who, role)
      BY <1>2 DEF InsertCreator, Enter, At
    <2>2. PICK v : SetRow(q.c, q.who, v) /\ v.id \in RowId
      BY <2>1 DEF NewRow
    <2>3. Joins(q) /\ (Admitting(q) => q.c = General)
      BY <1>0, <2>1 DEF Consistent, Joins, Admitting
    <2> QED
      BY <1>0, <1>1, <2>1, <2>2, <2>3 DEF Follows
  <1>3. CASE Exit(r)
    <2>1. q.pc = "exit" /\ SetRow(q.c, q.who, Absent) /\ End(r) /\ Absent.id = None
      BY <1>3 DEF Exit, At, Absent
    <2>2. q.c # General
      BY <1>0, <2>1 DEF Consistent
    <2> QED
      BY <1>1, <2>1, <2>2 DEF Admitting
  <1>4. CASE SetRole(r) \/ ToggleMute(r)
    <2>1. /\ q.pc \in {"role", "mute"} /\ End(r) /\ active' = active
      BY <1>4 DEF SetRole, ToggleMute, SetRow, At
    <2>2. \A c \in Chan, u \in User : row'[c][u].id = row[c][u].id
      <3>1. \A v : v \in ChannelMember /\ v.id = row[q.c][q.who].id /\ SetRow(q.c, q.who, v)
                     => \A c \in Chan, u \in User : row'[c][u].id = row[c][u].id
        BY <1>0 DEF SetRow
      <3>2. row[q.c][q.who] \in ChannelMember
        BY <1>0
      <3>3. CASE SetRole(r)
        <4> DEFINE v == [row[q.c][q.who] EXCEPT !.role = q.role]
        <4>1. v \in ChannelMember /\ v.id = row[q.c][q.who].id /\ SetRow(q.c, q.who, v)
          BY <1>0, <3>2, <3>3 DEF SetRole, ChannelMember, Request
        <4> HIDE DEF v
        <4> QED
          BY <3>1, <4>1
      <3>4. CASE ToggleMute(r)
        <4> DEFINE v == [row[q.c][q.who] EXCEPT !.archived = ~q.flag]
        <4>1. v \in ChannelMember /\ v.id = row[q.c][q.who].id /\ SetRow(q.c, q.who, v)
          BY <3>2, <3>4 DEF ToggleMute, ChannelMember
        <4> HIDE DEF v
        <4> QED
          BY <3>1, <4>1
      <3> QED
        BY <1>4, <3>3, <3>4
    <2>3. \A c \in Chan, u \in User : Here(c, u)' <=> Here(c, u)
      BY <2>2 DEF Here
    <2> QED
      BY <1>0, <2>1, <2>3, RowsFollow DEF Follows, Admitting
  <1>5. CASE RemoveAll(r)
    <2>1. /\ q.pc = "channels" /\ End(r) /\ active' = active
          /\ row' = [c \in Chan |-> [row[c] EXCEPT ![q.who] = Absent]]
      BY <1>5 DEF RemoveAll, At
    <2>2. \A c \in Chan, u \in User :
            row'[c][u] = IF u = q.who THEN Absent ELSE row[c][u]
      BY <1>0, <2>1
    <2>3. \A c \in Chan, u \in User : Here(c, u)' <=> Here(c, u) /\ u # q.who
      BY <2>2 DEF Here, Absent
    <2> QED
      BY <1>0, <2>1, <2>3, RowsFollow DEF Follows, Admitting
  <1> QED
    BY <1>2, <1>3, <1>4, <1>5 DEF RowWrites

LEMMA WorkspaceWritesFollow ==
  ASSUME ChannelsInv, FollowInv, NEW r, Req = {r}, WorkspaceWrites(r)
  PROVE  FollowInv'
  <1> DEFINE q == req[r]
  <1>0. /\ r \in Req /\ req \in [Req -> Request] /\ q \in Request
        /\ Consistent(channel, q) /\ Follows(q)
    BY DEF ChannelsInv, TypeOK, FollowInv
  <1>1. CASE Activate(r)
    <2>1. /\ q.pc = "activate" /\ active' = active \cup {q.who}
          /\ req'[r].pc = "row" /\ req'[r].op = q.op /\ req'[r].who = q.who
          /\ \A c, u : Here(c, u)' <=> Here(c, u)
      BY <1>0, <1>1 DEF Activate, At, Goto, Request, Here
    <2>2. q.op = "admit"
      BY <1>0, <2>1 DEF Consistent
    <2>3. Follows(req[r])'
      BY <1>0, <2>1, <2>2 DEF Follows, Admitting, Joins
    <2> QED
      BY <2>3 DEF FollowInv
  <1>2. CASE Deactivate(r)
    <2>1. /\ q.pc = "deactivate" /\ active' = active \ {q.who}
          /\ req'[r].pc = "channels" /\ req'[r].op = q.op /\ req'[r].who = q.who
          /\ \A c, u : Here(c, u)' <=> Here(c, u)
      BY <1>0, <1>2 DEF Deactivate, At, Goto, Request, Here
    <2>2. q.op = "depart"
      BY <1>0, <2>1 DEF Consistent
    <2>3. Follows(req[r])'
      BY <1>0, <2>1, <2>2 DEF Follows, Admitting, Joins
    <2> QED
      BY <2>3 DEF FollowInv
  <1> QED
    BY <1>1, <1>2 DEF WorkspaceWrites

LEMMA StepFollows ==
  ASSUME NEW r, Req = {r}, ~CanFail, ChannelsInv, FollowInv, [Next]_vars
  PROVE  FollowInv'
  <1>1. CASE UNCHANGED vars
    BY <1>1 DEF vars, FollowInv, Follows, Admitting, Joins, Here
  <1> QED
    BY <1>1, ArrivalsFollow, LookupsFollow, ChannelWritesFollow, RowWritesFollow,
       WorkspaceWritesFollow, RefusedFollows DEF Next, Fail

\* Where requests come one at a time and are not cut off, between them the people
\* in the channels are active members of the workspace and all of these are in
\* #general, for any accounts and channels: acceptInvite, joinChannel, addMember,
\* createChannel, removeMember and leaveWorkspace.
THEOREM FollowTheWorkspace ==
  ASSUME \E one : Req = {one}, ~CanFail
  PROVE  Spec => []ChannelsFollowWorkspace
  <1>1. FollowInv => ChannelsFollowWorkspace
    <2> SUFFICES ASSUME FollowInv, Quiet PROVE ChannelsFollowWorkspace
      BY DEF ChannelsFollowWorkspace
    <2>1. PICK r \in Req : Follows(req[r]) /\ req[r].pc = "idle"
      BY DEF FollowInv, Quiet, At
    <2> QED
      BY <2>1 DEF Follows, Admitting, ChannelsFollowWorkspace
  <1>2. ChannelsInv /\ FollowInv /\ [Next]_vars => FollowInv'
    BY StepFollows
  <1> QED
    BY <1>1, <1>2, InitFollows, InvHolds, PTL DEF Spec

-----------------------------------------------------------------------------
(* The contract, for requests that neither overlap nor fail                *)

\* A handler past the look-up of its channel.
Looked(q) ==
    \/ q.pc \in {"person", "row", "enter", "exit", "role", "mute"} \cup Management
    \/ q.pc = "name" /\ q.op = "rename"

\* What a request was told is still so when it writes.
Ready(q) ==
    /\ Looked(q) /\ q.op # "admit" => ChannelAllows(q)
    /\ q.op = "create" => q.pc = "idle" \/ q.who \in Staff \cap active
    /\ q.op \in Management \cup Moderation => q.pc = "idle" \/ Staff \cap active # {}
    /\ q.pc = "archive" => q.flag = channel[q.c].archived
    /\ q.pc = "exit" => q.op \in {"leave", "kick"} /\ q.id # None
    /\ q.pc = "role" => q.op = "role" /\ q.id # None
    /\ q.pc = "mute" => /\ q.op = "mute" /\ q.id # None
                        /\ q.flag = row[q.c][q.who].archived
    /\ q.pc = "activate" => q.who \notin active
    /\ q.pc = "deactivate" => q.who \in active

\* Nobody is in a channel that does not exist yet.
NobodyBefore == \A c \in Chan, u \in User : Here(c, u) => Known(c)

ReadyInv ==
    /\ \A r \in Req : Ready(req[r])
    /\ NobodyBefore

LEMMA BlankReady == Ready(Blank) /\ Ready(Blank)'
  BY DEF Ready, Looked, Blank

LEMMA InitReady == Init => ReadyInv
  <1> SUFFICES ASSUME Init PROVE ReadyInv
    OBVIOUS
  <1>1. PICK i \in RowId :
          row = [c \in Chan |-> [u \in User |->
                   IF c = General /\ u = Founder
                   THEN [Absent EXCEPT !.id = i, !.role = "ADMIN"] ELSE Absent]]
    BY DEF Init
  <1>2. NobodyBefore
    BY <1>1 DEF Init, NobodyBefore, Here, Known, Absent
  <1>3. \A r \in Req : req[r] = Blank
    BY DEF Init
  <1> QED
    BY <1>2, <1>3, BlankReady DEF ReadyInv

\* A step of the only request that reads, or that ends it.
LEMMA ReadyQuietly ==
  ASSUME ReadyInv, NEW r, Req = {r}, UNCHANGED <<active, channel, row>>,
         Ready(req'[r])
  PROVE  ReadyInv'
  <1>1. NobodyBefore'
    BY DEF ReadyInv, NobodyBefore, Here, Known
  <1>2. Ready(req[r])'
    BY DEF Ready, ChannelAllows, Live
  <1> QED
    BY <1>1, <1>2 DEF ReadyInv

LEMMA ArrivalsReady ==
  ASSUME ChannelsInv, ReadyInv, NEW r, Req = {r}, Arrivals(r)
  PROVE  ReadyInv' /\ req[r].pc = "idle"
                   /\ UNCHANGED <<active, channel, row>>
                   /\ \/ req'[r].pc \in {"name", "channel", "guard", "deactivate"}
                         /\ req'[r].op # "admit"
                      \/ req'[r].pc = "activate"
  <1> USE DEF Arrive, At
  <1>0. r \in Req /\ req \in [Req -> Request]
    BY DEF ChannelsInv, TypeOK
  <1>1. req[r].pc = "idle" /\ UNCHANGED <<active, channel, row>>
    BY DEF Arrivals, CreateArrive, ManageArrive, ModerateArrive, OwnArrive,
           AdmitArrive, DepartArrive
  <1>2. \/ /\ req'[r].pc = "name" /\ req'[r].op = "create"
           /\ req'[r].who \in Staff \cap active
        \/ /\ req'[r].pc = "channel" /\ req'[r].op \in Management \cup Moderation
           /\ Staff \cap active # {}
        \/ req'[r].pc \in {"channel", "guard"} /\ req'[r].op \in Own
        \/ req'[r].pc = "activate" /\ req'[r].op = "admit" /\ req'[r].who \notin active
        \/ req'[r].pc = "deactivate" /\ req'[r].op = "depart" /\ req'[r].who \in active
    <2>1. CASE CreateArrive(r)
      BY <1>0, <2>1 DEF CreateArrive, Blank
    <2>2. CASE ManageArrive(r)
      BY <1>0, <2>2 DEF ManageArrive, Blank
    <2>3. CASE ModerateArrive(r)
      <3>1. PICK op \in Moderation, c \in Chan, u \in User, k \in MemberRole :
              /\ Known(c) /\ Staff \cap active # {}
              /\ op # "role" => k = "MEMBER"
              /\ Arrive(r, op, [Blank EXCEPT !.pc = "channel", !.c = c,
                                             !.who = u, !.role = k])
        BY <2>3 DEF ModerateArrive
      <3> QED
        BY <1>0, <3>1 DEF Blank
    <2>4. CASE OwnArrive(r)
      BY <1>0, <2>4 DEF OwnArrive, Blank
    <2>5. CASE AdmitArrive(r)
      BY <1>0, <2>5 DEF AdmitArrive, Blank
    <2>6. CASE DepartArrive(r)
      BY <1>0, <2>6 DEF DepartArrive, Blank
    <2> QED
      BY <2>1, <2>2, <2>3, <2>4, <2>5, <2>6 DEF Arrivals
  <1>3. Ready(req'[r])
    BY <1>2 DEF Ready, Looked
  <1> QED
    BY <1>1, <1>2, <1>3, ReadyQuietly

\* A look-up throws, or passes on the same request.
LEMMA LookupsReady ==
  ASSUME ChannelsInv, ReadyInv, NEW r, Req = {r}, Lookups(r)
  PROVE  /\ ReadyInv' /\ UNCHANGED <<active, channel, row>>
         /\ req[r].pc \in {"guard", "channel", "name", "person", "row"}
         /\ \/ /\ req'[r] = Blank
               /\ req[r].op = "admit" => Here(General, req[r].who)
            \/ /\ Asked(req'[r]) = Asked(req[r])
               /\ req'[r].op = req[r].op /\ req'[r].who = req[r].who
               /\ req'[r].pc \in {"channel", "person", "row", "name", "insert",
                                  "enter", "exit", "role", "mute"} \cup Management
               /\ req[r].op = "admit" => req[r].pc = "row" /\ req'[r].pc = "enter"
  <1> USE DEF Read, At
  <1>0. /\ r \in Req /\ req \in [Req -> Request] /\ req[r] \in Request
        /\ req'[r] = req'[r] /\ Consistent(channel, req[r]) /\ Ready(req[r])
    BY DEF ChannelsInv, TypeOK, ReadyInv
  <1>1. PICK q, n : q \in Request /\ q = req[r] /\ n = req'[r]
    BY <1>0
  <1> DEFINE Passed == /\ n.op = q.op /\ n.c = q.c /\ n.who = q.who
                       /\ n.name = q.name /\ n.type = q.type /\ n.role = q.role
  <1>2. /\ UNCHANGED <<active, channel, row>>
        /\ q.pc \in {"guard", "channel", "name", "person", "row"}
    BY <1>1 DEF Lookups, ChannelMemberGuard, FindChannel, FindName, FindPerson, FindRow
  <1>3. channel[q.c].archived \in BOOLEAN /\ row[q.c][q.who].archived \in BOOLEAN
    BY <1>1 DEF ChannelsInv, TypeOK, Channel, ChannelMember, Request
  <1>4. CASE n = Blank
    <2>1. Ready(n)
      BY <1>4, BlankReady
    <2>2. q.op = "admit" => q.pc = "row" /\ q.c = General
      BY <1>0, <1>1, <1>2 DEF Consistent
    <2>3. q.op = "admit" => Here(General, q.who)
      <3>1. SUFFICES ASSUME q.op = "admit" PROVE Here(General, q.who)
        OBVIOUS
      <3>2. FindRow(r)
        BY <1>1, <2>2, <3>1 DEF Lookups, ChannelMemberGuard, FindChannel, FindName,
                                FindPerson
      <3>3. CASE ~Here(q.c, q.who)
        <4>1. n.pc = "enter"
          BY <1>0, <1>1, <3>1, <3>2, <3>3 DEF FindRow, Request
        <4> QED
          BY <1>4, <4>1 DEF Blank
      <3> QED
        BY <3>3, <3>1, <2>2
    <2> QED
      BY <1>1, <1>2, <1>4, <2>1, <2>3, ReadyQuietly
  <1>5. CASE n # Blank
    <2>1. CASE ChannelMemberGuard(r)
      <3>1. Passed /\ q.pc = "guard" /\ n.pc = "channel"
        BY <1>0, <1>1, <1>5, <2>1 DEF ChannelMemberGuard, Request
      <3>2. Ready(n)
        BY <1>0, <1>1, <3>1 DEF Ready, Looked
      <3> QED
        BY <1>1, <1>2, <3>1, <3>2, <1>0, ReadyQuietly DEF Asked, Consistent
    <2>2. CASE FindChannel(r)
      <3>1. /\ Passed /\ q.pc = "channel" /\ ChannelAllows(q)
            /\ n.flag = (q.op = "archive" /\ channel[q.c].archived)
            /\ q.op \in {"delete", "archive"} => n.pc = q.op
            /\ q.op = "rename" => n.pc = "name"
            /\ q.op = "add" => n.pc = "person"
            /\ q.op \notin Management \cup {"add"} => n.pc = "row"
        BY <1>0, <1>1, <1>5, <2>2 DEF FindChannel, Request
      <3>2. q.op \in Management \cup Moderation \cup Own
        BY <1>0, <1>1, <3>1 DEF Consistent
      <3>3. Ready(n)
        <4>1. n.pc = "archive" => q.op = "archive" /\ n.flag = channel[q.c].archived
          BY <3>1, <3>2, <1>3
        <4>2. ChannelAllows(n)
          BY <3>1 DEF ChannelAllows
        <4>3. q.op # "create" /\ q.pc # "idle"
          BY <3>1, <3>2
        <4>4. n.pc \in {"row", "name", "person", "delete", "archive"}
          BY <3>1, <3>2
        <4> QED
          BY <1>0, <1>1, <3>1, <4>1, <4>2, <4>3, <4>4 DEF Ready
      <3> QED
        BY <1>1, <1>2, <3>1, <3>2, <3>3, ReadyQuietly DEF Asked
    <2>3. CASE FindName(r)
      <3>1. /\ Passed /\ q.pc = "name"
            /\ n.pc = IF q.op = "create" THEN "insert" ELSE "rename"
        BY <1>0, <1>1, <1>5, <2>3 DEF FindName, Request
      <3>2. q.op \in {"create", "rename"}
        BY <1>0, <1>1, <3>1 DEF Consistent
      <3>3. Ready(n)
        BY <1>0, <1>1, <3>1, <3>2 DEF Ready, Looked, ChannelAllows, Live
      <3> QED
        BY <1>1, <1>2, <3>1, <3>2, <3>3, ReadyQuietly DEF Asked
    <2>4. CASE FindPerson(r)
      <3>1. Passed /\ q.pc = "person" /\ n.pc = "row"
        BY <1>0, <1>1, <1>5, <2>4 DEF FindPerson, Request
      <3>2. q.op = "add"
        BY <1>0, <1>1, <3>1 DEF Consistent
      <3>3. Ready(n)
        BY <1>0, <1>1, <3>1, <3>2 DEF Ready, Looked, ChannelAllows, Live
      <3> QED
        BY <1>1, <1>2, <3>1, <3>2, <3>3, ReadyQuietly DEF Asked
    <2>5. CASE FindRow(r)
      <3>1. /\ Passed /\ q.pc = "row"
            /\ n.id = row[q.c][q.who].id
            /\ n.flag = (q.op = "mute" /\ row[q.c][q.who].archived)
            /\ q.op \in {"join", "add", "admit"} <=> ~Here(q.c, q.who)
            /\ q.op \in {"leave", "kick"} => n.pc = "exit"
            /\ q.op \in {"role", "mute"} => n.pc = q.op
            /\ q.op \notin {"leave", "kick", "role", "mute"} => n.pc = "enter"
        BY <1>0, <1>1, <1>5, <2>5 DEF FindRow, Request
      <3>2. q.op \in Own \cup Moderation \cup {"admit"}
        BY <1>0, <1>1, <3>1 DEF Consistent
      <3>3. Ready(n)
        <4>1. n.pc = "mute" => q.op = "mute" /\ n.flag = row[q.c][q.who].archived
          BY <3>1, <3>2, <1>3
        <4>2. q.op # "admit" => ChannelAllows(n)
          BY <1>0, <1>1, <3>1 DEF Ready, Looked, ChannelAllows, Live
        <4>3. q.op # "create" /\ q.pc # "idle"
          BY <3>1, <3>2
        <4>4. /\ n.pc \in {"enter", "exit", "role", "mute"}
              /\ n.pc # "enter" => n.id # None
          BY <3>1, <3>2 DEF Here
        <4> QED
          BY <1>0, <1>1, <3>1, <4>1, <4>2, <4>3, <4>4 DEF Ready
      <3> QED
        BY <1>1, <1>2, <3>1, <3>2, <3>3, ReadyQuietly DEF Asked
    <2> QED
      BY <2>1, <2>2, <2>3, <2>4, <2>5 DEF Lookups
  <1> QED
    BY <1>4, <1>5

\* The end of a request that wrote.
LEMMA EndsReady ==
  ASSUME ChannelsInv, NEW r, Req = {r}, End(r), NobodyBefore'
  PROVE  ReadyInv' /\ req'[r] = Blank
  <1>1. req'[r] = Blank
    BY DEF ChannelsInv, TypeOK, End
  <1> QED
    BY <1>1, BlankReady DEF ReadyInv

LEMMA WritesReady ==
  ASSUME ChannelsInv, ReadyInv, NEW r, Req = {r},
         ChannelWrites(r) \/ RowWrites(r) \/ WorkspaceWrites(r) \/ Refused(r)
  PROVE  ReadyInv'
  <1> USE DEF At
  <1>0. /\ r \in Req /\ req \in [Req -> Request] /\ req[r] \in Request
        /\ channel \in [Chan -> Channel]
        /\ row \in [Chan -> [User -> ChannelMember]]
        /\ Consistent(channel, req[r]) /\ Ready(req[r]) /\ NobodyBefore
    BY DEF ChannelsInv, TypeOK, ReadyInv
  <1>1. PICK q \in Request : q = req[r]
    BY <1>0
  <1>2. q.c \in Chan /\ q.who \in User
    BY DEF Request
  \* Channels do not cease to exist, and nobody enters one that does not.
  <1>3. ASSUME NEW v, SetChannel(q.c, v), v.state # "none"
        PROVE  NobodyBefore'
    BY <1>0, <1>2, <1>3 DEF SetChannel, NobodyBefore, Known, Here
  <1>4. ASSUME NEW v, SetRow(q.c, q.who, v), v.id # None => Known(q.c)
        PROVE  NobodyBefore'
    BY <1>0, <1>2, <1>4 DEF SetRow, NobodyBefore, Known, Here
  <1>5. CASE InsertChannel(r)
    <2>1. NobodyBefore'
      BY <1>1, <1>3, <1>5 DEF InsertChannel
    <2>2. req'[r].pc = "own" /\ req'[r].op = "create" /\ req'[r].who = q.who
      BY <1>0, <1>1, <1>5 DEF InsertChannel, Goto, Request, Consistent
    <2>3. q.who \in Staff \cap active /\ active' = active
      BY <1>0, <1>1, <1>5 DEF InsertChannel, SetChannel, Ready, Consistent
    <2>4. Ready(req[r])'
      BY <2>2, <2>3 DEF Ready, Looked
    <2> QED
      BY <2>1, <2>4 DEF ReadyInv
  <1>6. CASE Rename(r) \/ SoftDelete(r) \/ ToggleArchive(r)
    <2>1. Known(q.c) /\ channel[q.c] \in Channel /\ End(r)
      BY <1>0, <1>1, <1>2, <1>6 DEF Rename, SoftDelete, ToggleArchive, Consistent, Known
    <2>2. \E v : SetChannel(q.c, v) /\ v.state # "none"
      <3>1. CASE Rename(r)
        <4> DEFINE v == [channel[q.c] EXCEPT !.name = q.name]
        <4>1. SetChannel(q.c, v) /\ v.state # "none"
          BY <1>1, <2>1, <3>1 DEF Rename, Channel, Known
        <4> HIDE DEF v
        <4> QED
          BY <4>1
      <3>2. CASE SoftDelete(r)
        <4> DEFINE v == [channel[q.c] EXCEPT !.state = "deleted"]
        <4>1. SetChannel(q.c, v) /\ v.state # "none"
          BY <1>1, <2>1, <3>2 DEF SoftDelete, Channel
        <4> HIDE DEF v
        <4> QED
          BY <4>1
      <3>3. CASE ToggleArchive(r)
        <4> DEFINE v == [channel[q.c] EXCEPT !.archived = ~q.flag]
        <4>1. SetChannel(q.c, v) /\ v.state # "none"
          BY <1>1, <2>1, <3>3 DEF ToggleArchive, Channel, Known
        <4> HIDE DEF v
        <4> QED
          BY <4>1
      <3> QED
        BY <1>6, <3>1, <3>2, <3>3
    <2> QED
      BY <1>3, <2>1, <2>2, EndsReady
  <1>7. CASE InsertCreator(r) \/ Enter(r)
    <2>1. /\ q.pc \in {"own", "enter"} /\ End(r)
          /\ \E role : NewRow(q.c, q.who, role)
      BY <1>1, <1>7 DEF InsertCreator, Enter
    <2>2. Known(q.c)
      BY <1>0, <1>1, <2>1 DEF Consistent, Ready, Looked, ChannelAllows, Known, Live
    <2>3. \E v : SetRow(q.c, q.who, v)
      BY <2>1 DEF NewRow
    <2> QED
      BY <1>4, <2>1, <2>2, <2>3, EndsReady
  <1>8. CASE Exit(r)
    BY <1>1, <1>4, <1>8, EndsReady DEF Exit, Absent
  <1>9. CASE SetRole(r) \/ ToggleMute(r)
    <2>1. /\ q.pc \in {"role", "mute"} /\ End(r)
          /\ \E v : SetRow(q.c, q.who, v)
      BY <1>1, <1>9 DEF SetRole, ToggleMute
    <2>2. Known(q.c)
      BY <1>0, <1>1, <2>1 DEF Consistent, Ready, Looked, ChannelAllows, Known, Live
    <2> QED
      BY <1>4, <2>1, <2>2, EndsReady
  <1>10. CASE RemoveAll(r)
    <2>1. /\ End(r) /\ channel' = channel
          /\ row' = [c \in Chan |-> [row[c] EXCEPT ![q.who] = Absent]]
      BY <1>1, <1>10 DEF RemoveAll
    <2>2. NobodyBefore'
      BY <1>0, <1>2, <2>1 DEF NobodyBefore, Here, Known, Absent
    <2> QED
      BY <2>1, <2>2, EndsReady
  <1>11. CASE WorkspaceWrites(r)
    <2>1. UNCHANGED <<channel, row>>
      BY <1>11 DEF WorkspaceWrites, Activate, Deactivate
    <2>2. NobodyBefore'
      BY <1>0, <2>1 DEF NobodyBefore, Here, Known
    <2>3. \/ req'[r].pc = "row" /\ req'[r].op = "admit"
          \/ req'[r].pc = "channels" /\ req'[r].op = "depart"
      BY <1>0, <1>11 DEF WorkspaceWrites, Activate, Deactivate, Goto, Request,
                         Consistent
    <2>4. Ready(req[r])'
      BY <2>3 DEF Ready, Looked
    <2> QED
      BY <2>2, <2>4 DEF ReadyInv
  <1>12. CASE Refused(r)
    <2>1. NobodyBefore' /\ End(r)
      BY <1>0, <1>12 DEF Refused, NobodyBefore, Here, Known
    <2> QED
      BY <2>1, EndsReady
  <1> QED
    BY <1>5, <1>6, <1>7, <1>8, <1>9, <1>10, <1>11, <1>12
       DEF ChannelWrites, RowWrites

LEMMA StepReady ==
  ASSUME NEW r, Req = {r}, ~CanFail, ChannelsInv, ReadyInv, [Next]_vars
  PROVE  ReadyInv'
  <1>1. CASE UNCHANGED vars
    BY <1>1 DEF vars, ReadyInv, Ready, Looked, ChannelAllows, Live, NobodyBefore,
                Here, Known
  <1> QED
    BY <1>1, ArrivalsReady, LookupsReady, WritesReady DEF Next, Fail

\* The contract's view of the only request, q, and the rows it finds.
RoleOf(q, c, u) ==
    IF q.pc = "channels" /\ q.who = u THEN "NONE"
    ELSE IF Here(c, u) THEN row[c][u].role
    ELSE IF q.pc = "own" /\ q.c = c /\ q.who = u THEN "ADMIN"
    ELSE IF c = General /\ Admitting(q) /\ q.who = u THEN "MEMBER"
    ELSE "NONE"

IsMuted(q, c, u) ==
    Here(c, u) /\ row[c][u].archived /\ ~(q.pc = "channels" /\ q.who = u)

LEMMA View ==
  ASSUME NEW r, Req = {r}
  PROVE  /\ roster = [c \in Chan |-> [u \in User |-> RoleOf(req[r], c, u)]]
         /\ muted = [c \in Chan |-> {u \in User : IsMuted(req[r], c, u)}]
         /\ asking = IF Open(req[r]) THEN {Asked(req[r])} ELSE {}
  <1>1. ASSUME NEW u
        PROVE  /\ Leaving(u) <=> req[r].pc = "channels" /\ req[r].who = u
               /\ Welcoming(u) <=> Admitting(req[r]) /\ req[r].who = u
               /\ \A c : Opening(c, u) <=>
                           req[r].pc = "own" /\ req[r].c = c /\ req[r].who = u
    BY DEF Leaving, Welcoming, Opening, Admitting, At
  <1>2. roster = [c \in Chan |-> [u \in User |-> RoleOf(req[r], c, u)]]
    BY <1>1 DEF roster, RoleOf
  <1>3. muted = [c \in Chan |-> {u \in User : IsMuted(req[r], c, u)}]
    BY <1>1 DEF muted, IsMuted
  <1>4. asking = IF Open(req[r]) THEN {Asked(req[r])} ELSE {}
    BY DEF asking
  <1> QED
    BY <1>2, <1>3, <1>4

\* The same after a step.
LEMMA ViewNext ==
  ASSUME NEW r, Req = {r}
  PROVE  /\ roster' = [c \in Chan |-> [u \in User |-> RoleOf(req[r], c, u)']]
         /\ muted' = [c \in Chan |-> {u \in User : IsMuted(req[r], c, u)'}]
         /\ asking' = IF Open(req'[r]) THEN {Asked(req'[r])} ELSE {}
  <1>1. ASSUME NEW u
        PROVE  /\ Leaving(u)' <=> req'[r].pc = "channels" /\ req'[r].who = u
               /\ Welcoming(u)' <=> Admitting(req'[r]) /\ req'[r].who = u
               /\ \A c : Opening(c, u)' <=>
                           req'[r].pc = "own" /\ req'[r].c = c /\ req'[r].who = u
    BY DEF Leaving, Welcoming, Opening, Admitting, At
  <1>2. roster' = [c \in Chan |-> [u \in User |-> RoleOf(req[r], c, u)']]
    BY <1>1 DEF roster, RoleOf, Admitting, Here
  <1>3. muted' = [c \in Chan |-> {u \in User : IsMuted(req[r], c, u)'}]
    BY <1>1 DEF muted, IsMuted, Here
  <1>4. asking' = IF Open(req'[r]) THEN {Asked(req'[r])} ELSE {}
    BY DEF asking, Open
  <1> QED
    BY <1>2, <1>3, <1>4

\* What is in a table by channel and account, and in one by channel.
IsTable(f) == f = [c \in Chan |-> [u \in User |-> f[c][u]]]
IsRow(f) == f = [c \in Chan |-> f[c]]

\* The entries of the tables, before and after a step.
LEMMA Entries ==
  ASSUME NEW r, Req = {r}
  PROVE  /\ IsTable(roster) /\ IsTable(roster')
         /\ IsRow(muted) /\ IsRow(muted')
         /\ \A c \in Chan :
              /\ muted[c] = {u \in User : IsMuted(req[r], c, u)}
              /\ muted'[c] = {u \in User : IsMuted(req[r], c, u)'}
              /\ \A u \in User : /\ roster[c][u] = RoleOf(req[r], c, u)
                                 /\ roster'[c][u] = RoleOf(req[r], c, u)'
  <1>1. PICK f, g : /\ f = [c \in Chan |-> [u \in User |-> RoleOf(req[r], c, u)]]
                    /\ g = [c \in Chan |-> [u \in User |-> RoleOf(req[r], c, u)']]
    OBVIOUS
  <1>2. /\ IsTable(f) /\ IsTable(g)
        /\ \A c \in Chan, u \in User : /\ f[c][u] = RoleOf(req[r], c, u)
                                       /\ g[c][u] = RoleOf(req[r], c, u)'
    BY <1>1 DEF IsTable
  <1>3. roster = f /\ roster' = g
    BY <1>1, View, ViewNext
  <1>4. PICK f2, g2 :
          /\ f2 = [c \in Chan |-> {u \in User : IsMuted(req[r], c, u)}]
          /\ g2 = [c \in Chan |-> {u \in User : IsMuted(req[r], c, u)'}]
    OBVIOUS
  <1>5. /\ IsRow(f2) /\ IsRow(g2)
        /\ \A c \in Chan : /\ f2[c] = {u \in User : IsMuted(req[r], c, u)}
                           /\ g2[c] = {u \in User : IsMuted(req[r], c, u)'}
    BY <1>4 DEF IsRow
  <1>6. muted = f2 /\ muted' = g2
    BY <1>4, View, ViewNext
  <1> QED
    BY <1>2, <1>3, <1>5, <1>6

\* Tables that differ in one entry, and in none.
LEMMA OneEntry ==
  ASSUME NEW f, NEW g, IsTable(f), IsTable(g), NEW a \in Chan, NEW b \in User,
         \A c \in Chan, u \in User : c # a \/ u # b => g[c][u] = f[c][u]
  PROVE  g = [f EXCEPT ![a][b] = g[a][b]]
  <1>1. \A c \in Chan : /\ f[c] = [u \in User |-> f[c][u]]
                        /\ g[c] = [u \in User |-> g[c][u]]
    BY DEF IsTable
  <1>2. \A c \in Chan : c # a => g[c] = f[c]
    BY <1>1
  <1>3. g[a] = [f[a] EXCEPT ![b] = g[a][b]]
    BY <1>1
  <1>4. g = [f EXCEPT ![a] = [f[a] EXCEPT ![b] = g[a][b]]]
    BY <1>2, <1>3 DEF IsTable
  <1> QED
    BY <1>4

LEMMA OneChanged ==
  ASSUME NEW f, NEW g, IsRow(f), IsRow(g), NEW a \in Chan,
         \A c \in Chan \ {a} : g[c] = f[c]
  PROVE  g = [f EXCEPT ![a] = g[a]]
  BY DEF IsRow

LEMMA SameEntries ==
  ASSUME NEW f, NEW g, IsTable(f), IsTable(g),
         \A c \in Chan, u \in User : g[c][u] = f[c][u]
  PROVE  g = f
  BY DEF IsTable

\* Tables that agree everywhere.
LEMMA SameTables ==
  ASSUME NEW r, Req = {r},
         \A c \in Chan, u \in User :
            /\ RoleOf(req[r], c, u)' = RoleOf(req[r], c, u)
            /\ IsMuted(req[r], c, u)' <=> IsMuted(req[r], c, u)
  PROVE  roster' = roster /\ muted' = muted
  <1>1. \A c \in Chan : /\ muted'[c] = muted[c]
                       /\ \A u \in User : roster'[c][u] = roster[c][u]
    <2> TAKE c \in Chan
    <2>1. \A u \in User : roster'[c][u] = roster[c][u]
      BY Entries
    <2>2. muted'[c] = muted[c]
      <3>1. {u \in User : IsMuted(req[r], c, u)'} = {u \in User : IsMuted(req[r], c, u)}
        OBVIOUS
      <3> QED
        BY <3>1, Entries
    <2> QED
      BY <2>1, <2>2
  <1>2. roster' = roster
    BY <1>1, Entries, SameEntries
  <1>3. muted' = muted
    BY <1>1, Entries DEF IsRow
  <1> QED
    BY <1>2, <1>3

\* A handler between its arrival and its write, or none.
Plain(q) == q.pc \notin {"own", "channels"} /\ ~Admitting(q)

LEMMA PlainView ==
  ASSUME NEW r, Req = {r}, Plain(req[r]), NEW c \in Chan, NEW u \in User
  PROVE  /\ RoleOf(req[r], c, u) = IF Here(c, u) THEN row[c][u].role ELSE "NONE"
         /\ IsMuted(req[r], c, u) <=> Here(c, u) /\ row[c][u].archived
  BY DEF Plain, RoleOf, IsMuted

LEMMA PlainViewNext ==
  ASSUME NEW r, Req = {r}, Plain(req'[r]), NEW c \in Chan, NEW u \in User
  PROVE  /\ RoleOf(req[r], c, u)' = IF Here(c, u)' THEN row'[c][u].role ELSE "NONE"
         /\ IsMuted(req[r], c, u)' <=> Here(c, u)' /\ row'[c][u].archived
  BY DEF Plain, RoleOf, IsMuted, Admitting

LEMMA BlankPlain == Plain(Blank) /\ ~Open(Blank)
  BY DEF Plain, Blank, Admitting, Open

\* A request that reads changes nothing the contract sees but what is asked.
LEMMA QuietView ==
  ASSUME NEW r, Req = {r}, UNCHANGED <<active, channel, row>>,
         Plain(req[r]), Plain(req'[r])
  PROVE  UNCHANGED <<active, channels, roster, muted>>
  <1>1. \A c, u : (Here(c, u)' <=> Here(c, u)) /\ row'[c][u] = row[c][u]
    BY DEF Here
  <1>2. roster' = roster /\ muted' = muted
    BY <1>1, PlainView, PlainViewNext, SameTables
  <1> QED
    BY <1>2 DEF channels

CStep == Contract!CNext \/ UNCHANGED <<active, channels, roster, muted, asking>>

LEMMA ArrivalsContract ==
  ASSUME ChannelsInv, ReadyInv, NEW r, Req = {r}, Arrivals(r), ChannelsInv'
  PROVE  CStep
  <1>1. /\ req[r].pc = "idle" /\ UNCHANGED <<active, channel, row>>
        /\ \/ req'[r].pc \in {"name", "channel", "guard", "deactivate"}
              /\ req'[r].op # "admit"
           \/ req'[r].pc = "activate"
    BY ArrivalsReady
  <1>2. Plain(req[r]) /\ Plain(req'[r]) /\ ~Open(req[r]) /\ Open(req'[r])
    BY <1>1 DEF Plain, Admitting, Open
  <1>3. asking = {} /\ asking' = {Asked(req'[r])}
    BY <1>2, View, ViewNext
  <1>4. Asked(req'[r]) \in [op : Operation, c : Chan, who : User, name : Name,
                            type : ChannelType, role : MemberRole]
    BY DEF ChannelsInv, TypeOK, Request, Asked
  <1>5. Contract!Ask
    BY <1>1, <1>2, <1>3, <1>4, QuietView DEF Contract!Ask
  <1> QED
    BY <1>5 DEF CStep, Contract!CNext

\* A request that is given up without a write.
LEMMA GivenUp ==
  ASSUME NEW r, Req = {r}, UNCHANGED <<active, channel, row>>,
         Plain(req[r]), req'[r] = Blank
  PROVE  CStep
  <1>1. asking' = {}
    BY BlankPlain, ViewNext
  <1> QED
    BY <1>1, QuietView, BlankPlain DEF CStep, Contract!CNext, Contract!Refuse

LEMMA LookupsContract ==
  ASSUME ChannelsInv, ReadyInv, NEW r, Req = {r}, Lookups(r)
  PROVE  CStep
  <1>1. PICK q, n : q = req[r] /\ n = req'[r]
    OBVIOUS
  <1>2. /\ UNCHANGED <<active, channel, row>>
        /\ q.pc \in {"guard", "channel", "name", "person", "row"}
        /\ \/ /\ n = Blank
              /\ q.op = "admit" => Here(General, q.who)
           \/ /\ Asked(n) = Asked(q) /\ n.op = q.op /\ n.who = q.who
              /\ n.pc \in {"channel", "person", "row", "name", "insert",
                           "enter", "exit", "role", "mute"} \cup Management
              /\ q.op = "admit" => q.pc = "row" /\ n.pc = "enter"
    BY <1>1, LookupsReady
  <1>3. Consistent(channel, q)
    BY <1>1 DEF ChannelsInv
  <1>4. \A c, u : (Here(c, u)' <=> Here(c, u)) /\ row'[c][u] = row[c][u]
    BY <1>2 DEF Here
  <1>5. CASE q.op = "admit"
    <2>1. \A c \in Chan, u \in User :
            /\ RoleOf(req[r], c, u)' = RoleOf(req[r], c, u)
            /\ IsMuted(req[r], c, u)' <=> IsMuted(req[r], c, u)
      <3>1. CASE n = Blank
        <4>1. Plain(n) /\ q.pc \notin {"own", "channels"} /\ Here(General, q.who)
          BY <1>2, <1>5, <3>1, BlankPlain, BlankFollows
        <4> TAKE c \in Chan, u \in User
        <4>2. /\ RoleOf(req[r], c, u)' = IF Here(c, u) THEN row[c][u].role ELSE "NONE"
              /\ IsMuted(req[r], c, u)' <=> Here(c, u) /\ row[c][u].archived
          BY <1>1, <1>4, <4>1, PlainViewNext
        <4> QED
          BY <1>1, <4>1, <4>2 DEF RoleOf, IsMuted
      <3>2. CASE n # Blank
        <4>1. n.op = "admit" /\ n.who = q.who /\ n.pc = "enter" /\ q.pc = "row"
          BY <1>2, <1>5, <3>2
        <4> QED
          BY <1>1, <1>2, <1>4, <1>5, <4>1 DEF RoleOf, IsMuted, Admitting
      <3> QED
        BY <3>1, <3>2
    <2>2. ~Open(q) /\ ~Open(n)
      <3>1. q.pc = "row"
        BY <1>2, <1>3, <1>5 DEF Consistent
      <3>2. n = Blank \/ (n.op = "admit" /\ n.pc = "enter")
        BY <1>2, <1>5
      <3> QED
        BY <1>5, <3>1, <3>2, BlankPlain DEF Open
    <2> QED
      BY <1>1, <1>2, <2>1, <2>2, SameTables, View, ViewNext DEF CStep, channels
  <1>6. CASE q.op # "admit"
    <2>1. Plain(q) /\ Open(q)
      BY <1>2, <1>6 DEF Plain, Admitting, Open
    <2>2. CASE n = Blank
      BY <1>1, <1>2, <2>1, <2>2, GivenUp
    <2>3. CASE n # Blank
      <3>1. n.op = q.op /\ Asked(n) = Asked(q)
        BY <1>2, <2>3
      <3>2. Plain(n) /\ Open(n)
        BY <1>2, <1>6, <2>3, <3>1 DEF Plain, Admitting, Open
      <3> QED
        <4>1. asking = {Asked(q)} /\ asking' = {Asked(n)}
          BY <1>1, <2>1, <3>2, View, ViewNext
        <4>2. UNCHANGED <<active, channels, roster, muted>>
          BY <1>1, <1>2, <2>1, <3>2, QuietView
        <4> QED
          BY <3>1, <4>1, <4>2 DEF CStep
    <2> QED
      BY <2>2, <2>3
  <1> QED
    BY <1>5, <1>6

LEMMA AskedFields ==
  ASSUME NEW q
  PROVE  /\ Asked(q).op = q.op /\ Asked(q).c = q.c /\ Asked(q).who = q.who
         /\ Asked(q).name = q.name /\ Asked(q).type = q.type /\ Asked(q).role = q.role
  BY DEF Asked

\* The contract's channels are the rows without their creators.
LEMMA ChannelsView ==
  /\ IsRow(channels) /\ IsRow(channels')
  /\ \A c \in Chan :
       /\ channels[c] = [state |-> channel[c].state, name |-> channel[c].name,
                         type |-> channel[c].type, archived |-> channel[c].archived]
       /\ channels'[c] = [state |-> channel'[c].state, name |-> channel'[c].name,
                          type |-> channel'[c].type, archived |-> channel'[c].archived]
  BY DEF channels, IsRow

LEMMA ContractChannels ==
  ASSUME NEW c \in Chan
  PROVE  /\ Contract!Exists(c) <=> Known(c)
         /\ Contract!Live(c) <=> Live(c)
         /\ \A name : Contract!Free(c, name) <=> name # GeneralName /\ NameFree(c, name)
         /\ channels[c].type = channel[c].type
         /\ channels[c].archived = channel[c].archived
  <1>1. \A d \in Chan : /\ channels[d].state = channel[d].state
                        /\ channels[d].name = channel[d].name
                        /\ channels[d].type = channel[d].type
                        /\ channels[d].archived = channel[d].archived
    BY DEF channels
  <1> QED
    BY <1>1 DEF Contract!Exists, Contract!Live, Contract!Free, Known, Live, NameFree

\* One row of the only request is written and the request ends.
LEMMA OneRow ==
  ASSUME ChannelsInv, NEW r, Req = {r}, NEW q, q = req[r], Plain(q), End(r),
         NEW v, SetRow(q.c, q.who, v)
  PROVE  /\ UNCHANGED <<active, channels>>
         /\ asking' = {}
         /\ roster' = [roster EXCEPT ![q.c][q.who] = roster'[q.c][q.who]]
         /\ roster'[q.c][q.who] = IF v.id # None THEN v.role ELSE "NONE"
         /\ muted' = [muted EXCEPT ![q.c] = muted'[q.c]]
         /\ muted'[q.c] = IF v.id # None /\ v.archived
                          THEN muted[q.c] \cup {q.who} ELSE muted[q.c] \ {q.who}
  <1>0. /\ q.c \in Chan /\ q.who \in User /\ r \in Req
        /\ row \in [Chan -> [User -> ChannelMember]]
        /\ req'[r] = Blank
    BY DEF ChannelsInv, TypeOK, Request, End
  <1>1. \A c \in Chan, u \in User :
          row'[c][u] = IF c = q.c /\ u = q.who THEN v ELSE row[c][u]
    BY <1>0 DEF SetRow
  <1>2. /\ \A c \in Chan, u \in User :
             /\ RoleOf(req[r], c, u) = IF Here(c, u) THEN row[c][u].role ELSE "NONE"
             /\ IsMuted(req[r], c, u) <=> Here(c, u) /\ row[c][u].archived
             /\ RoleOf(req[r], c, u)' = IF Here(c, u)' THEN row'[c][u].role ELSE "NONE"
             /\ IsMuted(req[r], c, u)' <=> Here(c, u)' /\ row'[c][u].archived
    BY <1>0, PlainView, PlainViewNext, BlankPlain
  <1>3. \A c \in Chan, u \in User :
          roster'[c][u] = IF c = q.c /\ u = q.who
                          THEN IF v.id # None THEN v.role ELSE "NONE"
                          ELSE roster[c][u]
    <2> TAKE c \in Chan, u \in User
    <2>1. /\ roster[c][u] = IF Here(c, u) THEN row[c][u].role ELSE "NONE"
          /\ roster'[c][u] = IF Here(c, u)' THEN row'[c][u].role ELSE "NONE"
      BY <1>2, Entries
    <2> QED
      BY <1>1, <2>1 DEF Here
  <1>4. /\ roster' = [roster EXCEPT ![q.c][q.who] = roster'[q.c][q.who]]
        /\ roster'[q.c][q.who] = IF v.id # None THEN v.role ELSE "NONE"
    <2>1. PICK f, g : f = roster /\ g = roster'
      OBVIOUS
    <2>3. g = [f EXCEPT ![q.c][q.who] = g[q.c][q.who]]
      <3>1. IsTable(f) /\ IsTable(g)
        BY <2>1, Entries
      <3>2. \A c \in Chan, u \in User : c # q.c \/ u # q.who => g[c][u] = f[c][u]
        BY <1>3, <2>1
      <3> QED
        <4>1. PICK a \in Chan, b \in User : a = q.c /\ b = q.who
          BY <1>0
        <4>2. \A c \in Chan, u \in User : c # a \/ u # b => g[c][u] = f[c][u]
          BY <3>2, <4>1
        <4>3. g = [f EXCEPT ![a][b] = g[a][b]]
          BY <3>1, <4>2, OneEntry
        <4> QED
          BY <4>1, <4>3
    <2>2. roster'[q.c][q.who] = IF v.id # None THEN v.role ELSE "NONE"
      BY <1>0, <1>3
    <2> QED
      BY <2>1, <2>2, <2>3
  <1>5. \A c \in Chan :
          muted'[c] = IF c = q.c
                      THEN IF v.id # None /\ v.archived
                           THEN muted[c] \cup {q.who} ELSE muted[c] \ {q.who}
                      ELSE muted[c]
    <2> TAKE c \in Chan
    <2>1. /\ muted[c] = {u \in User : Here(c, u) /\ row[c][u].archived}
          /\ muted'[c] = {u \in User : Here(c, u)' /\ row'[c][u].archived}
      <3>1. {u \in User : IsMuted(req[r], c, u)}
              = {u \in User : Here(c, u) /\ row[c][u].archived}
        BY <1>2
      <3>2. {u \in User : IsMuted(req[r], c, u)'}
              = {u \in User : Here(c, u)' /\ row'[c][u].archived}
        BY <1>2
      <3> QED
        BY <3>1, <3>2, Entries
    <2> QED
      BY <1>0, <1>1, <2>1 DEF Here
  <1>6. /\ muted' = [muted EXCEPT ![q.c] = muted'[q.c]]
        /\ muted'[q.c] = IF v.id # None /\ v.archived
                         THEN muted[q.c] \cup {q.who} ELSE muted[q.c] \ {q.who}
    <2>1. PICK f, g : f = muted /\ g = muted'
      OBVIOUS
    <2>3. g = [f EXCEPT ![q.c] = g[q.c]]
      <3>1. IsRow(f) /\ IsRow(g)
        BY <2>1, Entries
      <3>2. \A c \in Chan \ {q.c} : g[c] = f[c]
        BY <1>5, <2>1
      <3> QED
        BY <1>0, <3>1, <3>2, OneChanged
    <2>2. muted'[q.c] = IF v.id # None /\ v.archived
                        THEN muted[q.c] \cup {q.who} ELSE muted[q.c] \ {q.who}
      BY <1>0, <1>5
    <2> QED
      BY <2>1, <2>2, <2>3
  <1>7. asking' = {}
    BY <1>0, BlankPlain, ViewNext
  <1> QED
    BY <1>4, <1>6, <1>7 DEF SetRow, channels

LEMMA ContractIn ==
  ASSUME ChannelsInv, NEW r, Req = {r}, Plain(req[r]), NEW c \in Chan, NEW u \in User
  PROVE  Contract!In(c, u) <=> Here(c, u)
  <1>1. roster[c][u] = IF Here(c, u) THEN row[c][u].role ELSE "NONE"
    BY PlainView, Entries
  <1>2. row[c][u].role \in MemberRole
    BY DEF ChannelsInv, TypeOK, ChannelMember
  <1> QED
    BY <1>1, <1>2 DEF Contract!In, MemberRole

\* A step that the contract does not see.
LEMMA UnseenRows ==
  ASSUME NEW r, Req = {r}, UNCHANGED <<active, channel>>,
         ~Open(req[r]), req'[r] = Blank,
         \A c \in Chan, u \in User :
            /\ RoleOf(req[r], c, u)' = RoleOf(req[r], c, u)
            /\ IsMuted(req[r], c, u)' <=> IsMuted(req[r], c, u)
  PROVE  CStep
  <1>1. asking = {} /\ asking' = {}
    BY BlankPlain, View, ViewNext
  <1>2. roster' = roster /\ muted' = muted
    BY SameTables
  <1> QED
    BY <1>1, <1>2 DEF CStep, channels

LEMMA RowWritesContract ==
  ASSUME ChannelsInv, ReadyInv, FollowInv, NEW r, Req = {r}, RowWrites(r)
  PROVE  CStep
  <1> USE DEF At
  <1>0. /\ r \in Req /\ req \in [Req -> Request] /\ req[r] \in Request
        /\ row \in [Chan -> [User -> ChannelMember]]
        /\ Consistent(channel, req[r]) /\ Ready(req[r]) /\ Follows(req[r])
    BY DEF ChannelsInv, TypeOK, ReadyInv, FollowInv
  <1>1. PICK q \in Request : q = req[r]
    BY <1>0
  <1>2. PICK g : g = Asked(q)
    OBVIOUS
  <1>3. /\ g.op = q.op /\ g.c = q.c /\ g.who = q.who
        /\ g.name = q.name /\ g.type = q.type /\ g.role = q.role
    BY <1>2, AskedFields
  <1>4. q.c \in Chan /\ q.who \in User
    BY DEF Request
  <1>5. ASSUME Open(q) PROVE asking = {g}
    BY <1>1, <1>2, <1>5, View
  <1>6. /\ Contract!Live(q.c) <=> Live(q.c)
        /\ channels[q.c].type = channel[q.c].type
        /\ channels[q.c].archived = channel[q.c].archived
    BY <1>4, ContractChannels
  <1>7. Plain(q) => (Contract!In(q.c, q.who) <=> Here(q.c, q.who))
    BY <1>1, <1>4, ContractIn
  \* A new row.
  <1>8. CASE (InsertCreator(r) \/ Enter(r)) /\ ~Open(q)
    <2>1. /\ q.pc \in {"own", "enter"} /\ End(r)
          /\ \E role \in MemberRole : /\ NewRow(q.c, q.who, role)
                                      /\ q.pc = "own" => role = "ADMIN"
                                      /\ q.pc = "enter" => role = "MEMBER"
      BY <1>1, <1>8 DEF InsertCreator, Enter, MemberRole
    <2>2. PICK v : /\ v.id # None /\ ~v.archived /\ SetRow(q.c, q.who, v) /\ ~Here(q.c, q.who)
                   /\ q.pc = "own" => v.role = "ADMIN"
                   /\ q.pc = "enter" => v.role = "MEMBER"
      BY <2>1 DEF NewRow
    <2>3. /\ q.pc = "enter" => Admitting(q) /\ q.c = General
          /\ q.pc = "own" => ~Admitting(q)
      BY <1>0, <1>1, <1>8, <2>1 DEF Consistent, Admitting, Open
    <2>4. req'[r] = Blank
      BY <1>0, <2>1 DEF End
    <2>5. \A c \in Chan, u \in User :
            row'[c][u] = IF c = q.c /\ u = q.who THEN v ELSE row[c][u]
      BY <1>0, <1>4, <2>2 DEF SetRow
    <2>6. ASSUME NEW c \in Chan, NEW u \in User
          PROVE  /\ RoleOf(req[r], c, u)' = RoleOf(req[r], c, u)
                 /\ IsMuted(req[r], c, u)' <=> IsMuted(req[r], c, u)
      <3>1. /\ RoleOf(req[r], c, u)' = IF Here(c, u)' THEN row'[c][u].role ELSE "NONE"
            /\ IsMuted(req[r], c, u)' <=> Here(c, u)' /\ row'[c][u].archived
        BY <2>4, PlainViewNext, BlankPlain
      <3>2. CASE c = q.c /\ u = q.who
        BY <1>1, <2>1, <2>2, <2>3, <2>5, <3>1, <3>2 DEF RoleOf, IsMuted, Here
      <3>3. CASE ~(c = q.c /\ u = q.who)
        BY <1>1, <2>1, <2>3, <2>5, <3>1, <3>3 DEF RoleOf, IsMuted, Here, Admitting
      <3> QED
        BY <3>2, <3>3
    <2>7. UNCHANGED <<active, channel>>
      BY <2>2 DEF SetRow
    <2> QED
      BY <1>1, <1>8, <2>4, <2>6, <2>7, UnseenRows
  <1>9. CASE Enter(r) /\ Open(q)
    <2>1. q.pc = "enter" /\ End(r) /\ NewRow(q.c, q.who, "MEMBER")
      BY <1>1, <1>9 DEF Enter
    <2>2. PICK v : /\ v.id # None /\ ~v.archived /\ v.role = "MEMBER"
                   /\ SetRow(q.c, q.who, v) /\ ~Here(q.c, q.who)
      BY <2>1 DEF NewRow
    <2>3. q.op \in {"join", "add"} /\ Plain(q)
      BY <1>0, <1>1, <1>9, <2>1 DEF Consistent, Open, Plain, Admitting
    <2>4. ChannelAllows(q) /\ (q.op = "add" => Staff \cap active # {}) /\ q.who \in active
      BY <1>0, <1>1, <2>1, <2>3 DEF Ready, Looked, Follows, Joins
    <2>5. /\ UNCHANGED <<active, channels>> /\ asking' = {}
          /\ roster' = [roster EXCEPT ![q.c][q.who] = roster'[q.c][q.who]]
          /\ roster'[q.c][q.who] = IF v.id # None THEN v.role ELSE "NONE"
          /\ muted' = [muted EXCEPT ![q.c] = muted'[q.c]]
          /\ muted'[q.c] = IF v.id # None /\ v.archived
                           THEN muted[q.c] \cup {q.who} ELSE muted[q.c] \ {q.who}
      BY <1>1, <2>1, <2>2, <2>3, OneRow
    <2>6. /\ UNCHANGED <<active, channels>> /\ asking' = {}
          /\ roster' = [roster EXCEPT ![q.c][q.who] = "MEMBER"]
          /\ muted' = [muted EXCEPT ![q.c] = muted[q.c] \ {q.who}]
      BY <2>2, <2>5
    <2>7. muted' = muted
      <3>1. q.who \notin muted[q.c]
        BY <1>1, <1>4, <2>2, <2>3, Entries, PlainView
      <3>2. IsRow(muted)
        BY Entries
      <3> QED
        BY <1>4, <2>6, <3>1, <3>2 DEF IsRow
    <2>8. Contract!Enter(g)
      BY <1>3, <1>6, <1>7, <2>2, <2>3, <2>4, <2>6, <2>7 DEF Contract!Enter, ChannelAllows
    <2> QED
      BY <1>5, <1>9, <2>6, <2>8 DEF CStep, Contract!CNext, Contract!Decide
  <1>10. CASE Exit(r) \/ SetRole(r) \/ ToggleMute(r)
    <2>1. /\ q.pc \in {"exit", "role", "mute"} /\ End(r) /\ Found(r)
          /\ q.op # "admit"
      BY <1>0, <1>1, <1>10 DEF Exit, SetRole, ToggleMute, Ready
    <2>2. /\ Open(q) /\ Plain(q) /\ ChannelAllows(q)
          /\ q.op \in {"kick", "role"} => Staff \cap active # {}
          /\ row[q.c][q.who].id = q.id /\ Here(q.c, q.who)
          /\ q.pc = "exit" => q.op \in {"leave", "kick"}
          /\ q.pc \in {"role", "mute"} => q.op = q.pc
      BY <1>0, <1>1, <2>1 DEF Open, Plain, Admitting, Ready, Looked, Found, Here
    <2>3. row[q.c][q.who] \in ChannelMember
      BY <1>0, <1>4
    <2>4. asking = {g} /\ Live(q.c) /\ Contract!Live(q.c) /\ Contract!In(q.c, q.who)
      BY <1>5, <1>6, <1>7, <2>2 DEF ChannelAllows
    <2>5. CASE Exit(r)
      <3>1. q.pc = "exit" /\ SetRow(q.c, q.who, Absent) /\ Absent.id = None
        BY <1>1, <2>5 DEF Exit, Absent
      <3>2. PICK v : v.id = None /\ SetRow(q.c, q.who, v)
        BY <3>1
      <3>3. /\ UNCHANGED <<active, channels>> /\ asking' = {}
            /\ roster' = [roster EXCEPT ![q.c][q.who] = roster'[q.c][q.who]]
            /\ roster'[q.c][q.who] = IF v.id # None THEN v.role ELSE "NONE"
            /\ muted' = [muted EXCEPT ![q.c] = muted'[q.c]]
            /\ muted'[q.c] = IF v.id # None /\ v.archived
                             THEN muted[q.c] \cup {q.who} ELSE muted[q.c] \ {q.who}
        BY <1>1, <2>1, <2>2, <3>2, OneRow
      <3>4. /\ UNCHANGED <<active, channels>> /\ asking' = {}
            /\ roster' = [roster EXCEPT ![q.c][q.who] = "NONE"]
            /\ muted' = [muted EXCEPT ![q.c] = muted[q.c] \ {q.who}]
        BY <3>2, <3>3
      <3>5. q.c # General
        BY <1>0, <1>1, <3>1 DEF Consistent
      <3>6. Contract!Exit(g)
        BY <1>3, <2>2, <2>4, <3>1, <3>4, <3>5 DEF Contract!Exit
      <3> QED
        BY <2>4, <3>4, <3>6 DEF CStep, Contract!CNext, Contract!Decide
    <2>6. CASE SetRole(r)
      <3>1. q.pc = "role" /\ SetRow(q.c, q.who, [row[q.c][q.who] EXCEPT !.role = q.role])
        BY <1>1, <2>6 DEF SetRole
      <3>2. PICK v : /\ v.id = q.id /\ v.role = q.role /\ SetRow(q.c, q.who, v)
                     /\ v.archived = row[q.c][q.who].archived
        BY <2>2, <2>3, <3>1 DEF ChannelMember
      <3>3. q.id # None
        BY <2>2 DEF Here
      <3>4. /\ UNCHANGED <<active, channels>> /\ asking' = {}
            /\ roster' = [roster EXCEPT ![q.c][q.who] = roster'[q.c][q.who]]
            /\ roster'[q.c][q.who] = IF v.id # None THEN v.role ELSE "NONE"
            /\ muted' = [muted EXCEPT ![q.c] = muted'[q.c]]
            /\ muted'[q.c] = IF v.id # None /\ v.archived
                             THEN muted[q.c] \cup {q.who} ELSE muted[q.c] \ {q.who}
        BY <1>1, <2>1, <2>2, <3>2, OneRow
      <3>5. /\ UNCHANGED <<active, channels>> /\ asking' = {}
            /\ roster' = [roster EXCEPT ![q.c][q.who] = q.role]
            /\ muted' = [muted EXCEPT ![q.c] = IF v.archived THEN muted[q.c] \cup {q.who}
                                               ELSE muted[q.c] \ {q.who}]
        BY <2>2, <3>2, <3>3, <3>4
      <3>6. muted' = muted
        <4>1. q.who \in muted[q.c] <=> v.archived
          BY <1>1, <1>4, <2>2, <3>2, Entries, PlainView
        <4>2. IsRow(muted)
          BY Entries
        <4> QED
          BY <1>4, <3>5, <4>1, <4>2 DEF IsRow
      <3>7. Contract!SetRole(g)
        BY <1>3, <2>2, <2>4, <3>1, <3>5, <3>6 DEF Contract!SetRole
      <3> QED
        BY <2>4, <3>5, <3>7 DEF CStep, Contract!CNext, Contract!Decide
    <2>7. CASE ToggleMute(r)
      <3>1. q.pc = "mute" /\ SetRow(q.c, q.who, [row[q.c][q.who] EXCEPT !.archived = ~q.flag])
        BY <1>1, <2>7 DEF ToggleMute
      <3>2. PICK v : /\ v.id = q.id /\ v.role = row[q.c][q.who].role
                     /\ SetRow(q.c, q.who, v) /\ v.archived = ~q.flag
        BY <2>2, <2>3, <3>1 DEF ChannelMember
      <3>3. q.id # None /\ q.flag = row[q.c][q.who].archived
        BY <1>0, <1>1, <2>2, <3>1 DEF Here, Ready
      <3>4. /\ UNCHANGED <<active, channels>> /\ asking' = {}
            /\ roster' = [roster EXCEPT ![q.c][q.who] = roster'[q.c][q.who]]
            /\ roster'[q.c][q.who] = IF v.id # None THEN v.role ELSE "NONE"
            /\ muted' = [muted EXCEPT ![q.c] = muted'[q.c]]
            /\ muted'[q.c] = IF v.id # None /\ v.archived
                             THEN muted[q.c] \cup {q.who} ELSE muted[q.c] \ {q.who}
        BY <1>1, <2>1, <2>2, <3>2, OneRow
      <3>5. /\ UNCHANGED <<active, channels>> /\ asking' = {}
            /\ roster' = [roster EXCEPT ![q.c][q.who] = v.role]
            /\ muted' = [muted EXCEPT ![q.c] = IF v.archived THEN muted[q.c] \cup {q.who}
                                               ELSE muted[q.c] \ {q.who}]
        BY <2>2, <3>2, <3>3, <3>4
      <3>6. roster' = roster
        <4>1. roster[q.c][q.who] = v.role
          BY <1>1, <1>4, <2>2, <3>2, Entries, PlainView
        <4>2. IsTable(roster)
          BY Entries
        <4> QED
          BY <1>4, <3>5, <4>1, <4>2 DEF IsTable
      <3>7. q.who \in muted[q.c] <=> ~v.archived
        <4>1. q.who \in muted[q.c] <=> Here(q.c, q.who) /\ row[q.c][q.who].archived
          BY <1>1, <1>4, <2>2, Entries, PlainView
        <4>2. row[q.c][q.who].archived \in BOOLEAN
          BY <2>3 DEF ChannelMember
        <4> QED
          BY <2>2, <3>2, <3>3, <4>1, <4>2
      <3>8. muted' = [muted EXCEPT ![q.c] = IF q.who \in muted[q.c] THEN muted[q.c] \ {q.who}
                                            ELSE muted[q.c] \cup {q.who}]
        BY <3>5, <3>7
      <3>9. Contract!Mute(g)
        BY <1>3, <2>2, <2>4, <3>1, <3>5, <3>6, <3>8 DEF Contract!Mute
      <3> QED
        BY <2>4, <3>5, <3>9 DEF CStep, Contract!CNext, Contract!Decide
    <2> QED
      BY <1>10, <2>5, <2>6, <2>7
  <1>11. CASE RemoveAll(r)
    <2>1. /\ q.pc = "channels" /\ End(r) /\ UNCHANGED <<active, channel>>
          /\ row' = [c \in Chan |-> [row[c] EXCEPT ![q.who] = Absent]]
      BY <1>1, <1>11 DEF RemoveAll
    <2>2. req'[r] = Blank
      BY <1>0, <2>1 DEF End
    <2>3. \A c \in Chan, u \in User :
            row'[c][u] = IF u = q.who THEN Absent ELSE row[c][u]
      BY <1>0, <1>4, <2>1
    <2>4. ASSUME NEW c \in Chan, NEW u \in User
          PROVE  /\ RoleOf(req[r], c, u)' = RoleOf(req[r], c, u)
                 /\ IsMuted(req[r], c, u)' <=> IsMuted(req[r], c, u)
      <3>1. /\ RoleOf(req[r], c, u)' = IF Here(c, u)' THEN row'[c][u].role ELSE "NONE"
            /\ IsMuted(req[r], c, u)' <=> Here(c, u)' /\ row'[c][u].archived
        BY <2>2, PlainViewNext, BlankPlain
      <3> QED
        BY <1>1, <2>1, <2>3, <3>1 DEF RoleOf, IsMuted, Here, Absent, Admitting
    <2> QED
      BY <1>1, <2>1, <2>2, <2>4, UnseenRows DEF Open
  <1>12. InsertCreator(r) => ~Open(q)
    BY <1>1 DEF InsertCreator, Open
  <1> QED
    BY <1>8, <1>9, <1>10, <1>11, <1>12 DEF RowWrites

\* One channel is written.
LEMMA OneChannel ==
  ASSUME ChannelsInv, NEW c \in Chan, NEW v, SetChannel(c, v)
  PROVE  /\ UNCHANGED <<active, row>>
         /\ channels' = [channels EXCEPT ![c] = channels'[c]]
         /\ channels'[c] = [state |-> v.state, name |-> v.name,
                            type |-> v.type, archived |-> v.archived]
  <1>1. \A d \in Chan : channel'[d] = IF d = c THEN v ELSE channel[d]
    BY DEF SetChannel, ChannelsInv, TypeOK
  <1>2. PICK f, g : f = channels /\ g = channels'
    OBVIOUS
  <1>3. IsRow(f) /\ IsRow(g)
    BY <1>2, ChannelsView
  <1>4. \A d \in Chan \ {c} : g[d] = f[d]
    BY <1>1, <1>2 DEF channels
  <1>5. g = [f EXCEPT ![c] = g[c]]
    BY <1>3, <1>4, OneChanged
  <1>6. channels'[c] = [state |-> v.state, name |-> v.name,
                        type |-> v.type, archived |-> v.archived]
    BY <1>1 DEF channels
  <1> QED
    BY <1>2, <1>5, <1>6 DEF SetChannel

LEMMA ChannelWritesContract ==
  ASSUME ChannelsInv, ReadyInv, FollowInv, NEW r, Req = {r}, ChannelWrites(r)
  PROVE  CStep
  <1> USE DEF At
  <1>0. /\ r \in Req /\ req \in [Req -> Request] /\ req[r] \in Request
        /\ channel \in [Chan -> Channel]
        /\ Consistent(channel, req[r]) /\ Ready(req[r]) /\ NobodyBefore
    BY DEF ChannelsInv, TypeOK, ReadyInv
  <1>1. PICK q \in Request : q = req[r]
    BY <1>0
  <1>2. PICK g : g = Asked(q)
    OBVIOUS
  <1>3. /\ g.op = q.op /\ g.c = q.c /\ g.who = q.who
        /\ g.name = q.name /\ g.type = q.type /\ g.role = q.role
    BY <1>2, AskedFields
  <1>4. q.c \in Chan /\ q.who \in User
    BY DEF Request
  <1>5. /\ q.pc \in {"insert", "rename", "delete", "archive"}
        /\ Open(q) /\ Plain(q) /\ asking = {g}
    <2>1. q.pc \in {"insert", "rename", "delete", "archive"}
      BY <1>1 DEF ChannelWrites, InsertChannel, Rename, SoftDelete, ToggleArchive
    <2>2. Open(q) /\ Plain(q)
      BY <2>1 DEF Open, Plain, Admitting
    <2> QED
      BY <1>1, <1>2, <2>1, <2>2, View
  <1>6. /\ Contract!Live(q.c) <=> Live(q.c)
        /\ Contract!Exists(q.c) <=> Known(q.c)
        /\ Contract!Free(q.c, q.name) <=> q.name # GeneralName /\ NameFree(q.c, q.name)
        /\ channels[q.c].archived = channel[q.c].archived
    BY <1>4, ContractChannels
  <1>7. ASSUME NameFree(q.c, q.name), q.c # General PROVE Contract!Free(q.c, q.name)
    <2>1. Known(General) /\ channel[General].name = GeneralName
      BY DEF ChannelsInv, GeneralStays, Known, Live
    <2> QED
      BY <1>6, <1>7, <2>1 DEF NameFree
  <1>8. CASE InsertChannel(r)
    <2>1. PICK v : /\ SetChannel(q.c, v) /\ v.state = "live" /\ v.name = q.name
                   /\ v.type = q.type /\ ~v.archived /\ v.archived = FALSE
      BY <1>1, <1>8 DEF InsertChannel
    <2>2. /\ q.pc = "insert" /\ NameFree(q.c, q.name)
          /\ req' = [req EXCEPT ![r].pc = "own"]
      BY <1>1, <1>8 DEF InsertChannel, Goto
    <2>3. PICK n : n = req'[r]
      OBVIOUS
    <2>4. n.pc = "own" /\ n.c = q.c /\ n.who = q.who /\ n.op = q.op
      BY <1>0, <1>1, <2>2, <2>3 DEF Request
    <2>5. /\ q.op = "create" /\ q.who \in Staff \cap active
          /\ q.c # General /\ ~Known(q.c)
      BY <1>0, <1>1, <2>2 DEF Consistent, Ready, Known
    <2>6. /\ UNCHANGED <<active, row>>
          /\ channels' = [channels EXCEPT ![q.c] = channels'[q.c]]
          /\ channels'[q.c] = [state |-> v.state, name |-> v.name,
                               type |-> v.type, archived |-> v.archived]
      BY <1>4, <2>1, OneChannel
    <2>7. asking' = {}
      <3>1. ~Open(n)
        BY <2>4 DEF Open
      <3> QED
        BY <2>3, <3>1, ViewNext
    <2>8. \A c \in Chan, u \in User :
            roster'[c][u] = IF c # q.c THEN roster[c][u]
                            ELSE IF u = q.who THEN "ADMIN" ELSE "NONE"
      <3> TAKE c \in Chan, u \in User
      <3>1. roster[c][u] = IF Here(c, u) THEN row[c][u].role ELSE "NONE"
        BY <1>1, <1>5, Entries, PlainView
      <3>2. roster'[c][u] = RoleOf(req[r], c, u)'
        BY Entries
      <3>3. RoleOf(req[r], c, u)' =
              IF Here(c, u) THEN row[c][u].role
              ELSE IF q.c = c /\ q.who = u THEN "ADMIN" ELSE "NONE"
        BY <2>3, <2>4, <2>5, <2>6 DEF RoleOf, Here, Admitting
      <3>4. c = q.c => ~Here(c, u)
        BY <1>0, <2>5 DEF NobodyBefore
      <3> QED
        BY <3>1, <3>2, <3>3, <3>4
    <2>9. roster' = [roster EXCEPT ![q.c] =
                       [u \in User |-> IF u = q.who THEN "ADMIN" ELSE "NONE"]]
      <3>1. PICK a, b : a = roster /\ b = roster'
        OBVIOUS
      <3>2. IsTable(a) /\ IsTable(b)
        BY <3>1, Entries
      <3>3. \A c \in Chan, u \in User :
              b[c][u] = IF c # q.c THEN a[c][u]
                        ELSE IF u = q.who THEN "ADMIN" ELSE "NONE"
        BY <2>8, <3>1
      <3>4. \A c \in Chan \ {q.c} : b[c] = a[c]
        BY <3>2, <3>3 DEF IsTable
      <3>5. b[q.c] = [u \in User |-> IF u = q.who THEN "ADMIN" ELSE "NONE"]
        BY <1>4, <3>2, <3>3 DEF IsTable
      <3>6. a = [c \in Chan |-> a[c]] /\ b = [c \in Chan |-> b[c]]
        BY <3>2 DEF IsTable
      <3>7. b = [a EXCEPT ![q.c] = b[q.c]]
        BY <1>4, <3>4, <3>6
      <3> QED
        BY <3>1, <3>5, <3>7
    <2>10. muted' = muted
      <3>1. \A c \in Chan : muted'[c] = muted[c]
        <4> TAKE c \in Chan
        <4>1. \A u \in User : IsMuted(req[r], c, u)' <=> IsMuted(req[r], c, u)
          BY <1>1, <1>5, <2>3, <2>4, <2>6 DEF IsMuted, Here
        <4>2. {u \in User : IsMuted(req[r], c, u)'} = {u \in User : IsMuted(req[r], c, u)}
          BY <4>1
        <4> QED
          BY <4>2, Entries
      <3> QED
        BY <3>1, Entries DEF IsRow
    <2>11. Contract!Create(g)
      BY <1>3, <1>6, <1>7, <2>1, <2>2, <2>5, <2>6, <2>9, <2>10 DEF Contract!Create
    <2> QED
      BY <1>5, <2>7, <2>11 DEF CStep, Contract!CNext, Contract!Decide
  <1>9. CASE Rename(r) \/ SoftDelete(r) \/ ToggleArchive(r)
    <2>1. /\ End(r) /\ q.pc \in Management /\ q.op = q.pc
          /\ ChannelAllows(q) /\ Staff \cap active # {} /\ q.c # General /\ Live(q.c)
      <3>1. End(r) /\ q.pc \in Management
        BY <1>1, <1>9 DEF Rename, SoftDelete, ToggleArchive
      <3>2. q.op = q.pc
        BY <1>0, <1>1, <3>1 DEF Consistent
      <3> QED
        BY <1>0, <1>1, <3>1, <3>2 DEF Ready, Looked, ChannelAllows
    <2>2. req'[r] = Blank
      BY <1>0, <2>1 DEF End
    <2>3. channel[q.c] \in Channel
      BY <1>0, <1>4
    <2>4. PICK v : /\ SetChannel(q.c, v)
                   /\ v.state = IF q.op = "delete" THEN "deleted" ELSE channel[q.c].state
                   /\ v.name = IF q.op = "rename" THEN q.name ELSE channel[q.c].name
                   /\ v.type = channel[q.c].type
                   /\ v.archived = IF q.op = "archive" THEN ~q.flag
                                   ELSE channel[q.c].archived
      <3>1. CASE Rename(r)
        BY <1>1, <2>1, <2>3, <3>1 DEF Rename, Channel
      <3>2. CASE SoftDelete(r)
        BY <1>1, <2>1, <2>3, <3>2 DEF SoftDelete, Channel
      <3>3. CASE ToggleArchive(r)
        BY <1>1, <2>1, <2>3, <3>3 DEF ToggleArchive, Channel
      <3> QED
        BY <1>9, <3>1, <3>2, <3>3
    <2>5. /\ q.op = "rename" => NameFree(q.c, q.name)
          /\ q.op = "archive" => q.flag = channel[q.c].archived
      BY <1>0, <1>1, <1>9, <2>1 DEF Rename, SoftDelete, ToggleArchive, Ready
    <2>6. /\ UNCHANGED <<active, row>>
          /\ channels' = [channels EXCEPT ![q.c] = channels'[q.c]]
          /\ channels'[q.c] = [state |-> v.state, name |-> v.name,
                               type |-> v.type, archived |-> v.archived]
      BY <1>4, <2>4, OneChannel
    <2>7. asking' = {}
      BY <2>2, BlankPlain, ViewNext
    <2>8. roster' = roster /\ muted' = muted
      <3>1. \A c, u : (Here(c, u)' <=> Here(c, u)) /\ row'[c][u] = row[c][u]
        BY <2>6 DEF Here
      <3> QED
        BY <1>1, <1>5, <2>2, <3>1, BlankPlain, PlainView, PlainViewNext, SameTables
    <2>9. /\ channels[q.c] = [state |-> channel[q.c].state, name |-> channel[q.c].name,
                              type |-> channel[q.c].type,
                              archived |-> channel[q.c].archived]
      BY <1>4 DEF channels
    <2>10. Contract!Manage(g)
      <3>1. CASE q.op = "rename"
        <4>1. channels'[q.c] = [channels[q.c] EXCEPT !.name = q.name]
          BY <2>4, <2>6, <2>9, <3>1
        <4>2. channels' = [channels EXCEPT ![q.c].name = q.name]
          BY <2>6, <4>1
        <4> QED
          BY <1>3, <1>6, <1>7, <2>1, <2>5, <2>6, <2>8, <3>1, <4>2 DEF Contract!Manage
      <3>2. CASE q.op = "delete"
        <4>1. channels'[q.c] = [channels[q.c] EXCEPT !.state = "deleted"]
          BY <2>4, <2>6, <2>9, <3>2
        <4>2. channels' = [channels EXCEPT ![q.c].state = "deleted"]
          BY <2>6, <4>1
        <4> QED
          BY <1>3, <1>6, <2>1, <2>6, <2>8, <3>2, <4>2 DEF Contract!Manage
      <3>3. CASE q.op = "archive"
        <4>1. channels'[q.c] = [channels[q.c] EXCEPT !.archived = ~channel[q.c].archived]
          BY <2>4, <2>5, <2>6, <2>9, <3>3
        <4>2. channels' = [channels EXCEPT ![q.c].archived = ~channels[q.c].archived]
          BY <1>6, <2>6, <4>1
        <4> QED
          BY <1>3, <1>6, <2>1, <2>6, <2>8, <3>3, <4>2 DEF Contract!Manage
      <3> QED
        BY <2>1, <3>1, <3>2, <3>3
    <2> QED
      BY <1>5, <2>7, <2>10 DEF CStep, Contract!CNext, Contract!Decide
  <1> QED
    BY <1>8, <1>9 DEF ChannelWrites

LEMMA RefusedContract ==
  ASSUME ChannelsInv, NEW r, Req = {r}, Refused(r)
  PROVE  CStep
  <1>0. /\ r \in Req /\ req \in [Req -> Request]
        /\ Consistent(channel, req[r])
    BY DEF ChannelsInv, TypeOK
  <1>1. PICK q : q = req[r]
    OBVIOUS
  <1>2. /\ req'[r] = Blank /\ UNCHANGED <<active, channel, row>>
        /\ q.pc \in {"insert", "rename", "own", "enter", "exit", "role", "mute"}
        /\ q.pc \in {"own", "enter"} => Here(q.c, q.who)
    BY <1>0, <1>1 DEF Refused, End
  <1>3. CASE Plain(q)
    BY <1>1, <1>2, <1>3, GivenUp
  <1>4. CASE ~Plain(q)
    <2>1. /\ q.pc = "own" \/ (q.pc = "enter" /\ Admitting(q) /\ q.c = General)
          /\ Here(q.c, q.who)
      BY <1>0, <1>1, <1>2, <1>4 DEF Plain, Admitting, Consistent
    <2>2. ~Open(q)
      BY <2>1 DEF Open, Admitting
    <2>3. ASSUME NEW c \in Chan, NEW u \in User
          PROVE  /\ RoleOf(req[r], c, u)' = RoleOf(req[r], c, u)
                 /\ IsMuted(req[r], c, u)' <=> IsMuted(req[r], c, u)
      <3>1. (Here(c, u)' <=> Here(c, u)) /\ row'[c][u] = row[c][u]
        BY <1>2 DEF Here
      <3>2. /\ RoleOf(req[r], c, u)' = IF Here(c, u) THEN row[c][u].role ELSE "NONE"
            /\ IsMuted(req[r], c, u)' <=> Here(c, u) /\ row[c][u].archived
        BY <1>2, <3>1, PlainViewNext, BlankPlain
      <3>3. q.pc = "own" => ~Admitting(q)
        BY DEF Admitting
      <3> QED
        BY <1>1, <2>1, <3>2, <3>3 DEF RoleOf, IsMuted
    <2> QED
      BY <1>1, <1>2, <2>2, <2>3, UnseenRows
  <1> QED
    BY <1>3, <1>4

LEMMA WorkspaceWritesContract ==
  ASSUME ChannelsInv, ReadyInv, FollowInv, NEW r, Req = {r}, WorkspaceWrites(r)
  PROVE  CStep
  <1> USE DEF At
  <1>0. /\ r \in Req /\ req \in [Req -> Request] /\ req[r] \in Request
        /\ Consistent(channel, req[r]) /\ Ready(req[r]) /\ Follows(req[r])
    BY DEF ChannelsInv, TypeOK, ReadyInv, FollowInv
  <1>1. PICK q, n : q \in Request /\ q = req[r] /\ n = req'[r]
    BY <1>0
  <1>2. PICK g : g = Asked(q)
    OBVIOUS
  <1>3. g.op = q.op /\ g.c = q.c /\ g.who = q.who
    BY <1>2, AskedFields
  <1>4. q.c \in Chan /\ q.who \in User /\ General \in Chan
    BY <1>1 DEF Request
  <1>5. /\ UNCHANGED <<channel, row>> /\ channels' = channels
        /\ \A c, u : (Here(c, u)' <=> Here(c, u)) /\ row'[c][u] = row[c][u]
    BY DEF WorkspaceWrites, Activate, Deactivate, Here, channels
  <1>6. q.pc \in {"activate", "deactivate"} /\ Open(q) /\ Plain(q) /\ asking = {g}
    <2>1. q.pc \in {"activate", "deactivate"}
      BY <1>1 DEF WorkspaceWrites, Activate, Deactivate
    <2>2. Open(q) /\ Plain(q)
      BY <2>1 DEF Open, Plain, Admitting
    <2> QED
      BY <1>1, <1>2, <2>1, <2>2, View
  <1>7. ASSUME NEW c \in Chan, NEW u \in User
        PROVE  /\ roster[c][u] = IF Here(c, u) THEN row[c][u].role ELSE "NONE"
               /\ roster'[c][u] = RoleOf(req[r], c, u)'
    BY <1>1, <1>6, Entries, PlainView
  <1>8. CASE Activate(r)
    <2>1. /\ q.op = "admit" /\ q.who \notin active /\ active' = active \cup {q.who}
          /\ n.pc = "row" /\ n.op = "admit" /\ n.who = q.who
      BY <1>0, <1>1, <1>8 DEF Activate, Goto, Consistent, Ready, Request
    <2>2. asking' = {}
      <3>1. ~Open(n)
        BY <2>1 DEF Open
      <3> QED
        BY <1>1, <3>1, ViewNext
    <2>3. ~Here(General, q.who)
      BY <1>0, <1>1, <1>4, <1>6, <2>1 DEF Follows
    <2>4. \A c \in Chan, u \in User :
            roster'[c][u] = IF c = General /\ u = q.who THEN "MEMBER" ELSE roster[c][u]
      <3> TAKE c \in Chan, u \in User
      <3>1. RoleOf(req[r], c, u)' =
              IF Here(c, u) THEN row[c][u].role
              ELSE IF c = General /\ q.who = u THEN "MEMBER" ELSE "NONE"
        BY <1>1, <1>5, <2>1 DEF RoleOf, Admitting
      <3> QED
        BY <1>7, <2>3, <3>1
    <2>5. roster' = [roster EXCEPT ![General][q.who] = "MEMBER"]
      <3>1. PICK a, b : a = roster /\ b = roster'
        OBVIOUS
      <3>2. IsTable(a) /\ IsTable(b)
        BY <3>1, Entries
      <3>3. PICK d \in Chan, w \in User : d = General /\ w = q.who
        BY <1>4
      <3>4. \A c \in Chan, u \in User : c # d \/ u # w => b[c][u] = a[c][u]
        BY <2>4, <3>1, <3>3
      <3>5. b = [a EXCEPT ![d][w] = b[d][w]]
        BY <3>2, <3>4, OneEntry
      <3>6. b[d][w] = "MEMBER"
        BY <2>4, <3>1, <3>3
      <3> QED
        BY <3>1, <3>3, <3>5, <3>6
    <2>6. muted' = muted
      <3>1. \A c \in Chan, u \in User : IsMuted(req[r], c, u)' <=> IsMuted(req[r], c, u)
        BY <1>1, <1>5, <1>6, <2>1 DEF IsMuted
      <3>2. \A c \in Chan : muted'[c] = muted[c]
        <4> TAKE c \in Chan
        <4>1. {u \in User : IsMuted(req[r], c, u)'} = {u \in User : IsMuted(req[r], c, u)}
          BY <3>1
        <4> QED
          BY <4>1, Entries
      <3> QED
        BY <3>2, Entries DEF IsRow
    <2>7. Contract!Admit(g)
      BY <1>3, <1>5, <2>1, <2>5, <2>6 DEF Contract!Admit
    <2> QED
      BY <1>6, <2>2, <2>7 DEF CStep, Contract!CNext, Contract!Decide
  <1>9. CASE Deactivate(r)
    <2>1. /\ q.op = "depart" /\ q.who \in active /\ active' = active \ {q.who}
          /\ n.pc = "channels" /\ n.who = q.who
      BY <1>0, <1>1, <1>9 DEF Deactivate, Goto, Consistent, Ready, Request
    <2>2. asking' = {}
      <3>1. ~Open(n)
        BY <2>1 DEF Open
      <3> QED
        BY <1>1, <3>1, ViewNext
    <2>3. roster' = [c \in Chan |-> [roster[c] EXCEPT ![q.who] = "NONE"]]
      <3>1. PICK a, b : a = roster /\ b = roster'
        OBVIOUS
      <3>2. IsTable(a) /\ IsTable(b)
        BY <3>1, Entries
      <3>3. \A c \in Chan, u \in User :
              b[c][u] = IF u = q.who THEN "NONE" ELSE a[c][u]
        <4> TAKE c \in Chan, u \in User
        <4>1. RoleOf(req[r], c, u)' =
                IF u = q.who THEN "NONE"
                ELSE IF Here(c, u) THEN row[c][u].role ELSE "NONE"
          BY <1>1, <1>5, <2>1 DEF RoleOf, Admitting
        <4> QED
          BY <1>7, <3>1, <4>1
      <3>4. \A c \in Chan : b[c] = [a[c] EXCEPT ![q.who] = "NONE"]
        <4> TAKE c \in Chan
        <4>1. /\ a[c] = [u \in User |-> a[c][u]]
              /\ b[c] = [u \in User |-> b[c][u]]
          BY <3>2 DEF IsTable
        <4> QED
          BY <1>4, <3>3, <4>1
      <3>5. b = [c \in Chan |-> b[c]]
        BY <3>2 DEF IsTable
      <3> QED
        BY <3>1, <3>4, <3>5
    <2>4. muted' = [c \in Chan |-> muted[c] \ {q.who}]
      <3>1. \A c \in Chan, u \in User :
              /\ IsMuted(req[r], c, u) <=> Here(c, u) /\ row[c][u].archived
              /\ IsMuted(req[r], c, u)' <=> Here(c, u) /\ row[c][u].archived /\ u # q.who
        BY <1>1, <1>5, <1>6, <2>1 DEF IsMuted
      <3>2. \A c \in Chan : muted'[c] = muted[c] \ {q.who}
        <4> TAKE c \in Chan
        <4>1. {u \in User : IsMuted(req[r], c, u)'} =
                {u \in User : IsMuted(req[r], c, u)} \ {q.who}
          BY <3>1
        <4> QED
          BY <4>1, Entries
      <3> QED
        BY <3>2, Entries DEF IsRow
    <2>5. Contract!Depart(g)
      BY <1>3, <1>5, <2>1, <2>3, <2>4 DEF Contract!Depart
    <2> QED
      BY <1>6, <2>2, <2>5 DEF CStep, Contract!CNext, Contract!Decide
  <1> QED
    BY <1>8, <1>9 DEF WorkspaceWrites

LEMMA ContractStep ==
  ASSUME NEW r, Req = {r}, ~CanFail, ChannelsInv, ReadyInv, FollowInv, [Next]_vars,
         ChannelsInv'
  PROVE  CStep
  <1>1. CASE UNCHANGED vars
    <2>1. UNCHANGED <<active, channels, roster, muted, asking>>
      BY <1>1 DEF vars, channels, roster, muted, asking, Leaving, Opening, Welcoming,
                  At, Here
    <2> QED
      BY <2>1 DEF CStep
  <1> QED
    BY <1>1, ArrivalsContract, LookupsContract, ChannelWritesContract,
       RowWritesContract, WorkspaceWritesContract, RefusedContract DEF Next, Fail

LEMMA ContractBegins == ASSUME NEW r, Req = {r}, Init PROVE Contract!CInit
  <1>1. PICK i \in RowId :
          row = [c \in Chan |-> [u \in User |->
                   IF c = General /\ u = Founder
                   THEN [Absent EXCEPT !.id = i, !.role = "ADMIN"] ELSE Absent]]
    BY DEF Init
  <1>2. req[r] = Blank
    BY DEF Init
  <1>3. \A c \in Chan, u \in User :
          /\ RoleOf(req[r], c, u) = IF c = General /\ u = Founder THEN "ADMIN" ELSE "NONE"
          /\ ~IsMuted(req[r], c, u)
    BY <1>1, <1>2, BlankPlain, PlainView DEF Here, Absent
  <1>4. roster = [c \in Chan |-> [u \in User |->
                    IF c = General /\ u = Founder THEN "ADMIN" ELSE "NONE"]]
    BY <1>3, View
  <1>5. muted = [c \in Chan |-> {}]
    <2>1. \A c \in Chan : {u \in User : IsMuted(req[r], c, u)} = {}
      BY <1>3
    <2> QED
      BY <2>1, View
  <1>6. asking = {}
    BY <1>2, BlankPlain, View
  <1>7. /\ channels[General] = [state |-> "live", name |-> GeneralName,
                                type |-> "PUBLIC", archived |-> FALSE]
        /\ \A c \in Chan \ {General} : channels[c].state = "none"
    BY DEF Init, channels
  <1> QED
    BY <1>4, <1>5, <1>6, <1>7 DEF Init, Contract!CInit, Contract!Exists

\* Where requests come one at a time and are not cut off, every handler of the
\* channels does in one step what RosterContract says.
THEOREM ChannelsKeepTheContract ==
  ASSUME \E one : Req = {one}, ~CanFail
  PROVE  Spec => KeepsContract
  <1>1. PICK r : Req = {r}
    OBVIOUS
  <1>2. Init => Contract!CInit
    BY <1>1, ContractBegins
  <1>3. ChannelsInv /\ ReadyInv /\ FollowInv /\ [Next]_vars => ReadyInv' /\ FollowInv'
    BY <1>1, StepReady, StepFollows
  <1>4. ChannelsInv /\ ChannelsInv' /\ ReadyInv /\ FollowInv /\ [Next]_vars
          => [Contract!CNext]_(Contract!cvars)
    BY <1>1, ContractStep DEF CStep, Contract!cvars
  <1> QED
    BY <1>2, <1>3, <1>4, InitReady, InitFollows, InvHolds, PTL
       DEF Spec, KeepsContract, Contract!CSpec

=============================================================================
