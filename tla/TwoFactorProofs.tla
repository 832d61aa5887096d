-------------------------- MODULE TwoFactorProofs ---------------------------
(***************************************************************************)
(* Theorems about TwoFactor that hold for backup codes of any number, for  *)
(* any number of secrets, sets and requests, and however requests overlap  *)
(* or are cut off where the property does not exclude it.                  *)
(***************************************************************************)
EXTENDS TwoFactor, TLAPS

USE TwoFactorAssumption

-----------------------------------------------------------------------------
(* The inductive invariant                                                 *)

\* Requests that do not overlap are handled one by one.
OneByOne ==
    ~mix.overlap => \A r, s \in Req : r # s => At(r, "idle") \/ At(s, "idle")

\* What the steps of a single request count on.
SerialSteps ==
    ~mix.overlap =>
        \A r \in Req :
            LET q == req[r]
            IN  /\ q.pc = "secret" => ~user.enabled
                /\ q.pc = "off" => q.right /\ q.op = "disable"
                /\ q.pc = "on" => q.op = "confirm"
                /\ q.pc \in {"delete", "create", "cache", "on"} /\ q.op = "confirm"
                     => user.secret # 0
                /\ q.pc = "create" => \A c \in Code : ~Stored(c)

\* A set that has been generated but not stored yet is the request's alone: no
\* code of it has been stored, found or accepted.
NewSetsAreFresh ==
    /\ \A c \in Code : c.set > made.sets => row[c] = "none" /\ accepted[c] = 0
    /\ \A r \in Req : At(r, "create") =>
         /\ req[r].set \in 1..made.sets
         /\ \A c \in Code : c.set = req[r].set => row[c] = "none" /\ accepted[c] = 0
         /\ \A s \in Req : s # r /\ At(s, "create") => req[s].set # req[r].set

\* A request goes on with a code that it has found, and opens a session only
\* after it has marked the code.
CodesAreMarkedFirst ==
    \A r \in Req :
        LET q == req[r]
        IN  /\ q.pc = "user" => q.op # "suspend"
            /\ q.pc = "user" /\ q.op # "verify" => q.code = NoCode
            /\ q.pc \in {"find", "mark"} => q.code # NoCode
            /\ q.pc \in {"mark", "session"} /\ q.code # NoCode =>
                 /\ q.code.set <= made.sets
                 /\ \A s \in Req : At(s, "create") => req[s].set # q.code.set
            /\ q.pc = "session" /\ q.code # NoCode => row[q.code] # "unused"
            /\ ~mix.overlap /\ q.pc = "mark" => row[q.code] = "unused"
            /\ ~mix.overlap /\ q.pc = "session" /\ q.code # NoCode => accepted[q.code] = 0

TwoFactorInv ==
    /\ TypeOK /\ OneByOne /\ SecretOfEnabled /\ SerialSteps
    /\ NewSetsAreFresh /\ CodesAreMarkedFirst /\ BackupCodesOpenOnce

-----------------------------------------------------------------------------

LEMMA BlankType == Blank \in Request /\ Blank.pc = "idle"
  BY DEF Blank, Request, Label, Operation, SecretId, SetId

LEMMA InitInv == Init => TwoFactorInv
  <1> SUFFICES ASSUME Init PROVE TwoFactorInv
    OBVIOUS
  <1>1. TypeOK
    <2>1. 0 \in SecretId /\ 0 \in SetId
      BY DEF SecretId, SetId
    <2>2. /\ user \in User
          /\ made \in [secrets : SecretId, sets : SetId]
          /\ cache \in SetId
      BY <2>1 DEF Init, User
    <2>3. row \in [Code -> {"none", "unused", "used"}] /\ accepted \in [Code -> 0..2]
      BY DEF Init
    <2>5. challenge \in BOOLEAN /\ mix \in Mix
      BY DEF Init
    <2>4. req \in [Req -> Request]
      BY BlankType DEF Init
    <2> QED
      BY <2>2, <2>3, <2>4, <2>5 DEF TypeOK
  <1>2. OneByOne /\ SerialSteps /\ CodesAreMarkedFirst
    BY BlankType DEF Init, OneByOne, SerialSteps, CodesAreMarkedFirst, At
  <1>3. SecretOfEnabled /\ NewSetsAreFresh /\ BackupCodesOpenOnce
    BY BlankType DEF Init, SecretOfEnabled, NewSetsAreFresh, BackupCodesOpenOnce,
                     Stored, At
  <1> QED
    BY <1>1, <1>2, <1>3 DEF TwoFactorInv

\* A step after which one request is at another place, of requests that do not
\* overlap still the only one.
LEMMA StillOneByOne ==
  ASSUME TypeOK, OneByOne, NEW r \in Req, NEW q, req' = [req EXCEPT ![r] = q],
         mix' = mix, ~At(r, "idle") \/ mix.overlap \/ Quiet \/ q.pc = "idle"
  PROVE  OneByOne'
  BY DEF TypeOK, OneByOne, At, Quiet

\* A step that changes one request and nothing that is stored.
LEMMA SetRequest ==
  ASSUME TwoFactorInv, NEW r \in Req, NEW q \in Request,
         req' = [req EXCEPT ![r] = q], UNCHANGED <<mix, user, made, row, accepted>>,
         cache' \in SetId, challenge' \in BOOLEAN,
         ~At(r, "idle") \/ mix.overlap \/ Quiet \/ q.pc = "idle",
         q.pc # "create", q.pc = "on" => q.op = "confirm",
         q.pc = "secret" => ~user.enabled,
         q.pc = "off" => q.right /\ q.op = "disable",
         q.pc \in {"delete", "cache", "on"} /\ q.op = "confirm" =>
             (~mix.overlap => user.secret # 0),
         q.pc = "user" => /\ q.op # "suspend"
                          /\ q.op # "verify" => q.code = NoCode,
         q.pc = "find" => q.code # NoCode,
         q.pc = "mark" => q.code # NoCode /\ row[q.code] = "unused",
         q.pc = "session" => q.code = NoCode
  PROVE  TwoFactorInv'
  <1>1. TypeOK'
    BY DEF TwoFactorInv, TypeOK
  <1>2. OneByOne'
    BY StillOneByOne DEF TwoFactorInv
  <1>3. SecretOfEnabled' /\ BackupCodesOpenOnce'
    BY DEF TwoFactorInv, SecretOfEnabled, BackupCodesOpenOnce, Stored
  <1>4. SerialSteps'
    BY DEF TwoFactorInv, TypeOK, SerialSteps, Stored
  <1>5. NewSetsAreFresh'
    BY DEF TwoFactorInv, TypeOK, NewSetsAreFresh, At
  <1>6. CodesAreMarkedFirst'
    <2>0. ASSUME NEW s \in Req
          PROVE  /\ req'[s].pc = "user" => req'[s].op # "suspend"
                 /\ req'[s].pc = "user" /\ req'[s].op # "verify" => req'[s].code = NoCode
                 /\ req'[s].pc \in {"find", "mark"} => req'[s].code # NoCode
      BY DEF TwoFactorInv, TypeOK, CodesAreMarkedFirst
    <2>1. \A t \in Req : req'[t].pc = "create" => At(t, "create") /\ req'[t] = req[t]
      BY DEF TwoFactorInv, TypeOK, At
    <2>2. ASSUME NEW s \in Req, req'[s].pc \in {"mark", "session"}, req'[s].code # NoCode
          PROVE  /\ req'[s].code.set <= made.sets
                 /\ \A t \in Req : req'[t].pc = "create" => req'[t].set # req'[s].code.set
                 /\ req'[s].pc = "session" => row[req'[s].code] # "unused"
                 /\ ~mix.overlap /\ req'[s].pc = "mark" => row[req'[s].code] = "unused"
                 /\ ~mix.overlap /\ req'[s].pc = "session" => accepted[req'[s].code] = 0
      <3>1. CASE s # r
        BY <2>1, <2>2, <3>1 DEF TwoFactorInv, TypeOK, CodesAreMarkedFirst
      <3>2. CASE s = r
        <4>1. req'[s] = q /\ q.pc = "mark"
          BY <2>2, <3>2 DEF TwoFactorInv, TypeOK
        <4>2. q.code \in Code
          BY <4>1 DEF Request
        <4>3. q.code.set <= made.sets
          BY <4>1, <4>2 DEF TwoFactorInv, TypeOK, NewSetsAreFresh, Code, SetId
        <4> QED
          BY <2>1, <4>1, <4>2, <4>3 DEF TwoFactorInv, NewSetsAreFresh
      <3> QED
        BY <3>1, <3>2
    <2> QED
      BY <2>0, <2>2 DEF CodesAreMarkedFirst, At
  <1> QED
    BY <1>1, <1>2, <1>3, <1>4, <1>5, <1>6 DEF TwoFactorInv

-----------------------------------------------------------------------------
(* The steps                                                               *)

\* A request has a label, so one that is somewhere is not idle.
LEMMA ReadSteps ==
  ASSUME TwoFactorInv, NEW r \in Req,
         Arrive(r) \/ FindUser(r) \/ FindCode(r) \/ Show(r) \/ Crash(r)
  PROVE  TwoFactorInv'
  <1> DEFINE q == req[r]
  <1>0. TypeOK /\ q \in Request
    BY DEF TwoFactorInv, TypeOK
  <1>1. UNCHANGED <<mix, user, made, row, accepted>> /\ cache' \in SetId /\ challenge' \in BOOLEAN
    BY <1>0 DEF Arrive, FindUser, FindCode, Show, Crash, Read, data, TypeOK
  <1>2. CASE req' = [req EXCEPT ![r] = Blank]
    BY <1>1, <1>2, BlankType, SetRequest
  <1>3. CASE Arrive(r)
    <2>1. PICK op \in mix.ops \ {"suspend"}, otp \in 0..made.secrets, right \in BOOLEAN,
               c \in {x \in Code : x.set <= made.sets} \cup {NoCode} :
            /\ op # "verify" => c = NoCode
            /\ req' = [req EXCEPT ![r] = [Blank EXCEPT !.pc = "user", !.op = op,
                                             !.otp = otp, !.code = c, !.right = right]]
      BY <1>3 DEF Arrive
    <2>0. mix.ops \subseteq Operation
      BY <1>0 DEF TypeOK
    <2> DEFINE next == [Blank EXCEPT !.pc = "user", !.op = op,
                                     !.otp = otp, !.code = c, !.right = right]
    <2>2. otp \in SecretId
      BY <1>0 DEF TypeOK, SecretId
    <2>3. next \in Request /\ next.pc = "user" /\ next.op = op /\ next.code = c
      BY <2>0, <2>2, BlankType DEF Request, Label
    <2> HIDE DEF next
    <2>4. req' = [req EXCEPT ![r] = next]
      BY <2>1 DEF next
    <2> QED
      BY <1>1, <1>3, <2>1, <2>3, <2>4, SetRequest DEF Arrive
  <1>4. CASE FindUser(r) /\ req' # [req EXCEPT ![r] = Blank]
    <2>1. At(r, "user") /\ Allows(q)
      BY <1>4 DEF FindUser, Read, End
    <2>2. PICK label : /\ req' = [req EXCEPT ![r].pc = label]
                       /\ \/ q.op = "enable" /\ label = "secret"
                          \/ q.op \in {"confirm", "regenerate"} /\ label = "delete"
                          \/ q.op = "disable" /\ label = "off"
                          \/ q.op = "show" /\ label = "show"
                          \/ q.op = "login" /\ label \in {"challenge", "session"}
                          \/ q.op = "verify" /\ q.code = NoCode /\ label = "session"
                          \/ q.op = "verify" /\ q.code # NoCode /\ label = "find"
      <3>1. q.op \in Operation \ {"suspend"}
        BY <1>0, <2>1 DEF Request, At, TwoFactorInv, CodesAreMarkedFirst
      <3> QED
        BY <1>4, <2>1, <3>1 DEF FindUser, Read, End, Goto, Operation
    <2> DEFINE next == [q EXCEPT !.pc = label]
    <2>3. /\ next \in Request /\ next.pc = label
          /\ next.op = q.op /\ next.code = q.code /\ next.right = q.right
      BY <1>0, <2>2 DEF Request, Label
    <2>4. /\ q.op = "enable" => ~user.enabled
          /\ q.op = "confirm" => user.secret # 0
          /\ q.op = "disable" => q.right
      BY <2>1 DEF Allows, SetUpAllowed, Matches
    <2>5. q.op = "login" => q.code = NoCode
      BY <2>1 DEF At, TwoFactorInv, CodesAreMarkedFirst
    <2>6. req' = [req EXCEPT ![r] = next] /\ ~At(r, "idle")
      BY <2>1, <2>2 DEF At
    <2> HIDE DEF next
    <2> QED
      BY <1>1, <2>2, <2>3, <2>4, <2>5, <2>6, SetRequest
  <1>5. CASE FindCode(r) /\ req' # [req EXCEPT ![r] = Blank]
    <2> DEFINE next == [q EXCEPT !.pc = "mark"]
    <2>1. /\ At(r, "find") /\ row[q.code] = "unused"
          /\ req' = [req EXCEPT ![r] = next]
      BY <1>5 DEF FindCode, Read, End, Goto
    <2>2. next \in Request /\ next.pc = "mark" /\ next.code = q.code
      BY <1>0 DEF Request, Label
    <2>3. q.code # NoCode /\ ~At(r, "idle")
      BY <2>1 DEF At, TwoFactorInv, CodesAreMarkedFirst
    <2> HIDE DEF next
    <2> QED
      BY <1>1, <2>1, <2>2, <2>3, SetRequest
  <1> QED
    BY <1>2, <1>3, <1>4, <1>5 DEF Show, Crash, End

\* Steps that write the account: the switch and the secret.
LEMMA SetUpSteps ==
  ASSUME TwoFactorInv, NEW r \in Req, SetUp(r)
  PROVE  TwoFactorInv'
  <1> DEFINE q == req[r]
  <1>0. TypeOK /\ OneByOne /\ q \in Request
    BY DEF TwoFactorInv, TypeOK
  <1>1. PICK next \in Request :
          /\ req' = [req EXCEPT ![r] = next]
          /\ next.pc = "idle" \/ (next.pc = "delete" /\ next.op = q.op /\ At(r, "off"))
    <2> DEFINE next == [q EXCEPT !.pc = "delete"]
    <2>1. next \in Request /\ next.pc = "delete" /\ next.op = q.op
      BY <1>0 DEF Request, Label
    <2>2. CASE TurnOff(r)
      <3>1. req' = [req EXCEPT ![r] = next] /\ At(r, "off")
        BY <2>2 DEF TurnOff, Goto
      <3> HIDE DEF next
      <3> QED
        BY <2>1, <3>1
    <2>3. CASE WriteSecret(r) \/ TurnOn(r)
      BY <2>3, BlankType DEF WriteSecret, TurnOn, End
    <2> QED
      BY <2>2, <2>3 DEF SetUp
  <1>2. ~At(r, "idle") /\ (~mix.overlap => \A s \in Req \ {r} : At(s, "idle"))
    BY <1>0 DEF SetUp, WriteSecret, TurnOn, TurnOff, At, OneByOne
  <1>3. /\ UNCHANGED <<mix, row, cache, challenge, accepted>>
        /\ made' \in [secrets : SecretId, sets : SetId] /\ made'.sets = made.sets
        /\ user' \in User
    <2>1. CASE WriteSecret(r)
      <3>1. made.secrets + 1 \in SecretId
        BY <1>0, <2>1 DEF WriteSecret, TypeOK, SecretId
      <3> QED
        BY <1>0, <2>1, <3>1 DEF WriteSecret, TypeOK, User
    <2>2. CASE TurnOn(r)
      BY <1>0, <2>2 DEF TurnOn, TypeOK, User
    <2>3. CASE TurnOff(r)
      <3>1. 0 \in SecretId
        BY DEF SecretId
      <3> QED
        BY <1>0, <2>3, <3>1 DEF TurnOff, TypeOK, User
    <2> QED
      BY <2>1, <2>2, <2>3 DEF SetUp
  <1>4. ~mix.overlap => (user'.enabled => user'.secret # 0)
    <2>1. CASE WriteSecret(r)
      BY <1>0, <2>1 DEF WriteSecret, TypeOK, User
    <2>2. CASE TurnOn(r)
      <3>1. ~mix.overlap => user.secret # 0
        BY <2>2 DEF TurnOn, At, TwoFactorInv, SerialSteps
      <3> QED
        BY <1>0, <2>2, <3>1 DEF TurnOn, TypeOK, User
    <2>3. CASE TurnOff(r)
      BY <1>0, <2>3 DEF TurnOff, TypeOK, User
    <2> QED
      BY <2>1, <2>2, <2>3 DEF SetUp
  <1>5. TypeOK'
    BY <1>0, <1>1, <1>3 DEF TypeOK
  <1>6. OneByOne'
    BY <1>0, <1>1, <1>2, <1>3, StillOneByOne
  <1>7. SecretOfEnabled' /\ BackupCodesOpenOnce'
    BY <1>3, <1>4 DEF TwoFactorInv, SecretOfEnabled, BackupCodesOpenOnce, Stored
  <1>8. SerialSteps'
    <2>1. ASSUME ~mix.overlap, NEW s \in Req
          PROVE  req'[s].pc = "idle" \/ (req'[s].pc = "delete" /\ req'[s].op # "confirm")
      <3>1. At(r, "off") => q.op = "disable"
        BY <2>1 DEF At, TwoFactorInv, SerialSteps
      <3> QED
        BY <1>0, <1>1, <1>2, <2>1, <3>1 DEF At, TypeOK
    <2> QED
      BY <1>3, <2>1 DEF SerialSteps
  <1>9. NewSetsAreFresh' /\ CodesAreMarkedFirst'
    BY <1>0, <1>1, <1>3 DEF TwoFactorInv, TypeOK, NewSetsAreFresh, CodesAreMarkedFirst, At
  <1> QED
    BY <1>5, <1>6, <1>7, <1>8, <1>9 DEF TwoFactorInv

\* replaceBackupCodes deletes all codes and takes a number for its set that no
\* code has had; disable deletes them too.
LEMMA DeleteStep ==
  ASSUME TwoFactorInv, NEW r \in Req, DeleteCodes(r)
  PROVE  TwoFactorInv'
  <1> DEFINE q == req[r]
  <1>0. TypeOK /\ OneByOne /\ q \in Request /\ made.sets \in SetId
    BY DEF TwoFactorInv, TypeOK
  <1>1. /\ At(r, "delete") /\ ~At(r, "idle")
        /\ UNCHANGED <<mix, user, cache, challenge, accepted>>
        /\ row' = [c \in Code |-> "none"]
    BY DEF DeleteCodes, At
  <1>2. PICK next \in Request :
          /\ req' = [req EXCEPT ![r] = next] /\ next.op = q.op
          /\ \/ next.pc = "clear" /\ made' = made
             \/ /\ next.pc = "create" /\ next.set = made.sets + 1
                /\ made.sets < MaxSet
                /\ made' = [made EXCEPT !.sets = @ + 1]
    <2>1. CASE q.op = "disable"
      <3> DEFINE next == [q EXCEPT !.pc = "clear"]
      <3>1. next \in Request /\ next.pc = "clear" /\ next.op = q.op
        BY <1>0 DEF Request, Label
      <3>2. req' = [req EXCEPT ![r] = next] /\ made' = made
        BY <2>1 DEF DeleteCodes, Goto
      <3> HIDE DEF next
      <3> QED
        BY <3>1, <3>2
    <2>2. CASE q.op # "disable"
      <3> DEFINE next == [q EXCEPT !.pc = "create", !.set = made.sets + 1]
      <3>1. made.sets < MaxSet /\ made' = [made EXCEPT !.sets = @ + 1]
        BY <2>2 DEF DeleteCodes
      <3>2. made.sets + 1 \in SetId
        BY <1>0, <3>1 DEF SetId
      <3>3. next \in Request /\ next.pc = "create" /\ next.op = q.op
            /\ next.set = made.sets + 1
        BY <1>0, <3>2 DEF Request, Label
      <3>4. req' = [req EXCEPT ![r] = next]
        BY <2>2 DEF DeleteCodes
      <3> HIDE DEF next
      <3> QED
        BY <3>1, <3>3, <3>4
    <2> QED
      BY <2>1, <2>2
  <1>3. /\ made' \in [secrets : SecretId, sets : SetId]
        /\ made'.sets >= made.sets
        /\ next.pc = "create" => made'.sets = made.sets + 1
    BY <1>0, <1>2 DEF TypeOK, SetId
  <1>4. TypeOK'
    BY <1>0, <1>1, <1>2, <1>3 DEF TypeOK
  <1>5. OneByOne'
    BY <1>0, <1>1, <1>2, StillOneByOne
  <1>6. SecretOfEnabled' /\ BackupCodesOpenOnce'
    BY <1>1 DEF TwoFactorInv, SecretOfEnabled, BackupCodesOpenOnce, Stored
  <1>7. SerialSteps'
    <2>1. ~mix.overlap /\ q.op = "confirm" => user.secret # 0
      BY <1>1 DEF TwoFactorInv, SerialSteps, At
    <2>2. \A c \in Code : ~Stored(c)'
      BY <1>1 DEF Stored
    <2>3. \A s \in Req \ {r} : req'[s] = req[s]
      BY <1>0, <1>2 DEF TypeOK
    <2>4. req'[r] = next
      BY <1>0, <1>2 DEF TypeOK
    <2>5. next.pc \notin {"secret", "off", "on"}
      BY <1>2
    <2> QED
      BY <1>1, <1>2, <2>1, <2>2, <2>3, <2>4, <2>5 DEF TwoFactorInv, SerialSteps
  <1>8. ASSUME NEW s \in Req PROVE s # r => req'[s] = req[s]
    BY <1>0, <1>2 DEF TypeOK
  <1>9. req'[r] = next
    BY <1>0, <1>2 DEF TypeOK
  <1>a. NewSetsAreFresh'
    <2>1. \A c \in Code : row'[c] = "none" /\ accepted'[c] = accepted[c] /\ c.set \in Nat
      BY <1>1 DEF Code
    <2>2. \A c \in Code : c.set > made'.sets => accepted[c] = 0
      BY <1>0, <1>3, <2>1 DEF TwoFactorInv, NewSetsAreFresh, SetId
    <2>3. ASSUME NEW s \in Req, s # r, At(s, "create")
          PROVE  /\ req[s].set \in 1..made'.sets /\ req[s].set <= made.sets
                 /\ \A c \in Code : c.set = req[s].set => accepted[c] = 0
      BY <1>0, <1>3, <2>3 DEF TwoFactorInv, NewSetsAreFresh, SetId
    <2>4. ASSUME next.pc = "create"
          PROVE  /\ next.set \in 1..made'.sets /\ next.set > made.sets
                 /\ \A c \in Code : c.set = next.set => accepted[c] = 0
      BY <1>0, <1>2, <1>3, <2>1, <2>4 DEF TwoFactorInv, NewSetsAreFresh, SetId
    <2>5. ASSUME NEW s \in Req, req'[s].pc = "create"
          PROVE  /\ req'[s].set \in 1..made'.sets
                 /\ \A c \in Code : c.set = req'[s].set => accepted[c] = 0
                 /\ \A t \in Req : t # s /\ req'[t].pc = "create" => req'[t].set # req'[s].set
      <3>1. CASE s = r
        BY <1>0, <1>8, <1>9, <2>3, <2>4, <2>5, <3>1 DEF At, SetId
      <3>2. CASE s # r
        <4>1. At(s, "create") /\ req'[s] = req[s]
          BY <1>8, <2>5, <3>2 DEF At
        <4>2. ASSUME NEW t \in Req, t # s, req'[t].pc = "create"
              PROVE  req'[t].set # req'[s].set
          <5>1. CASE t = r
            BY <1>0, <1>9, <2>3, <2>4, <3>2, <4>1, <4>2, <5>1 DEF SetId
          <5>2. CASE t # r
            BY <1>8, <4>1, <4>2, <5>2 DEF At, TwoFactorInv, NewSetsAreFresh
          <5> QED
            BY <5>1, <5>2
        <4> QED
          BY <2>3, <3>2, <4>1, <4>2
      <3> QED
        BY <3>1, <3>2
    <2> QED
      BY <2>1, <2>2, <2>5 DEF NewSetsAreFresh, At
  <1>b. CodesAreMarkedFirst'
    <2>1. ASSUME NEW s \in Req, req'[s].pc \in {"user", "find", "mark", "session"}
          PROVE  s # r /\ req'[s] = req[s]
      BY <1>2, <1>8, <1>9, <2>1
    <2>2. ASSUME NEW s \in Req, req'[s].pc \in {"mark", "session"}, req'[s].code # NoCode
          PROVE  /\ req'[s].code.set <= made'.sets
                 /\ \A t \in Req : req'[t].pc = "create" => req'[t].set # req'[s].code.set
                 /\ req'[s].pc = "session" => row'[req'[s].code] # "unused"
                 /\ ~mix.overlap /\ req'[s].pc = "session" => accepted[req'[s].code] = 0
      <3>1. s # r /\ req'[s] = req[s] /\ req[s].code \in Code
        BY <1>0, <2>1, <2>2 DEF TypeOK, Request
      <3>2. /\ req[s].code.set <= made.sets /\ req[s].code.set \in Nat
            /\ \A t \in Req : At(t, "create") => req[t].set # req[s].code.set
            /\ ~mix.overlap /\ req[s].pc = "session" => accepted[req[s].code] = 0
        BY <2>2, <3>1 DEF TwoFactorInv, CodesAreMarkedFirst, Code
      <3>3. row'[req'[s].code] # "unused"
        BY <1>1, <3>1
      <3>4. ASSUME NEW t \in Req, req'[t].pc = "create"
            PROVE  req'[t].set # req[s].code.set
        <4>1. CASE t = r
          BY <1>0, <1>2, <1>9, <3>2, <3>4, <4>1 DEF SetId
        <4>2. CASE t # r
          BY <1>8, <3>2, <3>4, <4>2 DEF At
        <4> QED
          BY <4>1, <4>2
      <3>5. req[s].code.set <= made'.sets
        BY <1>0, <1>3, <3>2 DEF TypeOK, SetId
      <3> QED
        BY <3>1, <3>2, <3>3, <3>4, <3>5
    <2>3. ASSUME NEW s \in Req, ~mix.overlap PROVE req'[s].pc # "mark"
      BY <1>0, <1>1, <2>1, <2>3 DEF OneByOne, At
    <2>4. ASSUME NEW s \in Req
          PROVE  /\ req'[s].pc = "user" => req'[s].op # "suspend"
                 /\ req'[s].pc = "user" /\ req'[s].op # "verify" => req'[s].code = NoCode
                 /\ req'[s].pc \in {"find", "mark"} => req'[s].code # NoCode
      BY <2>1 DEF TwoFactorInv, CodesAreMarkedFirst
    <2> QED
      BY <1>1, <2>2, <2>3, <2>4 DEF CodesAreMarkedFirst, At
  <1> QED
    BY <1>4, <1>5, <1>6, <1>7, <1>a, <1>b DEF TwoFactorInv

\* createMany stores the fresh set.
LEMMA CreateStep ==
  ASSUME TwoFactorInv, NEW r \in Req, CreateCodes(r)
  PROVE  TwoFactorInv'
  <1> DEFINE q == req[r]
             next == [q EXCEPT !.pc = "cache"]
  <1>0. TypeOK /\ OneByOne /\ q \in Request
    BY DEF TwoFactorInv, TypeOK
  <1>1. next \in Request /\ next.pc = "cache" /\ next.op = q.op
    BY <1>0 DEF Request, Label
  <1>2. /\ At(r, "create") /\ ~At(r, "idle")
        /\ UNCHANGED <<mix, user, made, cache, challenge, accepted>>
        /\ row' = [c \in Code |-> IF c.set = q.set THEN "unused" ELSE row[c]]
        /\ req' = [req EXCEPT ![r] = next]
    BY DEF CreateCodes, At, Goto
  <1> HIDE DEF next
  <1>3. /\ req'[r] = next
        /\ \A s \in Req : s # r => req'[s] = req[s]
    BY <1>0, <1>2 DEF TypeOK
  <1>4. /\ q.set \in 1..made.sets
        /\ \A c \in Code : c.set = q.set => row[c] = "none" /\ accepted[c] = 0
        /\ \A s \in Req : s # r /\ At(s, "create") => req[s].set # q.set
    BY <1>2 DEF TwoFactorInv, NewSetsAreFresh
  <1>5. ~mix.overlap => \A c \in Code : row[c] = "none"
    BY <1>2 DEF TwoFactorInv, SerialSteps, At, Stored
  <1>6. ~mix.overlap => \A s \in Req \ {r} : req[s].pc = "idle"
    BY <1>0, <1>2 DEF OneByOne, At
  <1>7. TypeOK'
    <2>1. row' \in [Code -> {"none", "unused", "used"}]
      BY <1>0, <1>2 DEF TypeOK
    <2> QED
      BY <1>0, <1>1, <1>2, <2>1 DEF TypeOK
  <1>8. OneByOne'
    BY <1>0, <1>2, StillOneByOne
  <1>9. SecretOfEnabled' /\ BackupCodesOpenOnce'
    BY <1>2, <1>4, <1>5 DEF TwoFactorInv, SecretOfEnabled, BackupCodesOpenOnce, Stored
  <1>a. SerialSteps'
    <2>1. ~mix.overlap /\ q.op = "confirm" => user.secret # 0
      BY <1>2 DEF TwoFactorInv, SerialSteps, At
    <2> QED
      BY <1>1, <1>2, <1>3, <1>6, <2>1 DEF SerialSteps
  <1>b. NewSetsAreFresh'
    <2>1. ASSUME NEW c \in Code, c.set > made.sets PROVE c.set # q.set
      BY <1>0, <1>4, <2>1 DEF TypeOK, SetId, Code
    <2>2. \A s \in Req : req'[s].pc = "create" => s # r /\ At(s, "create") /\ req'[s] = req[s]
      BY <1>1, <1>3 DEF At
    <2> QED
      BY <1>2, <1>4, <2>1, <2>2 DEF TwoFactorInv, NewSetsAreFresh, At
  <1>c. CodesAreMarkedFirst'
    <2>1. ASSUME NEW s \in Req, req'[s].pc \in {"user", "find", "mark", "session", "create"}
          PROVE  s # r /\ req'[s] = req[s]
      BY <1>1, <1>3, <2>1
    <2>2. ASSUME NEW s \in Req, req[s].pc \in {"mark", "session"}, req[s].code # NoCode
          PROVE  row'[req[s].code] = row[req[s].code]
      <3>1. req[s].code \in Code
        BY <1>0, <2>2 DEF TypeOK, Request
      <3>2. req[s].code.set # q.set
        BY <1>2, <2>2 DEF TwoFactorInv, CodesAreMarkedFirst
      <3> QED
        BY <1>2, <3>1, <3>2
    <2> QED
      BY <1>2, <2>1, <2>2 DEF TwoFactorInv, CodesAreMarkedFirst, At
  <1> QED
    BY <1>7, <1>8, <1>9, <1>a, <1>b, <1>c DEF TwoFactorInv

\* The copy in Redis, and the challenge.
LEMMA CacheSteps ==
  ASSUME TwoFactorInv, NEW r \in Req,
         CacheCodes(r) \/ ClearCache(r) \/ GiveChallenge(r)
  PROVE  TwoFactorInv'
  <1> DEFINE q == req[r]
             next == [q EXCEPT !.pc = "on"]
  <1>0. TypeOK /\ q \in Request /\ ~At(r, "idle")
    BY DEF TwoFactorInv, TypeOK, CacheCodes, ClearCache, GiveChallenge, At
  <1>1. UNCHANGED <<mix, user, made, row, accepted>>
    BY DEF CacheCodes, ClearCache, GiveChallenge
  <1>2. cache' \in SetId /\ challenge' \in BOOLEAN
    <2>1. q.set \in SetId /\ 0 \in SetId
      BY <1>0 DEF Request, SetId
    <2> QED
      BY <1>0, <2>1 DEF CacheCodes, ClearCache, GiveChallenge, TypeOK
  <1>3. CASE req' = [req EXCEPT ![r] = Blank]
    BY <1>0, <1>1, <1>2, <1>3, BlankType, SetRequest
  <1>4. CASE CacheCodes(r) /\ q.op = "confirm"
    <2>1. next \in Request /\ next.pc = "on" /\ next.op = "confirm"
      BY <1>0, <1>4 DEF Request, Label
    <2>2. req' = [req EXCEPT ![r] = next] /\ At(r, "cache")
      BY <1>4 DEF CacheCodes, Goto
    <2>3. ~mix.overlap => user.secret # 0
      BY <1>4, <2>2 DEF At, TwoFactorInv, SerialSteps
    <2> HIDE DEF next
    <2> QED
      BY <1>0, <1>1, <1>2, <2>1, <2>2, <2>3, SetRequest
  <1> QED
    BY <1>3, <1>4 DEF CacheCodes, ClearCache, GiveChallenge, End

\* A code that was found is marked, or has been deleted meanwhile.
LEMMA MarkStep ==
  ASSUME TwoFactorInv, NEW r \in Req, MarkCode(r)
  PROVE  TwoFactorInv'
  <1> DEFINE q == req[r]
             next == [q EXCEPT !.pc = "session"]
  <1>0. TypeOK /\ OneByOne /\ q \in Request
    BY DEF TwoFactorInv, TypeOK
  <1>1. /\ At(r, "mark") /\ ~At(r, "idle")
        /\ UNCHANGED <<mix, user, made, cache, challenge, accepted>>
    BY DEF MarkCode, At
  <1>2. CASE ~Stored(q.code)
    BY <1>0, <1>1, <1>2, BlankType, SetRequest DEF MarkCode, End, TypeOK
  <1>3. CASE Stored(q.code)
    <2>1. next \in Request /\ next.pc = "session" /\ next.code = q.code
      BY <1>0 DEF Request, Label
    <2>2. row' = [row EXCEPT ![q.code] = "used"] /\ req' = [req EXCEPT ![r] = next]
      BY <1>3 DEF MarkCode, Goto
    <2> HIDE DEF next
    <2>3. /\ req'[r] = next
          /\ \A s \in Req : s # r => req'[s] = req[s]
      BY <1>0, <2>2 DEF TypeOK
    <2>4. /\ q.code # NoCode /\ q.code \in Code
          /\ q.code.set <= made.sets
          /\ \A s \in Req : At(s, "create") => req[s].set # q.code.set
          /\ ~mix.overlap => row[q.code] = "unused"
      BY <1>0, <1>1 DEF TwoFactorInv, CodesAreMarkedFirst, At, Request
    <2>5. row' \in [Code -> {"none", "unused", "used"}]
      BY <1>0, <2>2 DEF TypeOK
    <2>6. /\ row'[q.code] = "used"
          /\ \A c \in Code : c # q.code => row'[c] = row[c]
      BY <1>0, <2>2, <2>4 DEF TypeOK
    <2>7. TypeOK' /\ OneByOne'
      <3>1. TypeOK'
        BY <1>0, <1>1, <2>1, <2>2, <2>5 DEF TypeOK
      <3> QED
        BY <1>0, <1>1, <2>2, <3>1, StillOneByOne
    <2>8. SecretOfEnabled' /\ BackupCodesOpenOnce'
      BY <1>1, <1>3, <2>4, <2>6 DEF TwoFactorInv, SecretOfEnabled, BackupCodesOpenOnce,
                                    Stored
    <2>9. SerialSteps'
      <3>1. ~mix.overlap => \A s \in Req \ {r} : req[s].pc = "idle"
        BY <1>0, <1>1 DEF OneByOne, At
      <3> QED
        BY <1>1, <2>1, <2>3, <3>1 DEF SerialSteps
    <2>a. NewSetsAreFresh'
      <3>1. \A s \in Req : req'[s].pc = "create" => At(s, "create") /\ req'[s] = req[s]
        BY <2>1, <2>3 DEF At
      <3>2. ~(q.code.set > made.sets)
        BY <1>0, <2>4 DEF TypeOK, Code, SetId
      <3> QED
        BY <1>1, <2>4, <2>6, <3>1, <3>2 DEF TwoFactorInv, NewSetsAreFresh, At
    <2>b. CodesAreMarkedFirst'
      <3>1. ~mix.overlap => accepted[q.code] = 0
        BY <2>4 DEF TwoFactorInv, BackupCodesOpenOnce, TypeOK
      <3>2. ASSUME NEW s \in Req, req'[s].pc \in {"user", "find", "mark", "create"}
            PROVE  s # r /\ req'[s] = req[s]
        BY <2>1, <2>3, <3>2
      <3>3. ~mix.overlap => \A s \in Req : req'[s].pc # "mark"
        BY <1>0, <1>1, <3>2 DEF OneByOne, At
      <3>4. ASSUME NEW s \in Req, req'[s].pc \in {"mark", "session"},
                   req'[s].code # NoCode
            PROVE  /\ req'[s].code.set <= made.sets
                   /\ \A t \in Req : req'[t].pc = "create" => req'[t].set # req'[s].code.set
                   /\ req'[s].pc = "session" => row'[req'[s].code] # "unused"
                   /\ ~mix.overlap /\ req'[s].pc = "session" => accepted[req'[s].code] = 0
        <4>1. CASE s = r
          BY <2>1, <2>3, <2>4, <2>6, <3>1, <3>2, <4>1 DEF At
        <4>2. CASE s # r
          <5>1. req[s].code \in Code
            BY <1>0, <2>3, <3>4, <4>2 DEF TypeOK, Request
          <5> QED
            BY <2>3, <2>6, <3>2, <3>4, <4>2, <5>1
              DEF TwoFactorInv, CodesAreMarkedFirst, At
        <4> QED
          BY <4>1, <4>2
      <3> QED
        BY <1>1, <3>2, <3>3, <3>4 DEF TwoFactorInv, CodesAreMarkedFirst, At
    <2> QED
      BY <2>7, <2>8, <2>9, <2>a, <2>b DEF TwoFactorInv
  <1> QED
    BY <1>2, <1>3

\* A session, by a code that is marked.
LEMMA SignInStep ==
  ASSUME TwoFactorInv, NEW r \in Req, SignIn(r)
  PROVE  TwoFactorInv'
  <1> DEFINE q == req[r]
  <1>0. TypeOK /\ OneByOne /\ q \in Request
    BY DEF TwoFactorInv, TypeOK
  <1>1. /\ At(r, "session") /\ ~At(r, "idle")
        /\ UNCHANGED <<mix, user, made, row, cache, challenge>>
        /\ req' = [req EXCEPT ![r] = Blank]
    BY DEF SignIn, At, End
  <1>2. CASE q.code = NoCode
    BY <1>0, <1>1, <1>2, BlankType, SetRequest DEF SignIn, TypeOK
  <1>3. CASE q.code # NoCode
    <2>1. accepted' = [accepted EXCEPT ![q.code] = IF @ = 0 THEN 1 ELSE 2]
      BY <1>3 DEF SignIn
    <2>2. /\ q.code \in Code /\ q.code.set <= made.sets
          /\ \A s \in Req : At(s, "create") => req[s].set # q.code.set
          /\ row[q.code] # "unused"
          /\ ~mix.overlap => accepted[q.code] = 0
      BY <1>0, <1>1, <1>3 DEF TwoFactorInv, CodesAreMarkedFirst, At, Request
    <2>3. /\ accepted' \in [Code -> 0..2]
          /\ accepted'[q.code] = IF accepted[q.code] = 0 THEN 1 ELSE 2
          /\ \A c \in Code : c # q.code => accepted'[c] = accepted[c]
      BY <1>0, <2>1, <2>2 DEF TypeOK
    <2>4. /\ req'[r] = Blank
          /\ \A s \in Req : s # r => req'[s] = req[s]
      BY <1>0, <1>1 DEF TypeOK
    <2>5. TypeOK' /\ OneByOne'
      <3>1. TypeOK'
        BY <1>0, <1>1, <2>3, BlankType DEF TypeOK
      <3> QED
        BY <1>0, <1>1, <3>1, StillOneByOne, BlankType
    <2>6. SecretOfEnabled'
      BY <1>1 DEF TwoFactorInv, SecretOfEnabled, Stored
    <2>7. BackupCodesOpenOnce'
      BY <1>1, <2>2, <2>3 DEF TwoFactorInv, BackupCodesOpenOnce
    <2>8. SerialSteps'
      BY <1>1, <2>4, BlankType DEF TwoFactorInv, SerialSteps, Stored
    <2>9. NewSetsAreFresh'
      <3>1. \A s \in Req : req'[s].pc = "create" => At(s, "create") /\ req'[s] = req[s]
        BY <2>4, BlankType DEF At
      <3>2. ~(q.code.set > made.sets)
        BY <1>0, <2>2 DEF TypeOK, Code, SetId
      <3> QED
        BY <1>1, <2>2, <2>3, <3>1, <3>2 DEF TwoFactorInv, NewSetsAreFresh, At
    <2>a. CodesAreMarkedFirst'
      <3>1. ASSUME NEW s \in Req, req'[s].pc # "idle" PROVE s # r /\ req'[s] = req[s]
        BY <2>4, <3>1, BlankType
      <3>2. ~mix.overlap => \A s \in Req : req'[s].pc = "idle"
        BY <1>0, <1>1, <2>4, BlankType DEF OneByOne, At
      <3> QED
        BY <1>1, <3>1, <3>2 DEF TwoFactorInv, CodesAreMarkedFirst, At
    <2> QED
      BY <2>5, <2>6, <2>7, <2>8, <2>9, <2>a DEF TwoFactorInv
  <1> QED
    BY <1>2, <1>3

LEMMA NextInv == TwoFactorInv /\ [Next]_vars => TwoFactorInv'
  <1> SUFFICES ASSUME TwoFactorInv, [Next]_vars PROVE TwoFactorInv'
    OBVIOUS
  <1> USE DEF TwoFactorInv, TypeOK, OneByOne, SecretOfEnabled, SerialSteps,
              NewSetsAreFresh, CodesAreMarkedFirst, BackupCodesOpenOnce, Stored, At
  <1>1. CASE ExpireChallenge
    BY <1>1 DEF ExpireChallenge
  <1>4. CASE ExpireCache
    <2>1. cache' \in SetId
      BY <1>4 DEF ExpireCache, SetId
    <2> QED
      BY <1>4, <2>1 DEF ExpireCache
  <1>2. CASE Suspend
    <2>1. /\ user' \in User
          /\ user'.enabled = user.enabled /\ user'.secret = user.secret
      BY <1>2 DEF Suspend, User
    <2> QED
      BY <1>2, <2>1 DEF Suspend
  <1>3. CASE UNCHANGED vars
    BY <1>3 DEF vars
  <1> QED
    BY <1>1, <1>2, <1>3, <1>4, ReadSteps, SetUpSteps, DeleteStep, CreateStep, CacheSteps,
       MarkStep, SignInStep DEF Next, BackupCodes, Challenge

-----------------------------------------------------------------------------

\* A backup code that led to a session is never found again, however requests
\* overlap; of requests that do not overlap it leads to one session.
THEOREM CodesOpenOnce == Spec => []BackupCodesOpenOnce
  <1>1. TwoFactorInv => BackupCodesOpenOnce
    BY DEF TwoFactorInv
  <1> QED
    BY InitInv, NextInv, <1>1, PTL DEF Spec

-----------------------------------------------------------------------------
(* Who switches the second factor off, and what Redis shows                *)

\* Only the set-up writes the account, but for its suspension.
LEMMA StepStays ==
  ASSUME TwoFactorInv, [Next]_vars, ~mix.overlap, user.enabled
  PROVE  \/ user'.enabled /\ user'.secret = user.secret
         \/ \E r \in Req : At(r, "off") /\ req[r].right
  <1>0. TypeOK
    BY DEF TwoFactorInv
  <1>1. ASSUME NEW r \in Req, SetUp(r)
        PROVE  \/ user'.enabled /\ user'.secret = user.secret
               \/ At(r, "off") /\ req[r].right
    <2>1. CASE WriteSecret(r)
      BY <2>1 DEF WriteSecret, At, TwoFactorInv, SerialSteps
    <2>2. CASE TurnOn(r)
      BY <1>0, <2>2 DEF TurnOn, TypeOK, User
    <2>3. CASE TurnOff(r)
      BY <2>3 DEF TurnOff, At, TwoFactorInv, SerialSteps
    <2> QED
      BY <1>1, <2>1, <2>2, <2>3 DEF SetUp
  <1>2. CASE Suspend
    BY <1>0, <1>2 DEF Suspend, TypeOK, User
  <1>3. ASSUME NEW r \in Req, ~SetUp(r),
               Arrive(r) \/ FindUser(r) \/ SetUp(r) \/ BackupCodes(r) \/ Challenge(r)
                         \/ Crash(r)
        PROVE  user' = user
    BY <1>3 DEF Arrive, FindUser, BackupCodes, DeleteCodes, CreateCodes, CacheCodes,
                ClearCache, Show, Challenge, GiveChallenge, FindCode, MarkCode, SignIn,
                Crash, Read, data
  <1>4. CASE ExpireCache \/ ExpireChallenge \/ UNCHANGED vars
    BY <1>4 DEF ExpireCache, ExpireChallenge, vars
  <1> QED
    BY <1>1, <1>2, <1>3, <1>4 DEF Next

\* Of requests that do not overlap, only a disable that gave the password takes
\* a second factor that is on, or its secret.
THEOREM FactorStays == Spec => SecondFactorStays
  <1>1. TwoFactorInv /\ [Next]_vars =>
          [~mix.overlap /\ user.enabled =>
             \/ user'.enabled /\ user'.secret = user.secret
             \/ \E r \in Req : At(r, "off") /\ req[r].right]_vars
    BY StepStays
  <1> QED
    BY InitInv, NextInv, <1>1, PTL DEF Spec, SecondFactorStays

Empty == \A c \in Code : ~Stored(c)

\* The codes are those of one set, and so are those that Redis still shows.
OneSet == \E n \in 1..MaxSet : StoredAre(n)

ShownAreStored == cache # 0 => StoredAre(cache)

\* What is stored and shown, between requests and while they read.
Shown ==
    /\ IF user.enabled THEN OneSet ELSE Empty
    /\ cache # 0 => user.enabled
    /\ ShownAreStored

\* What holds at the statements of a request that nothing else interrupts: in
\* the middle of replacing the codes, Redis still shows those before.
ShownAt(q) ==
    /\ q.pc \in {"user", "secret", "off", "show", "challenge", "find", "mark", "session"}
         => Shown
    /\ q.pc \in {"delete", "create", "cache", "on", "clear"} =>
         q.op \in {"confirm", "regenerate", "disable"}
    /\ q.pc \in {"delete", "create", "cache"} /\ q.op = "regenerate" => user.enabled
    /\ q.pc \in {"delete", "clear"} /\ q.op = "disable" => ~user.enabled
    /\ q.pc = "clear" => q.op = "disable" /\ Empty
    /\ q.pc = "create" => q.op # "disable" /\ Empty
    /\ q.pc = "cache" => q.op # "disable" /\ q.set \in 1..MaxSet /\ StoredAre(q.set)
    /\ q.pc = "on" => OneSet /\ ShownAreStored

ShownInv ==
    /\ TwoFactorInv
    /\ ~mix.overlap /\ ~mix.crash =>
         /\ Quiet => Shown
         /\ \A r \in Req : ShownAt(req[r])

\* A step that leaves the codes and the switch alone; what Redis shows may go.
LEMMA StillShown ==
  ASSUME \A c \in Code : Stored(c)' <=> Stored(c), user'.enabled <=> user.enabled,
         cache' \in {cache, 0}
  PROVE  /\ Shown => Shown'
         /\ Empty => Empty'
         /\ OneSet => OneSet'
         /\ ShownAreStored => ShownAreStored'
         /\ \A n : StoredAre(n) => StoredAre(n)'
  BY DEF Shown, OneSet, Empty, ShownAreStored, StoredAre

LEMMA InitShown == Init => ShownInv
  <1> SUFFICES ASSUME Init PROVE ShownInv
    OBVIOUS
  <1>1. Shown
    BY DEF Init, Shown, Empty, ShownAreStored, Stored
  <1> QED
    BY <1>1, InitInv, BlankType DEF Init, ShownInv, ShownAt

\* A single request is over, or goes on.
LEMMA NextStatement ==
  ASSUME ShownInv, TwoFactorInv', NEW r \in Req, NEW q,
         ~At(r, "idle") \/ Quiet, req' = [req EXCEPT ![r] = q], mix' = mix,
         ~mix.overlap /\ ~mix.crash =>
             IF q.pc = "idle" THEN Shown' ELSE ShownAt(q)'
  PROVE  ShownInv'
  <1>1. CASE mix.overlap \/ mix.crash
    BY <1>1 DEF ShownInv
  <1>2. CASE ~mix.overlap /\ ~mix.crash
    <2>1. req'[r] = q /\ \A s \in Req \ {r} : req'[s] = req[s] /\ req[s].pc = "idle"
      BY <1>2 DEF ShownInv, TwoFactorInv, TypeOK, OneByOne, At, Quiet
    <2>2. \A s \in Req \ {r} : ShownAt(req[s])'
      BY <2>1 DEF ShownAt
    <2>3. ShownAt(req[r])'
      <3>1. CASE q.pc = "idle"
        BY <2>1, <3>1 DEF ShownAt
      <3>2. CASE q.pc # "idle"
        BY <1>2, <2>1, <3>2 DEF ShownAt
      <3> QED
        BY <3>1, <3>2
    <2>4. Quiet' => Shown'
      BY <1>2, <2>1 DEF Quiet, At
    <2> QED
      BY <2>1, <2>2, <2>3, <2>4 DEF ShownInv
  <1> QED
    BY <1>1, <1>2

\* Statements that leave what is stored and shown alone.
LEMMA ShownReads ==
  ASSUME ShownInv, TwoFactorInv', NEW r \in Req,
         \/ Arrive(r) \/ FindUser(r) \/ FindCode(r) \/ Show(r)
         \/ GiveChallenge(r) \/ SignIn(r)
  PROVE  ShownInv'
  <1> DEFINE q == req[r]
  <1>0. TypeOK /\ q \in Request
    BY DEF ShownInv, TwoFactorInv, TypeOK
  <1>1. UNCHANGED <<mix, user, row, cache>>
    BY DEF Arrive, FindUser, FindCode, Show, GiveChallenge, SignIn, Read, data
  <1>2. ~mix.overlap /\ ~mix.crash => Shown
    BY DEF ShownInv, ShownAt, Arrive, FindUser, FindCode, Show, GiveChallenge, SignIn,
           Read, At
  <1>3. Shown => Shown'
    BY <1>1, StillShown DEF Stored
  <1>4. ~At(r, "idle") \/ Quiet \/ mix.overlap
    BY DEF Arrive, FindUser, FindCode, Show, GiveChallenge, SignIn, Read, At
  <1>5. PICK next : /\ req' = [req EXCEPT ![r] = next]
                    /\ \/ next.pc \in {"idle", "user", "secret", "off", "show",
                                       "challenge", "find", "mark", "session"}
                       \/ /\ next.pc = "delete"
                          /\ next.op \in {"confirm", "regenerate"}
                          /\ next.op = "regenerate" => user.enabled
    <2>1. CASE req' = [req EXCEPT ![r] = Blank]
      BY <2>1, BlankType
    <2>2. CASE Arrive(r)
      <3>1. PICK op, otp, right, c :
              req' = [req EXCEPT ![r] = [Blank EXCEPT !.pc = "user", !.op = op,
                                             !.otp = otp, !.code = c, !.right = right]]
        BY <2>2 DEF Arrive
      <3>2. [Blank EXCEPT !.pc = "user", !.op = op, !.otp = otp, !.code = c,
                          !.right = right].pc = "user"
        BY DEF Blank
      <3> QED
        BY <3>1, <3>2
    <2>3. ASSUME NEW label, req' = [req EXCEPT ![r].pc = label],
                 \/ label \in {"secret", "off", "show", "challenge", "find", "mark",
                               "session"}
                 \/ /\ label = "delete"
                    /\ q.op \in {"confirm", "regenerate"}
                    /\ q.op = "regenerate" => user.enabled
          PROVE  \E next : /\ req' = [req EXCEPT ![r] = next]
                           /\ \/ next.pc \in {"idle", "user", "secret", "off", "show",
                                              "challenge", "find", "mark", "session"}
                              \/ /\ next.pc = "delete"
                                 /\ next.op \in {"confirm", "regenerate"}
                                 /\ next.op = "regenerate" => user.enabled
      <3> DEFINE next == [q EXCEPT !.pc = label]
      <3>1. next.pc = label /\ next.op = q.op
        BY <1>0 DEF Request
      <3>2. req' = [req EXCEPT ![r] = next]
        BY <2>3
      <3> HIDE DEF next
      <3> QED
        BY <2>3, <3>1, <3>2
    <2>4. CASE FindUser(r) /\ req' # [req EXCEPT ![r] = Blank]
      <3>1. At(r, "user") /\ Allows(q)
        BY <2>4 DEF FindUser, Read, End
      <3>2. q.op \in Operation \ {"suspend"}
        BY <1>0, <3>1 DEF Request, At, ShownInv, TwoFactorInv, CodesAreMarkedFirst
      <3>3. q.op = "regenerate" => user.enabled
        BY <3>1 DEF Allows
      <3>4. PICK label : /\ req' = [req EXCEPT ![r].pc = label]
                         /\ \/ label \in {"secret", "off", "show", "challenge", "find",
                                          "session"}
                            \/ label = "delete" /\ q.op \in {"confirm", "regenerate"}
        BY <2>4, <3>1, <3>2 DEF FindUser, Read, End, Goto, Operation
      <3> QED
        BY <2>3, <3>3, <3>4
    <2>5. CASE FindCode(r) /\ req' # [req EXCEPT ![r] = Blank]
      <3>1. req' = [req EXCEPT ![r].pc = "mark"]
        BY <2>5 DEF FindCode, Read, End, Goto
      <3> QED
        BY <2>3, <3>1
    <2> QED
      BY <2>1, <2>2, <2>4, <2>5 DEF Show, GiveChallenge, SignIn, End
  <1>6. CASE mix.overlap
    BY <1>1, <1>6 DEF ShownInv
  <1>7. ~mix.overlap /\ ~mix.crash =>
          IF next.pc = "idle" THEN Shown' ELSE ShownAt(next)'
    BY <1>1, <1>2, <1>3, <1>5 DEF ShownAt
  <1> QED
    BY <1>1, <1>4, <1>5, <1>6, <1>7, NextStatement

\* Statements that write.
LEMMA ShownWrites ==
  ASSUME ShownInv, TwoFactorInv', NEW r \in Req,
         \/ SetUp(r) \/ DeleteCodes(r) \/ CreateCodes(r) \/ CacheCodes(r)
         \/ ClearCache(r) \/ MarkCode(r)
  PROVE  ShownInv'
  <1> DEFINE q == req[r]
             Serial == ~mix.overlap /\ ~mix.crash
  <1>0. TypeOK /\ q \in Request /\ ShownInv
    BY DEF ShownInv, TwoFactorInv, TypeOK
  <1>1. mix' = mix /\ ~At(r, "idle")
    BY DEF SetUp, WriteSecret, TurnOn, TurnOff, DeleteCodes, CreateCodes, CacheCodes,
           ClearCache, MarkCode, At
  <1>2. Serial => ShownAt(q)
    BY DEF ShownInv
  \* A request that is over, and one that goes on to its next statement.
  <1>3. ASSUME req' = [req EXCEPT ![r] = Blank], Serial => Shown'
        PROVE  ShownInv'
    BY <1>1, <1>3, BlankType, NextStatement
  <1>4. ASSUME NEW label, NEW set,
               req' = [req EXCEPT ![r] = [q EXCEPT !.pc = label, !.set = set]],
               label \in {"delete", "create", "cache", "on", "clear", "session"},
               Serial =>
                 /\ label = "session" => Shown'
                 /\ label # "session" => q.op \in {"confirm", "regenerate", "disable"}
                 /\ label \in {"delete", "create", "cache"} /\ q.op = "regenerate"
                      => user'.enabled
                 /\ label \in {"delete", "clear"} /\ q.op = "disable" => ~user'.enabled
                 /\ label = "clear" => q.op = "disable" /\ Empty'
                 /\ label = "create" => q.op # "disable" /\ Empty'
                 /\ label = "cache" => /\ q.op # "disable" /\ set \in 1..MaxSet
                                       /\ \A c \in Code : Stored(c)' <=> c.set = set
                 /\ label = "on" => OneSet' /\ ShownAreStored'
        PROVE  ShownInv'
    <2>1. PICK next : next = [q EXCEPT !.pc = label, !.set = set]
      OBVIOUS
    <2>2. next.pc = label /\ next.op = q.op /\ next.set = set
      BY <1>0, <2>1 DEF Request
    <2>3. req' = [req EXCEPT ![r] = next]
      BY <1>4, <2>1
    <2>4. Serial => ShownAt(next)'
      BY <1>4, <2>2 DEF ShownAt, StoredAre
    <2> QED
      BY <1>1, <1>4, <2>2, <2>3, <2>4, NextStatement
  <1>5. ASSUME NEW label
        PROVE  [req EXCEPT ![r].pc = label]
                 = [req EXCEPT ![r] = [q EXCEPT !.pc = label, !.set = q.set]]
    BY <1>0 DEF TypeOK, Request
  <1>6. CASE WriteSecret(r)
    <2>1. Serial => Shown
      BY <1>2, <1>6 DEF WriteSecret, At, ShownAt
    <2>2. Serial => ~user.enabled
      BY <1>6 DEF WriteSecret, At, ShownInv, TwoFactorInv, SerialSteps
    <2>3. ~user'.enabled
      BY <1>0, <1>6 DEF WriteSecret, TypeOK, User
    <2>4. Serial => Shown'
      BY <1>6, <2>1, <2>2, <2>3 DEF WriteSecret, Shown, Empty, ShownAreStored, StoredAre,
                                    Stored
    <2> QED
      BY <1>3, <1>6, <2>4 DEF WriteSecret, End
  <1>7. CASE TurnOn(r)
    <2>1. user'.enabled
      BY <1>0, <1>7 DEF TurnOn, TypeOK, User
    <2>2. Serial => Shown'
      BY <1>2, <1>7, <2>1 DEF TurnOn, At, ShownAt, Shown, OneSet, ShownAreStored,
                              StoredAre, Stored
    <2> QED
      BY <1>3, <1>7, <2>2 DEF TurnOn, End
  <1>8. CASE TurnOff(r)
    <2>1. ~user'.enabled
      BY <1>0, <1>8 DEF TurnOff, TypeOK, User
    <2>2. Serial => q.op = "disable"
      BY <1>8 DEF TurnOff, At, ShownInv, TwoFactorInv, SerialSteps
    <2> QED
      BY <1>4, <1>5, <1>8, <2>1, <2>2 DEF TurnOff, Goto
  <1>9. CASE DeleteCodes(r)
    <2>1. /\ Empty' /\ user' = user /\ At(r, "delete")
      BY <1>9 DEF DeleteCodes, Empty, Stored
    <2>2. Serial => /\ q.op \in {"confirm", "regenerate", "disable"}
                    /\ q.op = "regenerate" => user.enabled
                    /\ q.op = "disable" => ~user.enabled
      BY <1>2, <2>1 DEF ShownAt, At
    <2>3. CASE q.op = "disable"
      BY <1>4, <1>5, <1>9, <2>1, <2>2, <2>3 DEF DeleteCodes, Goto
    <2>4. CASE q.op # "disable"
      <3>1. req' = [req EXCEPT ![r] = [q EXCEPT !.pc = "create", !.set = made.sets + 1]]
        BY <1>9, <2>4 DEF DeleteCodes
      <3> QED
        BY <1>4, <2>1, <2>2, <2>4, <3>1
    <2> QED
      BY <2>3, <2>4
  <1>a. CASE CreateCodes(r)
    <2>1. At(r, "create") /\ user' = user
      BY <1>a DEF CreateCodes
    <2>2. Serial => /\ q.op \in {"confirm", "regenerate"} /\ Empty
                    /\ q.op = "regenerate" => user.enabled
      BY <1>2, <2>1 DEF ShownAt, At
    <2>3. q.set \in 1..MaxSet
      BY <2>1 DEF ShownInv, TwoFactorInv, NewSetsAreFresh, TypeOK, SetId
    <2>4. Serial => \A c \in Code : Stored(c)' <=> c.set = q.set
      BY <1>a, <2>2 DEF CreateCodes, Empty, Stored
    <2>5. req' = [req EXCEPT ![r] = [q EXCEPT !.pc = "cache", !.set = q.set]]
      BY <1>5, <1>a DEF CreateCodes, Goto
    <2> QED
      BY <1>4, <2>1, <2>2, <2>3, <2>4, <2>5
  <1>b. CASE CacheCodes(r)
    <2>1. At(r, "cache") /\ cache' = q.set /\ user' = user /\ row' = row
      BY <1>b DEF CacheCodes
    <2>2. Serial => /\ q.op \in {"confirm", "regenerate"} /\ q.set \in 1..MaxSet
                    /\ q.op = "regenerate" => user.enabled
                    /\ StoredAre(q.set)
      BY <1>2, <2>1 DEF ShownAt, At
    <2>3. Serial => OneSet' /\ ShownAreStored'
      BY <2>1, <2>2 DEF OneSet, ShownAreStored, StoredAre, Stored
    <2>4. CASE q.op = "confirm"
      BY <1>4, <1>5, <1>b, <2>1, <2>2, <2>3, <2>4 DEF CacheCodes, Goto
    <2>5. CASE q.op # "confirm"
      <3>1. Serial => Shown'
        BY <2>1, <2>2, <2>3, <2>5 DEF Shown
      <3> QED
        BY <1>3, <1>b, <2>5, <3>1 DEF CacheCodes, End
    <2> QED
      BY <2>4, <2>5
  <1>c. CASE ClearCache(r)
    <2>1. At(r, "clear") /\ cache' = 0 /\ user' = user /\ row' = row
      BY <1>c DEF ClearCache
    <2>2. Serial => ~user.enabled /\ Empty
      BY <1>2, <2>1 DEF ShownAt, At
    <2>3. Serial => Shown'
      BY <2>1, <2>2 DEF Shown, Empty, ShownAreStored, Stored
    <2> QED
      BY <1>3, <1>c, <2>3 DEF ClearCache, End
  <1>d. CASE MarkCode(r)
    <2>1. Serial => Shown
      BY <1>2, <1>d DEF MarkCode, At, ShownAt
    <2>2. \A c \in Code : Stored(c)' <=> Stored(c)
      BY <1>0, <1>d DEF MarkCode, Stored, TypeOK
    <2>3. Serial => Shown'
      BY <1>d, <2>1, <2>2, StillShown DEF MarkCode
    <2>4. CASE Stored(q.code)
      BY <1>4, <1>5, <1>d, <2>3, <2>4 DEF MarkCode, Goto
    <2>5. CASE ~Stored(q.code)
      BY <1>3, <1>d, <2>3, <2>5 DEF MarkCode, End
    <2> QED
      BY <2>4, <2>5
  <1> QED
    BY <1>6, <1>7, <1>8, <1>9, <1>a, <1>b, <1>c, <1>d DEF SetUp

LEMMA NextShown == ShownInv /\ [Next]_vars => ShownInv'
  <1> SUFFICES ASSUME ShownInv, [Next]_vars PROVE ShownInv'
    OBVIOUS
  <1>1. TwoFactorInv'
    BY NextInv DEF ShownInv
  <1>2. ASSUME NEW r \in Req, Crash(r) PROVE ShownInv'
    BY <1>1, <1>2 DEF Crash, data, ShownInv
  \* What time and administrators do.
  <1>3. CASE ExpireCache \/ ExpireChallenge \/ Suspend \/ UNCHANGED vars
    <2>1. /\ UNCHANGED <<mix, row, req>> /\ cache' \in {cache, 0}
          /\ user'.enabled <=> user.enabled
      BY <1>3 DEF ExpireCache, ExpireChallenge, Suspend, vars, ShownInv, TwoFactorInv,
                  TypeOK, User
    <2>2. \A c \in Code : Stored(c)' <=> Stored(c)
      BY <2>1 DEF Stored
    <2>3. \A q : ShownAt(q) => ShownAt(q)'
      BY <2>1, <2>2, StillShown DEF ShownAt
    <2> QED
      BY <1>1, <2>1, <2>2, <2>3, StillShown DEF ShownInv, Quiet, At
  <1> QED
    BY <1>1, <1>2, <1>3, ShownReads, ShownWrites DEF Next, BackupCodes, Challenge

\* Between requests that complete, an account with a second factor has the codes
\* of one set, one without it has none, and what Redis still shows are the codes
\* that are stored.
THEOREM CodesShownAreStored == Spec => []CodesAreThoseShown
  <1>1. ShownInv => CodesAreThoseShown
    BY DEF ShownInv, Shown, OneSet, Empty, ShownAreStored, CodesAreThoseShown
  <1> QED
    BY InitShown, NextShown, <1>1, PTL DEF Spec

\* The account never asks for a factor whose secret is gone, its codes are of one
\* set, and between requests that complete it is not shown any others.
THEOREM SecretsAndSets == Spec => []Inv
  <1>1. ShownInv => Inv
    BY DEF ShownInv, TwoFactorInv, Shown, OneSet, Empty, ShownAreStored,
           CodesAreThoseShown, Inv
  <1> QED
    BY InitShown, NextShown, <1>1, PTL DEF Spec

-----------------------------------------------------------------------------
(* The contract: what each statement is to it                              *)

Serial == ~mix.overlap /\ ~mix.crash

\* What the contract asks of the statement that settles an operation: what has
\* been checked for it still holds.
Backed(q) ==
    /\ q.pc = "delete" /\ q.op = "confirm" => q.otp = user.secret
    /\ q.pc = "delete" /\ q.op = "regenerate" => q.right
    /\ q.pc = "delete" /\ q.op # "disable" => Shown
    /\ q.pc \in {"off", "find", "mark"} => user.enabled
    /\ q.pc \in {"cache", "on"} =>
         \A c \in Code : row[c] = IF c.set = q.set THEN "unused" ELSE "none"
    /\ q.pc = "on" => cache \in {q.set, 0}

ContractInv ==
    /\ ShownInv
    /\ user.secret <= made.secrets
    /\ Serial => \A r \in Req : Backed(req[r])

\* The contract's variables while one request q is handled.
Sees(q) ==
    /\ enabledNow <=> user.enabled \/ (Replacing(q) /\ q.op = "confirm")
    /\ shownNow = IF Replacing(q) THEN {c \in Code : c.set = q.set}
                  ELSE {c \in Code : user.enabled /\ c.set = cache}
    /\ unusedNow = {c \in Code : \/ Replacing(q) /\ c.set = q.set
                                 \/ user.enabled /\ row[c] = "unused"}
    /\ openedNow = {c \in Code : accepted[c] > 0 \/ (q.pc = "session" /\ q.code = c)}
    /\ givenNow = IF Open(q) THEN {Credential(q)} ELSE {}

LEMMA Sight ==
  ASSUME NEW r \in Req, \A s \in Req \ {r} : req[s].pc = "idle", NEW q, q = req[r]
  PROVE  Sees(q)
  <1>1. /\ NewSets = IF Replacing(q) THEN {q.set} ELSE {}
        /\ \A s \in Req : Replacing(req[s]) => s = r
    BY DEF NewSets, Replacing
  <1>2. enabledNow <=> user.enabled \/ (Replacing(q) /\ q.op = "confirm")
    BY <1>1 DEF enabledNow
  <1>3. NewCodes = IF Replacing(q) THEN {c \in Code : c.set = q.set} ELSE {}
    BY <1>1 DEF NewCodes
  <1>4. shownNow = IF Replacing(q) THEN {c \in Code : c.set = q.set}
                   ELSE {c \in Code : user.enabled /\ c.set = cache}
    BY <1>1, <1>3 DEF shownNow
  <1>5. unusedNow = {c \in Code : \/ Replacing(q) /\ c.set = q.set
                                  \/ user.enabled /\ row[c] = "unused"}
    BY <1>3 DEF unusedNow
  <1>6. openedNow = {c \in Code : accepted[c] > 0 \/ (q.pc = "session" /\ q.code = c)}
    BY DEF openedNow, At
  <1>7. givenNow = IF Open(q) THEN {Credential(q)} ELSE {}
    BY DEF givenNow, Open
  <1> QED
    BY <1>2, <1>4, <1>5, <1>6, <1>7 DEF Sees

\* The same of the state that a step leads to.
LEMMA SightAfter ==
  ASSUME NEW r \in Req, \A s \in Req \ {r} : req'[s].pc = "idle", NEW q, q = req'[r]
  PROVE  Sees(q)'
  <1>1. /\ NewSets' = IF Replacing(q) THEN {q.set} ELSE {}
        /\ \A s \in Req : Replacing(req'[s]) => s = r
    BY DEF NewSets, Replacing
  <1>2. enabledNow' <=> user'.enabled \/ (Replacing(q) /\ q.op = "confirm")
    BY <1>1 DEF enabledNow
  <1>3. NewCodes' = IF Replacing(q) THEN {c \in Code : c.set = q.set} ELSE {}
    BY <1>1 DEF NewCodes
  <1>4. shownNow' = IF Replacing(q) THEN {c \in Code : c.set = q.set}
                    ELSE {c \in Code : user'.enabled /\ c.set = cache'}
    BY <1>1, <1>3 DEF shownNow
  <1>5. unusedNow' = {c \in Code : \/ Replacing(q) /\ c.set = q.set
                                   \/ user'.enabled /\ row'[c] = "unused"}
    BY <1>3 DEF unusedNow
  <1>6. openedNow' = {c \in Code : accepted'[c] > 0 \/ (q.pc = "session" /\ q.code = c)}
    BY DEF openedNow, At
  <1>7. givenNow' = IF Open(q) THEN {Credential(q)} ELSE {}
    BY DEF givenNow, Open
  <1> QED
    BY <1>2, <1>4, <1>5, <1>6, <1>7 DEF Sees

-----------------------------------------------------------------------------

LEMMA InitContract == Init => ContractInv
  <1> SUFFICES ASSUME Init PROVE ContractInv
    OBVIOUS
  <1>1. \A r \in Req : Backed(req[r])
    BY BlankType DEF Init, Backed
  <1> QED
    BY <1>1, InitShown DEF Init, ContractInv

LEMMA NextBacked ==
  ASSUME ContractInv, ShownInv', NEW r \in Req, NEW q,
         ~At(r, "idle") \/ Quiet, req' = [req EXCEPT ![r] = q], mix' = mix,
         user'.secret <= made'.secrets, Serial => Backed(q)'
  PROVE  ContractInv'
  <1>1. CASE ~Serial
    BY <1>1 DEF ContractInv, Serial
  <1>2. CASE Serial
    <2>1. req'[r] = q /\ \A s \in Req \ {r} : req'[s] = req[s] /\ req[s].pc = "idle"
      BY <1>2 DEF Serial, ContractInv, ShownInv, TwoFactorInv, TypeOK, OneByOne, At, Quiet
    <2>2. \A s \in Req \ {r} : Backed(req[s])'
      BY <2>1 DEF Backed
    <2>3. Backed(req[r])'
      BY <1>2, <2>1 DEF Backed
    <2> QED
      BY <2>2, <2>3 DEF ContractInv
  <1> QED
    BY <1>1, <1>2

\* A request that is over, and one that goes on, for the lemmas below.
LEMMA BackedGoes ==
  ASSUME ContractInv, ShownInv', NEW r \in Req, ~At(r, "idle") \/ Quiet, mix' = mix,
         NEW label, req' = [req EXCEPT ![r].pc = label],
         user'.secret <= made'.secrets,
         Serial =>
             /\ label = "delete" /\ req[r].op = "confirm" => req[r].otp = user'.secret
             /\ label = "delete" /\ req[r].op = "regenerate" => req[r].right
             /\ label = "delete" /\ req[r].op # "disable" => Shown'
             /\ label \in {"off", "find", "mark"} => user'.enabled
             /\ label \in {"cache", "on"} =>
                  \A c \in Code :
                      row'[c] = IF c.set = req[r].set THEN "unused" ELSE "none"
             /\ label = "on" => cache' \in {req[r].set, 0}
  PROVE  ContractInv'
  <1>1. PICK q : q = [req[r] EXCEPT !.pc = label]
    OBVIOUS
  <1>2. req[r] \in Request
    BY DEF ContractInv, ShownInv, TwoFactorInv, TypeOK
  <1>3. /\ q.pc = label /\ q.op = req[r].op /\ q.otp = req[r].otp
        /\ q.right = req[r].right /\ q.set = req[r].set
    BY <1>1, <1>2 DEF Request
  <1>4. Serial => Backed(q)'
    BY <1>3 DEF Backed
  <1>5. req' = [req EXCEPT ![r] = q]
    BY <1>1
  <1> QED
    BY <1>4, <1>5, NextBacked

LEMMA BackedReads ==
  ASSUME ContractInv, ShownInv', NEW r \in Req,
         \/ Arrive(r) \/ FindUser(r) \/ FindCode(r) \/ Show(r)
         \/ GiveChallenge(r) \/ SignIn(r)
  PROVE  ContractInv'
  <1> DEFINE q == req[r]
  <1>0. TypeOK /\ q \in Request
    BY DEF ContractInv, ShownInv, TwoFactorInv, TypeOK
  <1>1. UNCHANGED <<mix, user, made, row, cache>> /\ (~At(r, "idle") \/ Quiet \/ mix.overlap)
    BY DEF Arrive, FindUser, FindCode, Show, GiveChallenge, SignIn, Read, data, At
  <1>2. CASE mix.overlap
    BY <1>1, <1>2 DEF ContractInv, Serial
  <1>3. CASE ~mix.overlap /\ Arrive(r)
    <2>1. PICK op, otp, right, c :
            req' = [req EXCEPT ![r] = [Blank EXCEPT !.pc = "user", !.op = op,
                                           !.otp = otp, !.code = c, !.right = right]]
      BY <1>3 DEF Arrive
    <2>2. PICK next : next = [Blank EXCEPT !.pc = "user", !.op = op, !.otp = otp,
                                           !.code = c, !.right = right]
      OBVIOUS
    <2>3. next.pc = "user" /\ req' = [req EXCEPT ![r] = next]
      BY <2>1, <2>2 DEF Blank
    <2>4. Backed(next)'
      BY <2>3 DEF Backed
    <2> QED
      BY <1>1, <1>3, <2>3, <2>4, NextBacked DEF ContractInv
  <1>4. CASE ~mix.overlap /\ req' = [req EXCEPT ![r] = Blank]
    <2>1. Backed(Blank)'
      BY BlankType DEF Backed
    <2> QED
      BY <1>1, <1>4, <2>1, NextBacked DEF ContractInv
  <1>5. CASE ~mix.overlap /\ FindUser(r) /\ req' # [req EXCEPT ![r] = Blank]
    <2>1. At(r, "user") /\ Allows(q)
      BY <1>5 DEF FindUser, Read, End
    <2>2. q.op \in Operation \ {"suspend"}
      BY <1>0, <2>1 DEF Request, At, ContractInv, ShownInv, TwoFactorInv, CodesAreMarkedFirst
    <2>3. /\ q.op = "confirm" => q.otp = user.secret
          /\ q.op = "regenerate" => q.right
          /\ q.op \in {"disable", "verify"} => user.enabled
      BY <2>1 DEF Allows, Matches
    <2>4. Serial => Shown
      BY <2>1 DEF Serial, At, ContractInv, ShownInv, ShownAt
    <2>5. PICK label : /\ req' = [req EXCEPT ![r].pc = label]
                       /\ \/ label \in {"secret", "show", "challenge", "session"}
                          \/ label = "off" /\ q.op = "disable"
                          \/ label = "find" /\ q.op = "verify"
                          \/ label = "delete" /\ q.op \in {"confirm", "regenerate"}
      BY <1>5, <2>1, <2>2 DEF FindUser, Read, End, Goto, Operation
    <2>6. Shown => Shown'
      BY <1>1, StillShown DEF Stored
    <2> QED
      BY <1>1, <1>5, <2>3, <2>4, <2>5, <2>6, BackedGoes DEF ContractInv
  <1>6. CASE ~mix.overlap /\ FindCode(r) /\ req' # [req EXCEPT ![r] = Blank]
    <2>1. At(r, "find") /\ req' = [req EXCEPT ![r].pc = "mark"]
      BY <1>6 DEF FindCode, Read, End, Goto
    <2>2. Serial => user.enabled
      BY <2>1 DEF At, ContractInv, Backed
    <2> QED
      BY <1>1, <1>6, <2>1, <2>2, BackedGoes DEF ContractInv
  <1> QED
    BY <1>2, <1>3, <1>4, <1>5, <1>6 DEF Show, GiveChallenge, SignIn, End

LEMMA BackedWrites ==
  ASSUME ContractInv, ShownInv', NEW r \in Req,
         \/ SetUp(r) \/ DeleteCodes(r) \/ CreateCodes(r) \/ CacheCodes(r)
         \/ ClearCache(r) \/ MarkCode(r)
  PROVE  ContractInv'
  <1> DEFINE q == req[r]
  <1>0. TypeOK /\ q \in Request /\ user.secret <= made.secrets
    BY DEF ContractInv, ShownInv, TwoFactorInv, TypeOK
  <1>1. mix' = mix /\ ~At(r, "idle")
    BY DEF SetUp, WriteSecret, TurnOn, TurnOff, DeleteCodes, CreateCodes, CacheCodes,
           ClearCache, MarkCode, At
  <1>2. user'.secret <= made'.secrets
    <2>1. CASE WriteSecret(r)
      BY <1>0, <2>1 DEF WriteSecret, TypeOK, User, SecretId
    <2>2. CASE TurnOn(r)
      BY <1>0, <2>2 DEF TurnOn, TypeOK, User, SecretId
    <2>3. CASE TurnOff(r)
      BY <1>0, <2>3 DEF TurnOff, TypeOK, User, SecretId
    <2>4. CASE DeleteCodes(r)
      BY <1>0, <2>4 DEF DeleteCodes, TypeOK, User, SecretId
    <2>5. CASE CreateCodes(r) \/ CacheCodes(r) \/ ClearCache(r) \/ MarkCode(r)
      BY <1>0, <2>5 DEF CreateCodes, CacheCodes, ClearCache, MarkCode
    <2> QED
      BY <2>1, <2>2, <2>3, <2>4, <2>5 DEF SetUp
  <1>3. CASE req' = [req EXCEPT ![r] = Blank]
    <2>1. Backed(Blank)'
      BY BlankType DEF Backed
    <2> QED
      BY <1>1, <1>2, <1>3, <2>1, NextBacked
  <1>4. CASE TurnOff(r)
    <2>1. Serial => q.op = "disable"
      BY <1>4 DEF Serial, TurnOff, At, ContractInv, ShownInv, TwoFactorInv, SerialSteps
    <2> QED
      BY <1>1, <1>2, <1>4, <2>1, BackedGoes DEF TurnOff, Goto
  <1>5. CASE DeleteCodes(r)
    <2>1. CASE q.op = "disable"
      BY <1>1, <1>2, <1>5, <2>1, BackedGoes DEF DeleteCodes, Goto
    <2>2. CASE q.op # "disable"
      <3>1. PICK next : next = [q EXCEPT !.pc = "create", !.set = made.sets + 1]
        OBVIOUS
      <3>2. next.pc = "create" /\ req' = [req EXCEPT ![r] = next]
        BY <1>0, <1>5, <2>2, <3>1 DEF DeleteCodes, Request
      <3>3. Backed(next)'
        BY <3>2 DEF Backed
      <3> QED
        BY <1>1, <1>2, <3>2, <3>3, NextBacked
    <2> QED
      BY <2>1, <2>2
  <1>6. CASE CreateCodes(r)
    <2>1. Serial => \A c \in Code : row[c] = "none"
      BY <1>6 DEF Serial, CreateCodes, At, ContractInv, ShownInv, TwoFactorInv, SerialSteps,
                  Stored
    <2>2. Serial => \A c \in Code :
                        row'[c] = IF c.set = q.set THEN "unused" ELSE "none"
      BY <1>6, <2>1 DEF CreateCodes
    <2> QED
      BY <1>1, <1>2, <1>6, <2>2, BackedGoes DEF CreateCodes, Goto
  <1>7. CASE CacheCodes(r) /\ q.op = "confirm"
    <2>1. Serial => \A c \in Code :
                        row'[c] = IF c.set = q.set THEN "unused" ELSE "none"
      BY <1>7 DEF CacheCodes, At, ContractInv, Backed
    <2>2. cache' = q.set /\ req' = [req EXCEPT ![r].pc = "on"]
      BY <1>7 DEF CacheCodes, Goto
    <2> QED
      BY <1>1, <1>2, <2>1, <2>2, BackedGoes
  <1>8. CASE MarkCode(r) /\ Stored(q.code)
    BY <1>1, <1>2, <1>8, BackedGoes DEF MarkCode, Goto
  <1> QED
    BY <1>3, <1>4, <1>5, <1>6, <1>7, <1>8
    DEF SetUp, WriteSecret, TurnOn, CacheCodes, ClearCache, MarkCode, End

LEMMA NextContract == ContractInv /\ [Next]_vars => ContractInv'
  <1> SUFFICES ASSUME ContractInv, [Next]_vars PROVE ContractInv'
    OBVIOUS
  <1>1. ShownInv' /\ TypeOK
    BY NextShown DEF ContractInv, ShownInv, TwoFactorInv
  <1>2. ASSUME NEW r \in Req, Crash(r) PROVE ContractInv'
    BY <1>1, <1>2 DEF Crash, data, ContractInv, Serial
  <1>3. CASE ExpireCache \/ ExpireChallenge \/ Suspend \/ UNCHANGED vars
    <2>1. user'.enabled = user.enabled /\ user'.secret = user.secret
      BY <1>1, <1>3 DEF ExpireCache, ExpireChallenge, Suspend, vars, TypeOK, User
    <2>2. UNCHANGED <<mix, made, row, req>> /\ cache' \in {cache, 0}
      BY <1>3 DEF ExpireCache, ExpireChallenge, Suspend, vars
    <2>3. Shown => Shown'
      BY <2>1, <2>2, StillShown DEF Stored
    <2>4. \A r \in Req : Backed(req[r]) => Backed(req[r])'
      BY <2>1, <2>2, <2>3 DEF Backed
    <2> QED
      BY <1>1, <2>1, <2>2, <2>4 DEF ContractInv, Serial
  <1> QED
    BY <1>1, <1>2, <1>3, BackedReads, BackedWrites DEF Next, BackupCodes, Challenge

-----------------------------------------------------------------------------
(* The contract: every step is one of its operations, or none              *)

Same ==
    /\ enabledNow' <=> enabledNow
    /\ user'.secret = user.secret
    /\ shownNow' = shownNow /\ unusedNow' = unusedNow /\ openedNow' = openedNow

\* What the contract does not see.
LEMMA IsHidden ==
  ASSUME Same, givenNow' = givenNow
  PROVE  UNCHANGED Contract!cvars
  BY DEF Same, Contract!cvars, enabledNow

LEMMA IsForget ==
  ASSUME enabledNow' <=> enabledNow, user'.secret = user.secret, shownNow' = {},
         unusedNow' = unusedNow, openedNow' = openedNow, givenNow' = givenNow
  PROVE  Contract!CNext
  BY DEF Contract!CNext, Contract!Forget, enabledNow

LEMMA IsRefuse ==
  ASSUME Same, givenNow' = {}
  PROVE  Contract!CNext
  BY DEF Same, Contract!CNext, Contract!Refuse, enabledNow

LEMMA IsGive ==
  ASSUME Same, givenNow = {}, NEW q, givenNow' = {Credential(q)},
         q.right \in BOOLEAN, q.otp \in SecretId, q.code \in Code \cup {NoCode}
  PROVE  Contract!CNext
  <1>1. Contract!Give(Credential(q))
    BY DEF Same, Contract!Give, enabledNow
  <1>2. Credential(q) \in [right : BOOLEAN, otp : SecretId, code : Code \cup {NoCode}]
    BY DEF Credential
  <1> QED
    BY <1>1, <1>2 DEF Contract!CNext

LEMMA IsOperation ==
  ASSUME NEW g, givenNow = {g}, givenNow' = {},
         \/ \E s \in 1..MaxSecret : Contract!StartSetUp(s)
         \/ \E codes \in {{c \in Code : c.set = n} : n \in 1..MaxSet} :
              Contract!Confirm(g, codes) \/ Contract!Regenerate(g, codes)
         \/ Contract!Disable(g)
         \/ Contract!OpenByCode(g)
  PROVE  Contract!CNext
  BY DEF Contract!CNext

-----------------------------------------------------------------------------

\* A request on its way: what the steps below start from.
LEMMA OneRequest ==
  ASSUME ContractInv, Serial, NEW r \in Req, NEW q, ~At(r, "idle") \/ Quiet,
         req' = [req EXCEPT ![r] = q]
  PROVE  /\ TypeOK /\ req[r] \in Request
         /\ Sees(req[r]) /\ Sees(q)'
         /\ ShownAt(req[r]) \/ Quiet
         /\ Backed(req[r])
  <1>1. TypeOK /\ OneByOne /\ ~mix.overlap
    BY DEF ContractInv, ShownInv, TwoFactorInv, Serial
  <1>2. \A s \in Req \ {r} : req[s].pc = "idle" /\ req'[s].pc = "idle"
    BY <1>1 DEF TypeOK, OneByOne, At, Quiet
  <1>3. PICK p : p = req[r]
    OBVIOUS
  <1>4. Sees(p)
    BY <1>2, <1>3, Sight
  <1>5. q = req'[r]
    BY <1>1 DEF TypeOK
  <1>6. Sees(q)'
    BY <1>2, <1>5, SightAfter
  <1>7. ShownAt(req[r]) /\ Backed(req[r])
    BY DEF ContractInv, ShownInv, Serial
  <1> QED
    BY <1>1, <1>3, <1>4, <1>6, <1>7 DEF TypeOK

\* Statements that only read, and those of a sign-in.
LEMMA ContractReads ==
  ASSUME ContractInv, ContractInv', Serial, NEW r \in Req,
         \/ Arrive(r) \/ FindUser(r) \/ FindCode(r) \/ Show(r)
         \/ GiveChallenge(r) \/ SignIn(r)
  PROVE  Contract!CNext \/ UNCHANGED Contract!cvars
  <1> DEFINE q == req[r]
  <1>0. TypeOK /\ q \in Request /\ ~mix.overlap
    BY DEF ContractInv, ShownInv, TwoFactorInv, TypeOK, Serial
  <1>1. UNCHANGED <<mix, user, row, cache>> /\ (~At(r, "idle") \/ Quiet)
    BY <1>0 DEF Arrive, FindUser, FindCode, Show, GiveChallenge, SignIn, Read, data, At
  <1>2. \A s \in Req : At(s, "idle") => ~Open(req[s]) /\ ~Replacing(req[s])
    BY DEF Open, At, Replacing
  <1>3. CASE Arrive(r)
    <2>1. PICK op \in mix.ops \ {"suspend"}, otp \in 0..made.secrets, right \in BOOLEAN,
               c \in {x \in Code : x.set <= made.sets} \cup {NoCode} :
            req' = [req EXCEPT ![r] = [Blank EXCEPT !.pc = "user", !.op = op,
                                           !.otp = otp, !.code = c, !.right = right]]
      BY <1>3 DEF Arrive
    <2>2. PICK next : next = [Blank EXCEPT !.pc = "user", !.op = op, !.otp = otp,
                                           !.code = c, !.right = right]
      OBVIOUS
    <2>3. /\ next.pc = "user" /\ next.otp \in SecretId /\ next.right \in BOOLEAN
          /\ next.code \in Code \cup {NoCode} /\ req' = [req EXCEPT ![r] = next]
      BY <1>0, <2>1, <2>2 DEF Blank, TypeOK, SecretId
    <2>4. q.pc = "idle" /\ accepted' = accepted
      BY <1>3 DEF Arrive, At, data
    <2>5. Sees(q) /\ Sees(next)'
      BY <1>1, <2>3, OneRequest
    <2>6. Same
      BY <1>1, <2>3, <2>4, <2>5 DEF Same, Sees, Replacing
    <2>7. givenNow = {} /\ givenNow' = {Credential(next)}
      BY <2>3, <2>4, <2>5 DEF Sees, Open, Settled
    <2> QED
      BY <2>3, <2>6, <2>7, IsGive
  <1>4. CASE req' = [req EXCEPT ![r] = Blank] /\ ~Arrive(r)
    <2>1. q.pc \in {"user", "find", "show", "challenge", "session"}
      BY <1>4 DEF FindUser, FindCode, Show, GiveChallenge, SignIn, Read, At
    <2>2. Sees(q) /\ Sees(Blank)' /\ Blank.pc = "idle"
      BY <1>1, <1>4, OneRequest, BlankType
    <2>3. /\ enabledNow' <=> enabledNow
          /\ user'.secret = user.secret
          /\ shownNow' = shownNow /\ unusedNow' = unusedNow
      BY <1>1, <2>1, <2>2 DEF Sees, Replacing
    <2>4. openedNow' = openedNow
      <3>1. CASE SignIn(r) /\ q.code # NoCode
        <4>1. q.pc = "session" /\ accepted' = [accepted EXCEPT ![q.code] = IF @ = 0 THEN 1 ELSE 2]
          BY <3>1 DEF SignIn, At
        <4>2. accepted \in [Code -> 0..2]
          BY <1>0 DEF TypeOK
        <4>3. \A c \in Code : accepted'[c] > 0 <=> accepted[c] > 0 \/ q.code = c
          BY <4>1, <4>2
        <4> QED
          BY <2>2, <4>1, <4>3 DEF Sees
      <3>2. CASE SignIn(r) /\ q.code = NoCode
        <4>1. \A c \in Code : c # NoCode
          BY DEF Code, NoCode
        <4> QED
          BY <2>2, <3>2, <4>1 DEF Sees, SignIn
      <3>3. CASE ~SignIn(r)
        <4>1. accepted' = accepted /\ q.pc # "session"
          BY <1>4, <3>3 DEF FindUser, FindCode, Show, GiveChallenge, Read, At, data
        <4> QED
          BY <2>2, <4>1 DEF Sees
      <3> QED
        BY <3>1, <3>2, <3>3
    <2>5. givenNow' = {}
      BY <2>2 DEF Sees, Open
    <2> QED
      BY <2>3, <2>4, <2>5, IsRefuse DEF Same
  <1>5. CASE (FindUser(r) \/ FindCode(r)) /\ req' # [req EXCEPT ![r] = Blank]
    <2>1. PICK label : /\ req' = [req EXCEPT ![r].pc = label]
                       /\ label \in {"secret", "delete", "off", "show", "challenge", "session",
                                     "find", "mark"}
                       /\ label = "delete" => q.op # "disable"
                       /\ label = "session" => q.code = NoCode
      <3>1. CASE FindUser(r)
        <4>1. At(r, "user")
          BY <3>1 DEF FindUser, Read
        <4>2. /\ q.op \in Operation \ {"suspend"}
              /\ q.op # "verify" => q.code = NoCode
          BY <1>0, <4>1 DEF Request, At, ContractInv, ShownInv, TwoFactorInv,
                            CodesAreMarkedFirst
        <4> QED
          BY <1>5, <3>1, <4>1, <4>2 DEF FindUser, Read, End, Goto, Operation
      <3>2. CASE FindCode(r)
        <4>1. req' = [req EXCEPT ![r].pc = "mark"]
          BY <1>5, <3>2 DEF FindCode, Read, End, Goto
        <4> WITNESS "mark"
        <4> QED
          BY <4>1
      <3> QED
        BY <1>5, <3>1, <3>2
    <2>2. PICK next : next = [q EXCEPT !.pc = label]
      OBVIOUS
    <2>3. /\ next.pc = label /\ next.op = q.op /\ Credential(next) = Credential(q)
          /\ next.code = q.code
          /\ req' = [req EXCEPT ![r] = next]
      BY <1>0, <2>1, <2>2 DEF Request, Credential
    <2>4. q.pc \in {"user", "find"} /\ accepted' = accepted
      BY <1>5 DEF FindUser, FindCode, Read, At, data
    <2>5. Sees(q) /\ Sees(next)'
      BY <1>1, <2>3, OneRequest
    <2>6. \A c \in Code : c # NoCode
      BY DEF Code, NoCode
    <2>7. Same
      BY <1>1, <2>1, <2>3, <2>4, <2>5, <2>6 DEF Same, Sees, Replacing
    <2>8. givenNow' = givenNow
      BY <2>1, <2>3, <2>4, <2>5 DEF Sees, Open, Settled
    <2> QED
      BY <2>7, <2>8, IsHidden
  <1> QED
    BY <1>3, <1>4, <1>5 DEF Show, GiveChallenge, SignIn, End

\* Statements that settle an operation, and those that carry it out.
LEMMA ContractWrites ==
  ASSUME ContractInv, ContractInv', Serial, NEW r \in Req,
         \/ SetUp(r) \/ DeleteCodes(r) \/ CreateCodes(r) \/ CacheCodes(r)
         \/ ClearCache(r) \/ MarkCode(r)
  PROVE  Contract!CNext \/ UNCHANGED Contract!cvars
  <1> DEFINE q == req[r]
  <1>0. TypeOK /\ q \in Request /\ ~mix.overlap /\ user \in User /\ made.sets \in SetId
    BY DEF ContractInv, ShownInv, TwoFactorInv, TypeOK, Serial
  <1>1. ~At(r, "idle")
    BY DEF SetUp, WriteSecret, TurnOn, TurnOff, DeleteCodes, CreateCodes, CacheCodes,
           ClearCache, MarkCode, At
  <1>2. ShownAt(q) /\ Backed(q)
    BY DEF ContractInv, ShownInv, Serial
  <1>3. /\ q.pc = "secret" => ~user.enabled
        /\ q.pc = "off" => q.right /\ q.op = "disable"
        /\ q.pc = "on" => q.op = "confirm"
        /\ q.pc = "delete" /\ q.op = "confirm" => user.secret # 0
        /\ q.pc = "create" => \A c \in Code : ~Stored(c)
        /\ q.pc = "mark" => q.code # NoCode /\ row[q.code] = "unused"
    BY <1>0 DEF ContractInv, ShownInv, TwoFactorInv, SerialSteps, CodesAreMarkedFirst
  \* What is left of a request that has settled its operation.
  <1>4. ASSUME NEW label, req' = [req EXCEPT ![r].pc = label]
        PROVE  \E next : /\ req' = [req EXCEPT ![r] = next]
                         /\ next.pc = label /\ next.op = q.op /\ next.set = q.set
                         /\ next.code = q.code /\ Sees(q) /\ Sees(next)'
    <2>1. PICK next : next = [q EXCEPT !.pc = label]
      OBVIOUS
    <2>2. /\ next.pc = label /\ next.op = q.op /\ next.set = q.set /\ next.code = q.code
          /\ req' = [req EXCEPT ![r] = next]
      BY <1>0, <1>4, <2>1 DEF Request
    <2>3. Sees(q) /\ Sees(next)'
      BY <1>1, <2>2, OneRequest
    <2> QED
      BY <2>2, <2>3
  <1>5. ASSUME req' = [req EXCEPT ![r] = Blank]
        PROVE  Sees(q) /\ Sees(Blank)' /\ Blank.pc = "idle"
    BY <1>1, <1>5, OneRequest, BlankType
  <1>6. PICK g : g = Credential(q)
    OBVIOUS
  <1>7. /\ g.right = q.right /\ g.otp = q.otp /\ g.code = q.code
    BY <1>6 DEF Credential
  <1>8. CASE WriteSecret(r)
    <2>1. /\ q.pc = "secret" /\ UNCHANGED <<row, cache, accepted>>
          /\ user' = [user EXCEPT !.secret = made.secrets + 1, !.enabled = FALSE]
          /\ req' = [req EXCEPT ![r] = Blank] /\ made.secrets < MaxSecret
      BY <1>8 DEF WriteSecret, At, End
    <2>2. Sees(q) /\ Sees(Blank)' /\ Blank.pc = "idle"
      BY <1>5, <2>1
    <2>3. user'.secret = made.secrets + 1 /\ ~user.enabled /\ ~user'.enabled
      BY <1>0, <1>3, <2>1 DEF User
    <2>4. PICK s \in 1..MaxSecret : s = made.secrets + 1
      BY <1>0, <2>1 DEF TypeOK, SecretId
    <2>5. s # user.secret
      BY <1>0, <2>4 DEF ContractInv, TypeOK, SecretId, User
    <2>6. ~enabledNow /\ ~enabledNow' /\ shownNow' = shownNow /\ unusedNow' = unusedNow
      BY <2>1, <2>2, <2>3 DEF Sees, Replacing
    <2>7. openedNow' = openedNow /\ givenNow = {g} /\ givenNow' = {}
      BY <1>6, <2>1, <2>2 DEF Sees, Open, Settled
    <2>8. Contract!StartSetUp(s)
      BY <2>3, <2>4, <2>5, <2>6, <2>7 DEF Contract!StartSetUp, enabledNow
    <2> QED
      BY <2>7, <2>8, IsOperation
  <1>9. CASE TurnOn(r)
    <2>1. /\ q.pc = "on" /\ UNCHANGED <<row, cache, accepted>>
          /\ user'.enabled /\ user'.secret = user.secret
          /\ req' = [req EXCEPT ![r] = Blank]
      BY <1>0, <1>9 DEF TurnOn, At, End, User
    <2>2. Sees(q) /\ Sees(Blank)' /\ Blank.pc = "idle"
      BY <1>5, <2>1
    <2>3. cache \in {q.set, 0} /\ \A c \in Code : row[c] = "unused" <=> c.set = q.set
      BY <1>2, <2>1 DEF Backed
    <2>4. /\ enabledNow' <=> enabledNow
          /\ unusedNow' = unusedNow /\ openedNow' = openedNow
      BY <1>3, <2>1, <2>2, <2>3 DEF Sees, Replacing
    <2>5. givenNow' = {} /\ givenNow = {}
      BY <2>1, <2>2 DEF Sees, Open, Settled
    <2>6. CASE cache = q.set
      <3>1. shownNow' = shownNow
        BY <2>1, <2>2, <2>6 DEF Sees, Replacing
      <3> QED
        BY <2>1, <2>4, <2>5, <3>1, IsRefuse DEF Same
    \* Redis has forgotten the codes before the factor was on.
    <2>7. CASE cache = 0
      <3>1. shownNow' = {}
        BY <2>1, <2>2, <2>7 DEF Sees, Replacing, Code
      <3> QED
        BY <2>1, <2>4, <2>5, <3>1, IsForget
    <2> QED
      BY <2>3, <2>6, <2>7
  <1>a. CASE TurnOff(r)
    <2>1. /\ q.pc = "off" /\ UNCHANGED <<row, cache, accepted>>
          /\ ~user'.enabled /\ user'.secret = 0
          /\ req' = [req EXCEPT ![r].pc = "delete"]
      BY <1>0, <1>a DEF TurnOff, At, Goto, User
    <2>2. PICK next : /\ next.pc = "delete" /\ next.op = q.op
                      /\ Sees(q) /\ Sees(next)'
      BY <1>4, <2>1
    <2>3. enabledNow /\ ~enabledNow' /\ shownNow' = {} /\ unusedNow' = {}
      BY <1>2, <2>1, <2>2 DEF Backed, Sees, Replacing
    <2>4. openedNow' = openedNow /\ givenNow = {g} /\ givenNow' = {}
      BY <1>3, <1>6, <2>1, <2>2 DEF Sees, Open, Settled
    <2>5. g.right
      BY <1>3, <1>7, <2>1
    <2>6. Contract!Disable(g)
      BY <2>1, <2>3, <2>4, <2>5 DEF Contract!Disable, enabledNow
    <2> QED
      BY <2>4, <2>6, IsOperation
  <1>b. CASE DeleteCodes(r) /\ q.op = "disable"
    <2>1. /\ q.pc = "delete" /\ UNCHANGED <<user, cache, accepted>>
          /\ req' = [req EXCEPT ![r].pc = "clear"]
      BY <1>b DEF DeleteCodes, At, Goto
    <2>2. PICK next : /\ next.pc = "clear" /\ next.op = q.op
                      /\ Sees(q) /\ Sees(next)'
      BY <1>4, <2>1
    <2>3. ~user.enabled
      BY <1>2, <1>b, <2>1 DEF ShownAt
    <2>4. Same /\ givenNow' = givenNow
      BY <1>b, <2>1, <2>2, <2>3 DEF Same, Sees, Replacing, Open, Settled
    <2> QED
      BY <2>4, IsHidden
  <1>c. CASE DeleteCodes(r) /\ q.op # "disable"
    <2>1. /\ q.pc = "delete" /\ UNCHANGED <<user, cache, accepted>>
          /\ row' = [c \in Code |-> "none"] /\ made.sets < MaxSet
          /\ req' = [req EXCEPT ![r] = [q EXCEPT !.pc = "create", !.set = made.sets + 1]]
      BY <1>c DEF DeleteCodes, At
    <2>2. PICK next : next = [q EXCEPT !.pc = "create", !.set = made.sets + 1]
      OBVIOUS
    <2>3. /\ next.pc = "create" /\ next.op = q.op /\ next.set = made.sets + 1
          /\ req' = [req EXCEPT ![r] = next]
      BY <1>0, <2>1, <2>2 DEF Request
    <2>4. Sees(q) /\ Sees(next)'
      BY <1>1, <2>3, OneRequest
    <2>5. PICK n \in 1..MaxSet : n = made.sets + 1
      BY <1>0, <2>1 DEF SetId
    <2>6. PICK codes : codes = {c \in Code : c.set = n}
      OBVIOUS
    <2>7. shownNow' = codes /\ unusedNow' = codes
      BY <2>1, <2>3, <2>4, <2>5, <2>6 DEF Sees, Replacing
    <2>8. \A c \in codes : row[c] = "none" /\ accepted[c] = 0
      BY <1>0, <2>5, <2>6 DEF ContractInv, ShownInv, TwoFactorInv, NewSetsAreFresh, SetId
    <2>9. codes \cap (shownNow \cup unusedNow \cup openedNow) = {}
      <3>1. ASSUME NEW c \in codes, c \in shownNow PROVE FALSE
        <4>1. c \in Code /\ user.enabled /\ c.set = cache
          BY <2>1, <2>4, <2>6, <3>1 DEF Sees, Replacing
        <4>2. Shown
          BY <1>2, <1>c, <2>1 DEF Backed
        <4> QED
          BY <2>8, <4>1, <4>2 DEF Shown, ShownAreStored, StoredAre, Stored, Code
      <3>2. ASSUME NEW c \in codes, c \in openedNow PROVE FALSE
        BY <2>1, <2>4, <2>8, <3>2 DEF Sees
      <3>3. ASSUME NEW c \in codes, c \in unusedNow PROVE FALSE
        BY <2>1, <2>4, <2>8, <3>3 DEF Sees, Replacing
      <3> QED
        BY <3>1, <3>2, <3>3
    <2>a. openedNow' = openedNow /\ givenNow = {g} /\ givenNow' = {}
      BY <1>c, <1>6, <2>1, <2>3, <2>4 DEF Sees, Open, Settled
    <2>b. q.op \in {"confirm", "regenerate"}
      BY <1>2, <1>c, <2>1 DEF ShownAt
    <2>c. CASE q.op = "confirm"
      <3>1. user.secret # 0 /\ g.otp = user.secret /\ user'.secret = user.secret
        BY <1>2, <1>3, <1>7, <2>1, <2>c DEF Backed
      <3>2. enabledNow' = TRUE
        BY <2>3, <2>4, <2>c DEF Sees, Replacing, enabledNow
      <3>3. Contract!Confirm(g, codes)
        BY <2>7, <2>9, <2>a, <3>1, <3>2 DEF Contract!Confirm, Contract!NewCodes
      <3> QED
        BY <2>5, <2>6, <2>a, <3>3, IsOperation
    <2>d. CASE q.op = "regenerate"
      <3>1. enabledNow /\ g.right /\ user'.secret = user.secret
        BY <1>2, <1>7, <2>1, <2>4, <2>d DEF Backed, ShownAt, Sees
      <3>2. enabledNow' = enabledNow
        BY <2>1, <2>3, <2>4, <2>d DEF Sees, Replacing, enabledNow
      <3>3. Contract!Regenerate(g, codes)
        BY <2>7, <2>9, <2>a, <3>1, <3>2 DEF Contract!Regenerate, Contract!NewCodes
      <3> QED
        BY <2>5, <2>6, <2>a, <3>3, IsOperation
    <2> QED
      BY <2>b, <2>c, <2>d
  <1>d. CASE CreateCodes(r)
    <2>1. /\ q.pc = "create" /\ UNCHANGED <<user, cache, accepted>>
          /\ row' = [c \in Code |-> IF c.set = q.set THEN "unused" ELSE row[c]]
          /\ req' = [req EXCEPT ![r].pc = "cache"]
      BY <1>d DEF CreateCodes, At, Goto
    <2>2. PICK next : /\ next.pc = "cache" /\ next.op = q.op /\ next.set = q.set
                      /\ Sees(q) /\ Sees(next)'
      BY <1>4, <2>1
    <2>3. \A c \in Code : row[c] # "unused" /\ (row'[c] = "unused" <=> c.set = q.set)
      BY <1>3, <2>1 DEF Stored
    <2>4. Same /\ givenNow' = givenNow
      BY <2>1, <2>2, <2>3 DEF Same, Sees, Replacing, Open, Settled
    <2> QED
      BY <2>4, IsHidden
  <1>e. CASE CacheCodes(r) /\ q.op = "confirm"
    <2>1. /\ q.pc = "cache" /\ UNCHANGED <<user, row, accepted>>
          /\ req' = [req EXCEPT ![r].pc = "on"]
      BY <1>e DEF CacheCodes, At, Goto
    <2>2. PICK next : /\ next.pc = "on" /\ next.op = q.op /\ next.set = q.set
                      /\ Sees(q) /\ Sees(next)'
      BY <1>4, <2>1
    <2>3. Same /\ givenNow' = givenNow
      BY <2>1, <2>2 DEF Same, Sees, Replacing, Open, Settled
    <2> QED
      BY <2>3, IsHidden
  <1>f. CASE CacheCodes(r) /\ q.op # "confirm"
    <2>1. /\ q.pc = "cache" /\ UNCHANGED <<user, row, accepted>> /\ cache' = q.set
          /\ req' = [req EXCEPT ![r] = Blank]
      BY <1>f DEF CacheCodes, At, End
    <2>2. Sees(q) /\ Sees(Blank)' /\ Blank.pc = "idle"
      BY <1>5, <2>1
    <2>3. user.enabled
      BY <1>2, <1>f, <2>1 DEF ShownAt
    <2>4. \A c \in Code : row[c] = "unused" <=> c.set = q.set
      BY <1>2, <2>1 DEF Backed
    <2>5. Same
      BY <1>f, <2>1, <2>2, <2>3, <2>4 DEF Same, Sees, Replacing
    <2>6. givenNow' = {}
      BY <2>2 DEF Sees, Open
    <2> QED
      BY <2>5, <2>6, IsRefuse
  <1>g. CASE ClearCache(r)
    <2>1. /\ q.pc = "clear" /\ UNCHANGED <<user, row, accepted>>
          /\ req' = [req EXCEPT ![r] = Blank]
      BY <1>g DEF ClearCache, At, End
    <2>2. Sees(q) /\ Sees(Blank)' /\ Blank.pc = "idle"
      BY <1>5, <2>1
    <2>3. ~user.enabled
      BY <1>2, <2>1 DEF ShownAt
    <2>4. Same
      BY <2>1, <2>2, <2>3 DEF Same, Sees, Replacing
    <2>5. givenNow' = {}
      BY <2>2 DEF Sees, Open
    <2> QED
      BY <2>4, <2>5, IsRefuse
  <1>h. CASE MarkCode(r)
    <2>1. q.pc = "mark" /\ q.code \in Code /\ row[q.code] = "unused" /\ accepted[q.code] = 0
      <3>1. q.pc = "mark" /\ q.code \in Code
        BY <1>0, <1>3, <1>h DEF MarkCode, At, Request
      <3>2. accepted[q.code] \in 0..2 /\ (accepted[q.code] > 0 => row[q.code] # "unused")
        BY <1>0, <3>1 DEF ContractInv, ShownInv, TwoFactorInv, BackupCodesOpenOnce, TypeOK
      <3> QED
        BY <1>3, <3>1, <3>2
    <2>2. /\ row' = [row EXCEPT ![q.code] = "used"] /\ UNCHANGED <<user, cache, accepted>>
          /\ req' = [req EXCEPT ![r].pc = "session"]
      BY <1>h, <2>1 DEF MarkCode, Stored, Goto
    <2>3. PICK next : /\ next.pc = "session" /\ next.code = q.code
                      /\ Sees(q) /\ Sees(next)'
      BY <1>4, <2>2
    <2>4. user.enabled
      BY <1>2, <2>1 DEF Backed
    <2>5. enabledNow /\ (enabledNow' <=> enabledNow) /\ shownNow' = shownNow
      BY <2>1, <2>2, <2>3, <2>4 DEF Sees, Replacing
    <2>6. \A c \in Code : row'[c] = "unused" <=> row[c] = "unused" /\ c # q.code
      BY <1>0, <2>1, <2>2 DEF TypeOK
    <2>7. unusedNow' = unusedNow \ {q.code} /\ q.code \in unusedNow
      BY <2>1, <2>2, <2>3, <2>4, <2>6 DEF Sees, Replacing
    <2>8. openedNow' = openedNow \cup {q.code} /\ q.code \notin openedNow
      BY <2>1, <2>2, <2>3 DEF Sees
    <2>9. q.code # NoCode /\ givenNow = {g} /\ givenNow' = {}
      BY <1>3, <1>6, <2>1, <2>3 DEF Sees, Open, Settled
    <2>a. Contract!OpenByCode(g)
      BY <1>7, <2>2, <2>5, <2>7, <2>8 DEF Contract!OpenByCode, enabledNow
    <2> QED
      BY <2>9, <2>a, IsOperation
  <1> QED
    BY <1>8, <1>9, <1>a, <1>b, <1>c, <1>d, <1>e, <1>f, <1>g, <1>h DEF SetUp

LEMMA ContractStep ==
  ContractInv /\ ContractInv' /\ [Next]_vars =>
      [~mix.overlap /\ ~mix.crash => Contract!CNext]_(Contract!cvars)
  <1> SUFFICES ASSUME ContractInv, ContractInv', [Next]_vars, Serial
               PROVE  Contract!CNext \/ UNCHANGED Contract!cvars
    BY DEF Serial
  <1>1. ASSUME NEW r \in Req, Crash(r) PROVE FALSE
    BY <1>1 DEF Crash, Serial
  <1>2. CASE ExpireChallenge \/ Suspend \/ UNCHANGED vars
    <2>1. UNCHANGED <<mix, made, row, cache, accepted, req>>
      BY <1>2 DEF ExpireChallenge, Suspend, vars
    <2>2. user'.enabled = user.enabled /\ user'.secret = user.secret
      BY <1>2 DEF ExpireChallenge, Suspend, vars, ContractInv, ShownInv, TwoFactorInv,
                  TypeOK, User
    <2>3. NewSets' = NewSets /\ NewCodes' = NewCodes
      BY <2>1 DEF NewSets, NewCodes
    <2>4. Same
      BY <2>1, <2>2, <2>3 DEF Same, enabledNow, shownNow, unusedNow, openedNow, At
    <2>5. givenNow' = givenNow
      BY <2>1 DEF givenNow
    <2> QED
      BY <2>4, <2>5, IsHidden
  \* The copy goes: seen by the contract, unless other codes are on their way.
  <1>3. CASE ExpireCache
    <2>1. UNCHANGED <<mix, user, made, row, accepted, req>> /\ cache' = 0
      BY <1>3 DEF ExpireCache
    <2>2. NewSets' = NewSets /\ NewCodes' = NewCodes
      BY <2>1 DEF NewSets, NewCodes
    <2>3. /\ enabledNow' <=> enabledNow
          /\ unusedNow' = unusedNow /\ openedNow' = openedNow
          /\ givenNow' = givenNow
      BY <2>1, <2>2 DEF enabledNow, unusedNow, openedNow, givenNow, At
    <2>4. shownNow' = shownNow \/ shownNow' = {}
      BY <2>1, <2>2 DEF shownNow, Code
    <2>5. CASE shownNow' = shownNow
      BY <2>1, <2>3, <2>5, IsHidden DEF Same
    <2>6. CASE shownNow' = {}
      BY <2>1, <2>3, <2>6, IsForget
    <2> QED
      BY <2>4, <2>5, <2>6
  <1> QED
    BY <1>1, <1>2, <1>3, ContractReads, ContractWrites DEF Next, BackupCodes, Challenge

LEMMA ContractBegins == Init => Contract!CInit
  <1> SUFFICES ASSUME Init PROVE Contract!CInit
    OBVIOUS
  <1>1. \A r \in Req : req[r].pc = "idle"
    BY BlankType DEF Init
  <1>2. NewSets = {} /\ NewCodes = {}
    BY <1>1 DEF NewSets, NewCodes, Replacing
  <1>3. enabledNow = FALSE /\ shownNow = {} /\ unusedNow = {}
    BY <1>1, <1>2 DEF Init, enabledNow, shownNow, unusedNow, Replacing
  <1>4. openedNow = {} /\ givenNow = {}
    BY <1>1 DEF Init, openedNow, givenNow, Open, At
  <1> QED
    BY <1>3, <1>4 DEF Init, Contract!CInit

\* Of requests that do not overlap and are not cut off, every statement is an
\* operation of the contract, or hidden from it.
THEOREM FactorKeepsTheContract == Spec => KeepsContract
  <1> QED
    BY InitContract, NextContract, ContractStep, ContractBegins, PTL
    DEF Spec, KeepsContract

=============================================================================
