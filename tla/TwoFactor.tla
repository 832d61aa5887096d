----------------------------- MODULE TwoFactor ------------------------------
(***************************************************************************)
(* The second factor of one account: its set-up and confirmation, backup   *)
(* codes in the database and their copy in Redis, the challenge that a     *)
(* sign-in gets, and its verification by authenticator or by backup code.  *)
(*                                                                         *)
(* Secrets and sets of backup codes are numbered in the order in which     *)
(* they are generated.  A code of the authenticator stands for the secret  *)
(* it was made with; 0 is a code of no secret, and one more than a time    *)
(* step of 30 seconds off.  A request stops at every statement.            *)
(***************************************************************************)
EXTENDS Naturals

CONSTANTS
    Slot,      \* the codes of one set
    MaxSecret, \* bound: secrets generated
    MaxSet,    \* bound: sets of backup codes generated
    Req,       \* requests that can be in flight at the same time
    Mix        \* the ways in which requests come

Operation == {"enable", "confirm", "disable", "regenerate", "show", "login",
              "verify", "suspend"}

ASSUME TwoFactorAssumption ==
    /\ MaxSecret \in Nat /\ MaxSet \in Nat
    /\ Mix \subseteq [ops : SUBSET Operation,   \* the operations that are called,
                      overlap : BOOLEAN,        \* at the same time,
                      crash : BOOLEAN]          \* and may be cut off

VARIABLES
    mix,       \* how requests come in this behaviour
    user,      \* User row
    made,      \* the secrets and the sets generated so far
    row,       \* TwoFactorBackupCode rows
    cache,     \* the set of codes that Redis holds, for a time; 0 for none
    challenge, \* a challenge token has been given that has not expired
    accepted,  \* history: how often a backup code led to a session
    req        \* the requests

vars == <<mix, user, made, row, cache, challenge, accepted, req>>

SecretId == 0..MaxSecret
SetId == 0..MaxSet
Code == [set : 1..MaxSet, slot : Slot]

User == [active : BOOLEAN, enabled : BOOLEAN, secret : SecretId]

Label == {"idle", "user", "secret", "delete", "create", "cache", "on", "off",
          "clear", "show", "challenge", "find", "mark", "session"}

NoCode == [set |-> 0]

Request == [pc : Label, op : Operation,
            otp : SecretId,           \* the code of the authenticator, or
            code : Code \cup {NoCode},\* the backup code given
            right : BOOLEAN,          \* the password given is the account's
            set : SetId]              \* the codes generated

Blank == [pc |-> "idle", op |-> "show", otp |-> 0, code |-> NoCode,
          right |-> FALSE, set |-> 0]

Stored(c) == row[c] # "none"

Init ==
    /\ mix \in Mix
    /\ user = [active |-> TRUE, enabled |-> FALSE, secret |-> 0]
    /\ made = [secrets |-> 0, sets |-> 0]
    /\ row = [c \in Code |-> "none"]
    /\ cache = 0
    /\ challenge = FALSE
    /\ accepted = [c \in Code |-> 0]
    /\ req = [r \in Req |-> Blank]

-----------------------------------------------------------------------------
(* Steps of a handler                                                      *)

data == <<user, made, row, cache, challenge, accepted>>

At(r, label) == req[r].pc = label

Goto(r, label) == req' = [req EXCEPT ![r].pc = label]

End(r) == req' = [req EXCEPT ![r] = Blank]

Quiet == \A r \in Req : At(r, "idle")

\* A read and the checks on what it returned, which throw when they fail.
Read(r, label, ok, next) ==
    /\ At(r, label)
    /\ IF ok THEN Goto(r, next) ELSE End(r)
    /\ UNCHANGED <<mix, data>>

Arrive(r) ==
    /\ At(r, "idle")
    /\ mix.overlap \/ Quiet
    /\ \E op \in mix.ops \ {"suspend"}, otp \in 0..made.secrets, right \in BOOLEAN,
           c \in {x \in Code : x.set <= made.sets} \cup {NoCode} :
         /\ op = "verify" => challenge
         /\ op \notin {"confirm", "verify"} => otp = 0
         /\ op # "verify" => c = NoCode
         /\ op \notin {"disable", "regenerate", "login"} => ~right
         /\ req' = [req EXCEPT ![r] = [Blank EXCEPT !.pc = "user", !.op = op,
                                           !.otp = otp, !.code = c, !.right = right]]
    /\ UNCHANGED <<mix, data>>

\* A mutant of Matches: an account that has no secret takes the code of none.
\* (KeepsContract)
MatchesNoSecret(otp) == otp = user.secret

\* getActiveUserOrThrow, findUserByEmail for login, and the checks that follow.
\* A code of the authenticator goes before a backup code.
Matches(otp) == user.secret # 0 /\ otp = user.secret

\* A mutant of SetUpAllowed: does not ask whether the factor is on already.
\* (SecondFactorStays)
SetUpAlways == TRUE

SetUpAllowed == ~user.enabled

Allows(q) ==
    /\ user.active
    /\ CASE q.op = "enable"  -> SetUpAllowed
         [] q.op = "confirm" -> Matches(q.otp)
         [] q.op \in {"disable", "regenerate"} -> user.enabled /\ q.right
         [] q.op = "show"    -> user.enabled
         [] q.op = "login"   -> q.right
         [] q.op = "verify"  -> /\ user.enabled /\ user.secret # 0
                                /\ q.code = NoCode => Matches(q.otp)

FindUser(r) ==
    LET q == req[r]
    IN  Read(r, "user", Allows(q),
             CASE q.op = "enable"  -> "secret"
               [] q.op \in {"confirm", "regenerate"} -> "delete"
               [] q.op = "disable" -> "off"
               [] q.op = "show"    -> "show"
               [] q.op = "login"   -> IF user.enabled THEN "challenge" ELSE "session"
               [] q.op = "verify"  -> IF q.code = NoCode THEN "session" ELSE "find")

-----------------------------------------------------------------------------
(* Mutants: operators below with a bug a change of the code could bring in. *)
(* No action uses them; each must break the property named with it.         *)

\* Goes on after a code that has been used.  (BackupCodesOpenOnce)
FindAnyCode(r) ==
    Read(r, "find", Stored(req[r].code), "mark")

\* Leaves the codes that are there.  (Inv)
DeleteOnlyWhenDisabling(r) ==
    /\ At(r, "delete")
    /\ row' = IF req[r].op = "disable" THEN [c \in Code |-> "none"] ELSE row
    /\ IF req[r].op = "disable" THEN Goto(r, "clear") /\ UNCHANGED made
       ELSE /\ made.sets < MaxSet
            /\ made' = [made EXCEPT !.sets = @ + 1]
            /\ req' = [req EXCEPT ![r].pc = "create", ![r].set = made.sets + 1]
    /\ UNCHANGED <<mix, user, cache, challenge, accepted>>

\* Keeps the secret's place for a next set-up.  (Inv)
TurnOffSecretOnly(r) ==
    /\ At(r, "off")
    /\ user' = [user EXCEPT !.secret = 0]
    /\ Goto(r, "delete")
    /\ UNCHANGED <<mix, made, row, cache, challenge, accepted>>

\* Leaves the copy to Redis, which forgets it in time.  (Inv)
ClearNothing(r) ==
    /\ At(r, "clear")
    /\ End(r)
    /\ UNCHANGED <<mix, data>>

-----------------------------------------------------------------------------
(* enable and confirm                                                      *)

\* A new secret, and the factor off until it is confirmed.
WriteSecret(r) ==
    /\ At(r, "secret")
    /\ made.secrets < MaxSecret
    /\ made' = [made EXCEPT !.secrets = @ + 1]
    /\ user' = [user EXCEPT !.secret = made.secrets + 1, !.enabled = FALSE]
    /\ End(r)
    /\ UNCHANGED <<mix, row, cache, challenge, accepted>>

\* confirm switches the factor on; it does not write the secret it checked.
TurnOn(r) ==
    /\ At(r, "on")
    /\ user' = [user EXCEPT !.enabled = TRUE]
    /\ End(r)
    /\ UNCHANGED <<mix, made, row, cache, challenge, accepted>>

(* replaceBackupCodes, for confirm and regenerateBackupCodes; disable deletes *)
(* the codes by the same statement.                                           *)

DeleteCodes(r) ==
    /\ At(r, "delete")
    /\ row' = [c \in Code |-> "none"]
    /\ IF req[r].op = "disable" THEN Goto(r, "clear") /\ UNCHANGED made
       ELSE /\ made.sets < MaxSet
            /\ made' = [made EXCEPT !.sets = @ + 1]
            /\ req' = [req EXCEPT ![r].pc = "create", ![r].set = made.sets + 1]
    /\ UNCHANGED <<mix, user, cache, challenge, accepted>>

CreateCodes(r) ==
    /\ At(r, "create")
    /\ row' = [c \in Code |-> IF c.set = req[r].set THEN "unused" ELSE row[c]]
    /\ Goto(r, "cache")
    /\ UNCHANGED <<mix, user, made, cache, challenge, accepted>>

CacheCodes(r) ==
    /\ At(r, "cache")
    /\ cache' = req[r].set
    /\ IF req[r].op = "confirm" THEN Goto(r, "on") ELSE End(r)
    /\ UNCHANGED <<mix, user, made, row, challenge, accepted>>

(* disable: the switch and the secret, the codes, the copy in Redis.       *)

TurnOff(r) ==
    /\ At(r, "off")
    /\ user' = [user EXCEPT !.enabled = FALSE, !.secret = 0]
    /\ Goto(r, "delete")
    /\ UNCHANGED <<mix, made, row, cache, challenge, accepted>>

ClearCache(r) ==
    /\ At(r, "clear")
    /\ cache' = 0
    /\ End(r)
    /\ UNCHANGED <<mix, user, made, row, challenge, accepted>>

\* getBackupCodes answers with the copy in Redis, or refuses.
Show(r) ==
    /\ At(r, "show")
    /\ End(r)
    /\ UNCHANGED <<mix, data>>

(* login and verify                                                        *)

GiveChallenge(r) ==
    /\ At(r, "challenge")
    /\ challenge' = TRUE
    /\ End(r)
    /\ UNCHANGED <<mix, user, made, row, cache, accepted>>

FindCode(r) == Read(r, "find", row[req[r].code] = "unused", "mark")

\* Prisma's update by id throws when the row is gone.
MarkCode(r) ==
    LET c == req[r].code
    IN  /\ At(r, "mark")
        /\ row' = IF Stored(c) THEN [row EXCEPT ![c] = "used"] ELSE row
        /\ IF Stored(c) THEN Goto(r, "session") ELSE End(r)
        /\ UNCHANGED <<mix, user, made, cache, challenge, accepted>>

\* issueSessionResponse.  Twice or more often is not told apart.
SignIn(r) ==
    LET c == req[r].code
    IN  /\ At(r, "session")
        /\ accepted' = IF c = NoCode THEN accepted
                       ELSE [accepted EXCEPT ![c] = IF @ = 0 THEN 1 ELSE 2]
        /\ End(r)
        /\ UNCHANGED <<mix, user, made, row, cache, challenge>>

-----------------------------------------------------------------------------

Crash(r) ==
    /\ mix.crash
    /\ ~At(r, "idle")
    /\ End(r)
    /\ UNCHANGED <<mix, data>>

\* Whatever Redis is given, it keeps for fifteen minutes where nobody says how
\* long, and cacheBackupCodes does not say.
ExpireCache ==
    /\ cache # 0
    /\ cache' = 0
    /\ UNCHANGED <<mix, user, made, row, challenge, accepted, req>>

\* The challenge lives for ten minutes; an administrator suspends the account.
ExpireChallenge ==
    /\ challenge
    /\ challenge' = FALSE
    /\ UNCHANGED <<mix, user, made, row, cache, accepted, req>>

Suspend ==
    /\ "suspend" \in mix.ops
    /\ user' = [user EXCEPT !.active = ~@]
    /\ UNCHANGED <<mix, made, row, cache, challenge, accepted, req>>

SetUp(r) == WriteSecret(r) \/ TurnOn(r) \/ TurnOff(r)

BackupCodes(r) ==
    DeleteCodes(r) \/ CreateCodes(r) \/ CacheCodes(r) \/ ClearCache(r) \/ Show(r)

Challenge(r) == GiveChallenge(r) \/ FindCode(r) \/ MarkCode(r) \/ SignIn(r)

Next ==
    \/ ExpireCache \/ ExpireChallenge \/ Suspend
    \/ \E r \in Req : \/ Arrive(r) \/ FindUser(r) \/ SetUp(r) \/ BackupCodes(r)
                      \/ Challenge(r) \/ Crash(r)

Spec == Init /\ [][Next]_vars

-----------------------------------------------------------------------------

TypeOK ==
    /\ mix \in Mix
    /\ user \in User
    /\ made \in [secrets : SecretId, sets : SetId]
    /\ row \in [Code -> {"none", "unused", "used"}]
    /\ cache \in SetId
    /\ challenge \in BOOLEAN
    /\ accepted \in [Code -> 0..2]
    /\ req \in [Req -> Request]

\* Of requests that do not overlap, also of such that are cut off, the account
\* never asks for a factor whose secret is gone, and the codes that are stored
\* come from one set.
SecretOfEnabled ==
    ~mix.overlap =>
        /\ user.enabled => user.secret # 0
        /\ \A c, d \in Code : Stored(c) /\ Stored(d) => c.set = d.set

\* A backup code that led to a session is not found again, whatever overlaps or
\* is cut off; and of requests that do not overlap it leads to one session only.
BackupCodesOpenOnce ==
    \A c \in Code :
        /\ accepted[c] > 0 => row[c] # "unused"
        /\ ~mix.overlap => accepted[c] <= 1

\* The codes that are stored, used ones among them, are those of one set.
StoredAre(n) == \A c \in Code : Stored(c) <=> c.set = n

\* Between requests that complete, an account with a second factor has one whole
\* set of codes and one without it has none; and as long as Redis still shows
\* codes they are those of that set, not of one that has been replaced.
CodesAreThoseShown ==
    ~mix.overlap /\ ~mix.crash /\ Quiet =>
        /\ IF user.enabled THEN \E n \in 1..MaxSet : StoredAre(n)
           ELSE \A c \in Code : ~Stored(c)
        /\ cache # 0 => user.enabled /\ StoredAre(cache)

Inv == TypeOK /\ SecretOfEnabled /\ CodesAreThoseShown

\* "Disable 2FA using the current password": of requests that do not overlap,
\* only a disable that gave the password takes the secret of an account whose
\* second factor is on, or switches it off.
SecondFactorStays ==
    [][~mix.overlap /\ user.enabled =>
         \/ user'.enabled /\ user'.secret = user.secret
         \/ \E r \in Req : At(r, "off") /\ req[r].right]_vars

-----------------------------------------------------------------------------
(* The contract.  A request that replaces the codes has done so, for the    *)
(* contract, when it deletes the old ones, and a disable when it writes the *)
(* account: what is left of it are the statements that carry it out.        *)

Settled == {"create", "cache", "on", "clear"}

Open(q) ==
    /\ q.pc \notin {"idle"} \cup Settled
    /\ ~(q.pc = "delete" /\ q.op = "disable")
    /\ ~(q.pc = "session" /\ q.code # NoCode)

Replacing(q) == q.pc \in {"create", "cache", "on"}

NewSets == {req[r].set : r \in {r \in Req : Replacing(req[r])}}

NewCodes == {c \in Code : c.set \in NewSets}

enabledNow ==
    user.enabled \/ \E r \in Req : Replacing(req[r]) /\ req[r].op = "confirm"

shownNow ==
    IF NewSets # {} THEN NewCodes ELSE {c \in Code : user.enabled /\ c.set = cache}

unusedNow == NewCodes \cup {c \in Code : user.enabled /\ row[c] = "unused"}

openedNow ==
    {c \in Code : accepted[c] > 0 \/ \E r \in Req : At(r, "session") /\ req[r].code = c}

Credential(q) == [right |-> q.right, otp |-> q.otp, code |-> q.code]

givenNow == {Credential(req[r]) : r \in {r \in Req : Open(req[r])}}

Contract == INSTANCE FactorContract WITH
    Sets <- {{c \in Code : c.set = n} : n \in 1..MaxSet},
    Secrets <- 1..MaxSecret,
    NoSecret <- 0,
    Credentials <- [right : BOOLEAN, otp : SecretId, code : Code \cup {NoCode}],
    enabled <- enabledNow,
    secret <- user.secret,
    shown <- shownNow,
    unused <- unusedNow,
    opened <- openedNow,
    given <- givenNow

\* Requests that do not overlap and complete do what the contract says: the
\* factor is confirmed with a code of the secret that is stored, it goes and its
\* codes are replaced with the password only, a backup code opens one session, and
\* the codes that are shown are the last ones generated, until Redis forgets them.
KeepsContract ==
    /\ Contract!CInit
    /\ [][~mix.overlap /\ ~mix.crash => Contract!CNext]_(Contract!cvars)

=============================================================================
