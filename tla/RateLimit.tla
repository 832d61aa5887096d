------------------------------ MODULE RateLimit ------------------------------
(***************************************************************************)
(* AuthRateLimitGuard: a request to a limited route counts itself in one,  *)
(* two or three counters of Redis, one after the other, and is let through *)
(* unless one of them is over its limit.                                   *)
(*                                                                         *)
(* A counter is created by its first INCR and lives for the window that    *)
(* the EXPIRE after it sets; between the two commands of one request other *)
(* requests run, and the process may stop.  Time passes in half seconds,   *)
(* the grain at which Redis rounds the answer to TTL.                      *)
(***************************************************************************)
EXTENDS Integers, Sequences

CONSTANTS
    Req,       \* requests that can be in flight at the same time
    Policy,    \* values of @AuthRateLimit
    Ip,        \* client addresses
    Value,     \* e-mail addresses, identifiers and tokens in requests
    NoValue,   \* the counters of an address alone
    Limit,     \* authConfig: the requests of a window, by policy and dimension
    Window,    \* authConfig: the length of a window in seconds, by policy
    MaxCount,  \* bound: larger counts are not told apart
    Mix        \* the ways in which requests come

Dimension == {"ip", "value"}

\* The policies that limit an address, and those that limit a value sent from it.
IpPolicy == {"public", "register", "login", "googleOauth", "githubOauth",
             "twoFactorVerify"}
ValuePolicy == {"register", "login", "refresh", "forgotPassword",
                "resendVerification", "twoFactorVerify"}

ASSUME RateLimitAssumption ==
    /\ NoValue \notin Value
    /\ Policy \subseteq (IpPolicy \cup ValuePolicy) \ {"public"}
    /\ Window \in [Policy \cup {"public"} -> Nat \ {0}]
    /\ Limit \in [Policy \cup {"public"} -> [Dimension -> Nat \ {0}]]
    /\ MaxCount \in Nat
    /\ \A p \in Policy \cup {"public"}, d \in Dimension : Limit[p][d] < MaxCount
    /\ Mix \subseteq [policies : SUBSET Policy,  \* of the routes that are called,
                      overlap : BOOLEAN,         \* at the same time,
                      crash : BOOLEAN]           \* and may be cut off

VARIABLES
    mix,      \* how requests come in this behaviour
    counter,  \* the counters in Redis
    req,      \* the requests
    admitted  \* history: requests let through, of those the window counted

vars == <<mix, counter, req, admitted>>

Key == [policy : Policy \cup {"public"}, ip : Ip, value : Value \cup {NoValue}]

LimitOf(k) == Limit[k.policy][IF k.value = NoValue THEN "ip" ELSE "value"]

\* A counter without an expiry; and one that does not exist.
Forever == -1
Absent == [count |-> 0, left |-> 0]

\* "left" is the number of whole half seconds until the counter expires.
Counter == [count : 0..MaxCount, left : Int]

Exists(k) == counter[k].count > 0

Immortal(k) == Exists(k) /\ counter[k].left = Forever

\* "over" and "counted" are history: no step of a handler depends on them.  It
\* is not kept for requests that overlap, of which its properties say nothing.
Request == [pc : {"idle", "incr", "expire", "ttl", "decide"},
            todo : Seq(Key),      \* the buckets that are not counted yet
            retry : Nat,          \* retryAfterSeconds
            over : SUBSET Key,    \* buckets found over their limit
            counted : SUBSET Key, \* buckets whose window counted it
            count : 0..MaxCount]  \* what INCR returned last

Idle == [pc |-> "idle", todo |-> <<>>, retry |-> 0, over |-> {}, counted |-> {},
         count |-> 0]

Init ==
    /\ mix \in Mix
    /\ counter = [k \in Key |-> Absent]
    /\ req = [r \in Req |-> Idle]
    /\ admitted = [k \in Key |-> 0]

-----------------------------------------------------------------------------

\* buildBuckets, in the order in which they are counted.
IpBucket(p, ip) == [policy |-> p, ip |-> ip, value |-> NoValue]

Buckets(p, ip, v) ==
    <<IpBucket("public", ip)>>
      \o (IF p \in IpPolicy THEN <<IpBucket(p, ip)>> ELSE <<>>)
      \o (IF p \in ValuePolicy THEN <<[policy |-> p, ip |-> ip, value |-> v]>>
                               ELSE <<>>)

At(r, label) == req[r].pc = label

Bucket(r) == Head(req[r].todo)

\* Counts above the bound are not told apart.
Bounded(n) == IF n > MaxCount THEN MaxCount ELSE n

\* Redis rounds the time that is left to the nearest second; -1 for a counter
\* without an expiry and -2 for none.
Ttl(k) ==
    CASE ~Exists(k) -> -2
      [] Immortal(k) -> -1
      [] OTHER -> (counter[k].left + 1) \div 2

Kept(keys) == IF mix.overlap THEN {} ELSE keys

\* Mutant: the wait of the last bucket over its limit.  (RetryAfterSuffices)
LatestWait(q, ttl) ==
    IF q.count > LimitOf(Head(q.todo)) THEN ttl ELSE q.retry

\* retryAfterSeconds: the longest wait so far.
Wait(q, ttl) ==
    IF q.count > LimitOf(Head(q.todo)) /\ ttl > q.retry THEN ttl ELSE q.retry

\* assertAllowed goes on when increment has returned.
Counted(r, ttl) ==
    LET q == req[r]
        exceeded == q.count > LimitOf(Bucket(r))
    IN  req' = [req EXCEPT ![r] =
                  [q EXCEPT !.pc = IF Len(q.todo) = 1 THEN "decide" ELSE "incr",
                            !.todo = Tail(q.todo),
                            !.retry = Wait(q, ttl),
                            !.over = IF exceeded THEN Kept(q.over \cup {Bucket(r)})
                                                 ELSE q.over]]

-----------------------------------------------------------------------------
(* Mutants of the steps below; each must break the property named with it. *)

\* Leaves the expiry of a new counter to the next request.  (Inv)
IncrOnly(r) ==
    LET k == Bucket(r)
        n == Bounded(counter[k].count + 1)
    IN  /\ At(r, "incr")
        /\ counter' = [counter EXCEPT ![k] =
                         [count |-> n, left |-> IF Exists(k) THEN @.left ELSE Forever]]
        /\ req' = [req EXCEPT ![r].count = n,
                              ![r].counted = Kept(req[r].counted \cup {k}),
                              ![r].pc = IF n > 1 THEN "ttl"
                                        ELSE IF Len(req[r].todo) = 1 THEN "decide"
                                        ELSE "incr",
                              ![r].todo = IF n > 1 THEN req[r].todo
                                                   ELSE Tail(req[r].todo)]
        /\ UNCHANGED <<mix, admitted>>

\* Does not repair a counter without an expiry.  (OverLimitOnlyAtEnd)
FindTtlOnly(r) ==
    /\ At(r, "ttl")
    /\ Counted(r, Ttl(Bucket(r)))
    /\ UNCHANGED <<mix, counter, admitted>>

\* Sets the expiry anew at every request.  (WindowsEnd)
FindTtlAndRenew(r) ==
    /\ At(r, "ttl")
    /\ req' = [req EXCEPT ![r].pc = "expire"]
    /\ UNCHANGED <<mix, counter, admitted>>

-----------------------------------------------------------------------------
(* AuthRateLimitGuard.canActivate and assertAllowed                        *)

Arrive(r) ==
    /\ At(r, "idle")
    /\ mix.overlap \/ \A s \in Req : At(s, "idle")
    /\ \E p \in mix.policies, ip \in Ip, v \in Value :
         req' = [req EXCEPT ![r] = [Idle EXCEPT !.pc = "incr",
                                                !.todo = Buckets(p, ip, v)]]
    /\ UNCHANGED <<mix, counter, admitted>>

\* INCR creates the counter that does not exist, without an expiry.
Incr(r) ==
    LET k == Bucket(r)
        n == Bounded(counter[k].count + 1)
    IN  /\ At(r, "incr")
        /\ counter' = [counter EXCEPT ![k] =
                         [count |-> n, left |-> IF Exists(k) THEN @.left ELSE Forever]]
        /\ req' = [req EXCEPT ![r].pc = IF n = 1 THEN "expire" ELSE "ttl",
                              ![r].count = n,
                              ![r].counted = Kept(req[r].counted \cup {k})]
        /\ UNCHANGED <<mix, admitted>>

\* TTL, and whether it asks for another EXPIRE.
FindTtl(r) ==
    /\ At(r, "ttl")
    /\ IF Ttl(Bucket(r)) < 0 THEN req' = [req EXCEPT ![r].pc = "expire"]
                             ELSE Counted(r, Ttl(Bucket(r)))
    /\ UNCHANGED <<mix, counter, admitted>>

\* EXPIRE does nothing to a counter that is gone.
Expire(r) ==
    LET k == Bucket(r)
        seconds == Window[k.policy]
    IN  /\ At(r, "expire")
        /\ counter' = IF Exists(k)
                      THEN [counter EXCEPT ![k] = [@ EXCEPT !.left = 2 * seconds]]
                      ELSE counter
        /\ Counted(r, seconds)
        /\ UNCHANGED <<mix, admitted>>

\* The request is let through, or refused with 429.
Admit(r) ==
    /\ At(r, "decide")
    /\ req[r].retry = 0
    /\ admitted' = [k \in Key |-> IF k \in req[r].counted THEN Bounded(admitted[k] + 1)
                                                          ELSE admitted[k]]
    /\ req' = [req EXCEPT ![r] = Idle]
    /\ UNCHANGED <<mix, counter>>

Refuse(r) ==
    /\ At(r, "decide")
    /\ req[r].retry > 0
    /\ req' = [req EXCEPT ![r] = Idle]
    /\ UNCHANGED <<mix, counter, admitted>>

\* The process stops, or Redis does not answer.
Crash(r) ==
    /\ mix.crash
    /\ ~At(r, "idle")
    /\ req' = [req EXCEPT ![r] = Idle]
    /\ UNCHANGED <<mix, counter, admitted>>

\* Half a second passes: Redis drops the counters whose time is over.
Ended(k) == Exists(k) /\ counter[k].left = 0

Tick ==
    /\ counter' = [k \in Key |->
                     IF Ended(k) THEN Absent
                     ELSE IF counter[k].left > 0
                     THEN [count |-> counter[k].count, left |-> counter[k].left - 1]
                     ELSE counter[k]]
    /\ admitted' = [k \in Key |-> IF Ended(k) THEN 0 ELSE admitted[k]]
    /\ req' = [r \in Req |->
                 [req[r] EXCEPT !.counted = {k \in req[r].counted : ~Ended(k)}]]
    /\ UNCHANGED mix

Step(r) == Incr(r) \/ FindTtl(r) \/ Expire(r) \/ Admit(r) \/ Refuse(r)

Next == Tick \/ \E r \in Req : Arrive(r) \/ Step(r) \/ Crash(r)

Spec == Init /\ [][Next]_vars

\* Time passes, and a request whose answer is there goes on.
FairSpec == Spec /\ WF_vars(Tick) /\ \A r \in Req : WF_vars(Step(r))

-----------------------------------------------------------------------------

TypeOK ==
    /\ mix \in Mix
    /\ counter \in [Key -> Counter]
    /\ req \in [Req -> Request]
    /\ admitted \in [Key -> 0..MaxCount]

\* Unless the process stops between the two commands, a counter without an
\* expiry is one that some request is just about to give its expiry: no
\* interleaving of requests leaves a key that blocks an address for ever.
CountersExpire ==
    ~mix.crash =>
        \A k \in Key : Immortal(k) =>
            \E r \in Req : At(r, "expire") /\ Bucket(r) = k

\* A request under way has a bucket left to count.
BusyRequests ==
    \A r \in Req : req[r].pc \in {"incr", "expire", "ttl"} => req[r].todo # <<>>

Inv == TypeOK /\ BusyRequests /\ CountersExpire

\* With requests that do not overlap, at most Limit of the requests that a
\* window counted are let through before its last half second, in which Redis
\* rounds the time that is left to nothing.  A process that stopped between
\* INCR and EXPIRE does not change that.
OverLimitOnlyAtEnd ==
    ~mix.overlap =>
        \A k \in Key : admitted[k] > LimitOf(k) => Ended(k)

\* A refused client that waits for retryAfterSeconds finds that no window that
\* refused it has more than its last half second to go: the wait covers all
\* buckets, also one whose expiry an earlier crash had prevented.
RetryAfterSuffices ==
    [][~mix.overlap =>
         \A r \in Req, k \in Key :
            Refuse(r) /\ k \in req[r].over \cap req[r].counted
              => counter[k].left \in 0..2 * req[r].retry]_vars

\* Every window ends, whatever the number of requests refused meanwhile.
WindowsEnd ==
    \A k \in Key : (Exists(k) /\ ~mix.crash) ~> ~Exists(k)

=============================================================================
