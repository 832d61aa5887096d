-------------------------- MODULE RateLimitProofs ---------------------------
(***************************************************************************)
(* Theorems about RateLimit that hold for all limits and windows, for any  *)
(* set of addresses, policies and values and for any number of requests.   *)
(***************************************************************************)
EXTENDS RateLimit, SequenceTheorems, TLAPS

USE RateLimitAssumption

AllPolicies == Policy \cup {"public"}

LEMMA LimitFacts ==
  ASSUME NEW k \in Key
  PROVE  /\ LimitOf(k) \in Nat \ {0} /\ LimitOf(k) < MaxCount
         /\ Window[k.policy] \in Nat \ {0}
  <1>1. k.policy \in AllPolicies
    BY DEF Key, AllPolicies
  <1>2. Limit[k.policy] \in [Dimension -> Nat \ {0}]
    BY <1>1 DEF AllPolicies
  <1> QED
    BY <1>1, <1>2 DEF LimitOf, AllPolicies, Dimension

LEMMA EnoughRoom == MaxCount \in Nat /\ MaxCount >= 2
  <1>1. "public" \in AllPolicies /\ "ip" \in Dimension
    BY DEF AllPolicies, Dimension
  <1>2. Limit["public"]["ip"] \in Nat \ {0} /\ Limit["public"]["ip"] < MaxCount
    BY <1>1 DEF AllPolicies
  <1> QED
    BY <1>2

LEMMA BoundedType ==
  ASSUME NEW n \in Nat
  PROVE  /\ Bounded(n) \in 0..MaxCount
         /\ n <= MaxCount => Bounded(n) = n
         /\ n > MaxCount => Bounded(n) = MaxCount
  BY DEF Bounded

-----------------------------------------------------------------------------
(* The buckets of a request                                                *)

Distinct(s) == \A i, j \in 1..Len(s) : i # j => s[i] # s[j]

Elements(s) == {s[i] : i \in 1..Len(s)}

LEMMA TailFacts ==
  ASSUME NEW s \in Seq(Key), s # <<>>, Distinct(s)
  PROVE  /\ Head(s) \in Key /\ Head(s) \in Elements(s)
         /\ Tail(s) \in Seq(Key) /\ Distinct(Tail(s))
         /\ Elements(Tail(s)) = Elements(s) \ {Head(s)}
         /\ Len(s) # 1 => Tail(s) # <<>>
  <1>1. /\ Len(s) \in Nat /\ Len(s) > 0 /\ Head(s) = s[1]
        /\ Tail(s) \in Seq(Key) /\ Len(Tail(s)) = Len(s) - 1
        /\ \A i \in 1..Len(s) - 1 : Tail(s)[i] = s[i + 1]
        /\ \A i \in 1..Len(s) : s[i] \in Key
    OBVIOUS
  <1>2. Distinct(Tail(s))
    BY <1>1 DEF Distinct
  <1>3. Elements(Tail(s)) \subseteq Elements(s) \ {Head(s)}
    BY <1>1 DEF Distinct, Elements
  <1>4. ASSUME NEW i \in 1..Len(s), s[i] # Head(s)
        PROVE  s[i] \in Elements(Tail(s))
    <2>1. i - 1 \in 1..Len(Tail(s)) /\ Tail(s)[i - 1] = s[i]
      BY <1>1, <1>4
    <2> QED
      BY <2>1 DEF Elements
  <1>5. Elements(s) \ {Head(s)} \subseteq Elements(Tail(s))
    BY <1>4 DEF Elements
  <1>6. Head(s) \in Elements(s) /\ Head(s) \in Key
    BY <1>1 DEF Elements
  <1>7. Len(s) # 1 => Tail(s) # <<>>
    <2>1. Tail(s) = <<>> => Len(Tail(s)) = 0
      BY EmptySeq
    <2> QED
      BY <1>1, <2>1
  <1> QED
    BY <1>1, <1>2, <1>3, <1>5, <1>6, <1>7

LEMMA ShortConcat ==
  ASSUME NEW a \in Key, NEW b \in Key, NEW c \in Key
  PROVE  <<a>> \o <<b>> = <<a, b>> /\ <<a, b>> \o <<c>> = <<a, b, c>>
  <1>1. /\ <<a>> \in Seq(Key) /\ <<b>> \in Seq(Key) /\ <<c>> \in Seq(Key)
        /\ <<a, b>> \in Seq(Key) /\ <<a, b, c>> \in Seq(Key)
    OBVIOUS
  <1>2. <<a>> \o <<b>> = <<a, b>>
    <2>1. /\ <<a>> \o <<b>> \in Seq(Key) /\ Len(<<a>> \o <<b>>) = 2
          /\ (<<a>> \o <<b>>)[1] = a /\ (<<a>> \o <<b>>)[2] = b
      BY <1>1, ConcatProperties
    <2>2. Len(<<a, b>>) = 2 /\ \A i \in 1..2 : (<<a>> \o <<b>>)[i] = <<a, b>>[i]
      BY <2>1
    <2>3. \A s, t \in Seq(Key) :
            Len(s) = 2 /\ Len(t) = 2 /\ (\A i \in 1..2 : s[i] = t[i]) => s = t
      BY SeqEqual
    <2> QED
      BY <1>1, <2>1, <2>2, <2>3
  <1>3. <<a, b>> \o <<c>> = <<a, b, c>>
    <2>1. /\ <<a, b>> \o <<c>> \in Seq(Key) /\ Len(<<a, b>> \o <<c>>) = 3
          /\ (<<a, b>> \o <<c>>)[1] = a /\ (<<a, b>> \o <<c>>)[2] = b
          /\ (<<a, b>> \o <<c>>)[3] = c
      BY <1>1, ConcatProperties
    <2>2. Len(<<a, b, c>>) = 3
          /\ \A i \in 1..3 : (<<a, b>> \o <<c>>)[i] = <<a, b, c>>[i]
      BY <2>1
    <2>3. \A s, t \in Seq(Key) :
            Len(s) = 3 /\ Len(t) = 3 /\ (\A i \in 1..3 : s[i] = t[i]) => s = t
      BY SeqEqual
    <2> QED
      BY <1>1, <2>1, <2>2, <2>3
  <1> QED
    BY <1>2, <1>3

\* A request counts itself in one to three counters, each of them once.
LEMMA BucketsFacts ==
  ASSUME NEW p \in Policy, NEW ip \in Ip, NEW v \in Value
  PROVE  /\ Buckets(p, ip, v) \in Seq(Key) /\ Buckets(p, ip, v) # <<>>
         /\ Distinct(Buckets(p, ip, v))
  <1> DEFINE a == IpBucket("public", ip)
             b == IpBucket(p, ip)
             c == [policy |-> p, ip |-> ip, value |-> v]
  <1>1. a \in Key /\ b \in Key /\ c \in Key
    BY DEF Key, IpBucket
  <1>2. a # b /\ a # c /\ b # c
    BY DEF IpBucket
  <1> HIDE DEF a, b, c
  <1>3. Buckets(p, ip, v) \in {<<a>>, <<a, b>>, <<a, c>>, <<a, b, c>>}
    <2>1. Buckets(p, ip, v) = <<a>> \o (IF p \in IpPolicy THEN <<b>> ELSE <<>>)
                                    \o (IF p \in ValuePolicy THEN <<c>> ELSE <<>>)
      BY DEF Buckets, a, b, c
    <2>2. CASE p \in IpPolicy /\ p \in ValuePolicy
      <3>1. <<a>> \o <<b>> \o <<c>> = <<a, b, c>>
        BY <1>1, ShortConcat
      <3> QED
        BY <2>1, <2>2, <3>1
    <2>3. CASE p \in IpPolicy /\ p \notin ValuePolicy
      <3>1. <<a>> \o <<b>> \o <<>> = <<a, b>>
        <4>1. <<a, b>> \in Seq(Key)
          BY <1>1
        <4> QED
          BY <1>1, <4>1, ShortConcat, ConcatEmptySeq
      <3> QED
        BY <2>1, <2>3, <3>1
    <2>4. CASE p \notin IpPolicy /\ p \in ValuePolicy
      <3>1. <<a>> \o <<>> \o <<c>> = <<a, c>>
        <4>1. <<a>> \in Seq(Key)
          BY <1>1
        <4> QED
          BY <1>1, <4>1, ShortConcat, ConcatEmptySeq
      <3> QED
        BY <2>1, <2>4, <3>1
    <2>5. CASE p \notin IpPolicy /\ p \notin ValuePolicy
      <3>1. <<a>> \o <<>> \o <<>> = <<a>>
        OBVIOUS
      <3> QED
        BY <2>1, <2>5, <3>1
    <2> QED
      BY <2>2, <2>3, <2>4, <2>5
  <1>4. ASSUME NEW s, s = <<a>> \/ s = <<a, b>> \/ s = <<a, c>> \/ s = <<a, b, c>>
        PROVE  s \in Seq(Key) /\ s # <<>> /\ Distinct(s)
    <2>1. CASE s = <<a>>
      BY <1>1, <2>1 DEF Distinct
    <2>2. CASE s = <<a, b>>
      BY <1>1, <1>2, <2>2 DEF Distinct
    <2>3. CASE s = <<a, c>>
      BY <1>1, <1>2, <2>3 DEF Distinct
    <2>4. CASE s = <<a, b, c>>
      BY <1>1, <1>2, <2>4 DEF Distinct
    <2> QED
      BY <1>4, <2>1, <2>2, <2>3, <2>4
  <1> QED
    BY <1>3, <1>4

-----------------------------------------------------------------------------
(* The inductive invariant                                                 *)

Todo == \A r \in Req : Distinct(req[r].todo)

Lifetimes == \A k \in Key : counter[k].left >= Forever

\* No counter has let through more than it has counted, nor more than its limit
\* unless its window is about to end.
Admissions ==
    \A k \in Key :
        /\ admitted[k] <= counter[k].count
        /\ admitted[k] > LimitOf(k) => Ended(k)

\* What holds at the commands of a request that nothing else interrupts.  A
\* counter that counted it still exists and has counted nothing since; of the
\* counters it is done with, one over its limit has left a wait, for as long as
\* its window lasts.
SerialAt(q) ==
    q.pc # "idle" =>
        /\ \A k \in q.counted :
             Exists(k) /\ (admitted[k] < counter[k].count \/ counter[k].count = MaxCount)
        /\ \A k \in q.counted : k \in Elements(q.todo) =>
             q.pc \in {"expire", "ttl"} /\ k = Head(q.todo)
        /\ \A k \in q.over : k \notin Elements(q.todo)
        /\ q.retry = 0 => \A k \in q.counted :
             k \in Elements(q.todo) \/ counter[k].count <= LimitOf(k) \/ Ended(k)
        /\ q.pc \in {"expire", "ttl"} =>
             IF Head(q.todo) \in q.counted THEN counter[Head(q.todo)].count = q.count
                                           ELSE ~Exists(Head(q.todo))
        /\ q.pc = "expire" => ~Exists(Head(q.todo)) \/ Immortal(Head(q.todo))
        /\ \A k \in q.over : k \in q.counted => counter[k].left \in 0..2 * q.retry

OneByOne == \A r, s \in Req : r # s => At(r, "idle") \/ At(s, "idle")

Serial == ~mix.overlap => OneByOne /\ Admissions /\ \A r \in Req : SerialAt(req[r])

RateLimitInv == Inv /\ Todo /\ Lifetimes /\ Serial

-----------------------------------------------------------------------------
(* Type correctness and the expiry of counters                             *)

LEMMA IdleType == /\ Idle \in Request /\ Idle.pc = "idle" /\ Idle.todo = <<>>
                  /\ Idle.retry = 0 /\ Idle.over = {} /\ Idle.counted = {}
  <1>1. 0 \in 0..MaxCount
    BY EnoughRoom
  <1>2. <<>> \in Seq(Key)
    BY EmptySeq
  <1> QED
    BY <1>1, <1>2 DEF Idle, Request

LEMMA InitInv == Init => RateLimitInv
  <1> SUFFICES ASSUME Init PROVE RateLimitInv
    OBVIOUS
  <1>1. Absent \in Counter /\ Absent.count = 0 /\ Absent.left = 0
    BY EnoughRoom DEF Absent, Counter
  <1>2. TypeOK
    BY <1>1, EnoughRoom, IdleType DEF Init, TypeOK
  <1>3. BusyRequests /\ CountersExpire
    BY <1>1, IdleType DEF Init, BusyRequests, CountersExpire, Immortal, Exists
  <1>4. Todo
    BY IdleType, EmptySeq DEF Init, Todo, Distinct
  <1>5. Lifetimes
    BY <1>1 DEF Init, Lifetimes, Forever
  <1>6. Admissions
    BY <1>1, LimitFacts DEF Init, Admissions
  <1>7. OneByOne /\ \A r \in Req : SerialAt(req[r])
    BY IdleType DEF Init, OneByOne, At, SerialAt
  <1> QED
    BY <1>2, <1>3, <1>4, <1>5, <1>6, <1>7 DEF RateLimitInv, Inv, Serial

\* A step of one request, in four parts.
LEMMA StepInv ==
  ASSUME RateLimitInv, NEW r \in Req, NEW q \in Request,
         req' = [req EXCEPT ![r] = q], mix' = mix,
         counter' \in [Key -> Counter], admitted' \in [Key -> 0..MaxCount],
         Distinct(q.todo), q.pc \in {"incr", "expire", "ttl"} => q.todo # <<>>,
         \A k \in Key : counter'[k].left >= Forever,
         ~mix.crash => \A k \in Key : Immortal(k)' =>
             \/ q.pc = "expire" /\ Head(q.todo) = k
             \/ Immortal(k) /\ ~(At(r, "expire") /\ Bucket(r) = k),
         ~mix.overlap =>
             /\ ~At(r, "idle") \/ \A s \in Req : At(s, "idle")
             /\ Admissions' /\ SerialAt(q)'
  PROVE  RateLimitInv'
  <1>0. /\ TypeOK /\ req'[r] = q
        /\ \A s \in Req : s # r => req'[s] = req[s]
    BY DEF RateLimitInv, Inv, TypeOK
  <1>1. TypeOK' /\ BusyRequests' /\ Todo' /\ Lifetimes'
    BY <1>0 DEF RateLimitInv, Inv, TypeOK, BusyRequests, Todo, Lifetimes
  <1>2. CountersExpire'
    <2> SUFFICES ASSUME ~mix.crash, NEW k \in Key, Immortal(k)'
                 PROVE  \E s \in Req : req'[s].pc = "expire" /\ Head(req'[s].todo) = k
      BY DEF CountersExpire, At, Bucket
    <2>1. CASE q.pc = "expire" /\ Head(q.todo) = k
      BY <1>0, <2>1
    <2>2. CASE Immortal(k) /\ ~(At(r, "expire") /\ Bucket(r) = k)
      <3>1. PICK s \in Req : At(s, "expire") /\ Bucket(s) = k
        BY <2>2 DEF RateLimitInv, Inv, CountersExpire
      <3> QED
        BY <1>0, <2>2, <3>1 DEF At, Bucket
    <2> QED
      BY <2>1, <2>2
  <1>3. Serial'
    <2> SUFFICES ASSUME ~mix.overlap
                 PROVE  OneByOne' /\ Admissions' /\ \A s \in Req : SerialAt(req[s])'
      BY DEF Serial
    <2>1. \A s \in Req : s # r => req[s].pc = "idle"
      BY DEF RateLimitInv, Serial, OneByOne, At
    <2>2. OneByOne'
      BY <1>0, <2>1 DEF OneByOne, At
    <2>3. \A s \in Req : SerialAt(req[s])'
      BY <1>0, <2>1 DEF SerialAt
    <2> QED
      BY <2>2, <2>3
  <1> QED
    BY <1>1, <1>2, <1>3 DEF RateLimitInv, Inv

\* A step that begins or ends a request leaves the counters alone.
LEMMA BeginOrEnd ==
  ASSUME RateLimitInv, NEW r \in Req, NEW q \in Request,
         req' = [req EXCEPT ![r] = q], UNCHANGED <<mix, counter>>,
         admitted' \in [Key -> 0..MaxCount],
         Distinct(q.todo), q.pc \in {"idle", "incr"}, q.pc = "incr" => q.todo # <<>>,
         q.over = {}, q.counted = {},
         ~mix.crash => ~At(r, "expire"),
         ~mix.overlap => /\ ~At(r, "idle") \/ \A s \in Req : At(s, "idle")
                         /\ Admissions'
  PROVE  RateLimitInv'
  <1>1. counter' \in [Key -> Counter] /\ \A k \in Key : counter'[k].left >= Forever
    BY DEF RateLimitInv, Inv, TypeOK, Lifetimes
  <1>2. ~mix.crash => \A k \in Key : Immortal(k)' =>
          Immortal(k) /\ ~(At(r, "expire") /\ Bucket(r) = k)
    BY DEF Immortal, Exists
  <1>3. SerialAt(q)'
    BY DEF SerialAt
  <1> QED
    BY <1>1, <1>2, <1>3, StepInv

LEMMA EndSteps ==
  ASSUME RateLimitInv, NEW r \in Req, Refuse(r) \/ Crash(r) \/ Admit(r)
  PROVE  RateLimitInv'
  <1>0. TypeOK
    BY DEF RateLimitInv, Inv
  <1>1. /\ req' = [req EXCEPT ![r] = Idle] /\ UNCHANGED <<mix, counter>>
        /\ ~At(r, "idle")
        /\ ~mix.crash => ~At(r, "expire")
    BY DEF Refuse, Crash, Admit, At
  <1>2. Distinct(Idle.todo)
    BY IdleType, EmptySeq DEF Distinct
  <1>3. CASE admitted' = admitted
    <2>1. ~mix.overlap => Admissions'
      BY <1>1, <1>3 DEF RateLimitInv, Serial, Admissions, Ended, Exists
    <2> QED
      BY <1>0, <1>1, <1>2, <1>3, <2>1, IdleType, BeginOrEnd DEF TypeOK
  <1>4. CASE Admit(r)
    <2> DEFINE q == req[r]
    <2>1. \A k \in Key : admitted[k] \in 0..MaxCount /\ counter[k].count \in 0..MaxCount
      BY <1>0 DEF TypeOK, Counter
    <2>2. \A k \in Key : admitted'[k] = IF k \in q.counted THEN Bounded(admitted[k] + 1)
                                                           ELSE admitted[k]
      BY <1>4 DEF Admit
    <2>3. \A k \in Key : Bounded(admitted[k] + 1) \in 0..MaxCount
      BY <2>1, BoundedType
    <2>4. admitted' \in [Key -> 0..MaxCount]
      BY <1>4, <2>1, <2>3 DEF Admit
    <2>5. ASSUME ~mix.overlap, NEW k \in Key
          PROVE  /\ admitted'[k] <= counter[k].count
                 /\ admitted'[k] > LimitOf(k) => Ended(k)
      <3>1. CASE k \notin q.counted
        BY <2>2, <2>5, <3>1 DEF RateLimitInv, Serial, Admissions
      <3>2. CASE k \in q.counted
        <4>1. /\ admitted[k] < counter[k].count \/ counter[k].count = MaxCount
              /\ counter[k].count <= LimitOf(k) \/ Ended(k)
          BY <1>4, <2>5, <3>2 DEF Admit, At, RateLimitInv, Serial, SerialAt
        <4>2. admitted'[k] <= counter[k].count
          BY <2>1, <2>2, <2>3, <3>2, <4>1, BoundedType
        <4>3. /\ LimitOf(k) \in Nat /\ admitted'[k] \in Nat /\ counter[k].count \in Nat
          BY <2>1, <2>2, <2>3, <3>2, LimitFacts
        <4> QED
          BY <4>1, <4>2, <4>3
      <3> QED
        BY <3>1, <3>2
    <2>6. ~mix.overlap => Admissions'
      BY <1>1, <2>5 DEF Admissions, Ended, Exists
    <2> QED
      BY <1>1, <1>2, <2>4, <2>6, IdleType, BeginOrEnd
  <1> QED
    BY <1>3, <1>4 DEF Refuse, Crash

LEMMA ArriveStep ==
  ASSUME RateLimitInv, NEW r \in Req, Arrive(r)
  PROVE  RateLimitInv'
  <1>0. TypeOK
    BY DEF RateLimitInv, Inv
  <1>1. PICK p \in mix.policies, ip \in Ip, v \in Value :
          req' = [req EXCEPT ![r] = [Idle EXCEPT !.pc = "incr",
                                                 !.todo = Buckets(p, ip, v)]]
    BY DEF Arrive
  <1>2. p \in Policy
    BY <1>0 DEF TypeOK
  <1> DEFINE q == [Idle EXCEPT !.pc = "incr", !.todo = Buckets(p, ip, v)]
  <1>3. /\ q \in Request /\ q.pc = "incr" /\ q.todo # <<>> /\ Distinct(q.todo)
        /\ q.over = {} /\ q.counted = {}
    BY <1>2, BucketsFacts, IdleType DEF Request
  <1>4. /\ UNCHANGED <<mix, counter, admitted>> /\ At(r, "idle")
        /\ ~mix.overlap => \A s \in Req : At(s, "idle")
    BY DEF Arrive
  <1>5. ~mix.overlap => Admissions'
    BY <1>4 DEF RateLimitInv, Serial, Admissions, Ended, Exists
  <1>6. req' = [req EXCEPT ![r] = q] /\ ~At(r, "expire")
    BY <1>1, <1>4 DEF At
  <1> HIDE DEF q
  <1> QED
    BY <1>0, <1>3, <1>4, <1>5, <1>6, BeginOrEnd DEF TypeOK

-----------------------------------------------------------------------------
(* The commands of Redis                                                   *)

LEMMA CurrentBucket ==
  ASSUME RateLimitInv, NEW r \in Req, req[r].pc \in {"incr", "expire", "ttl"}
  PROVE  /\ req[r] \in Request /\ req[r].todo \in Seq(Key)
         /\ Distinct(req[r].todo) /\ req[r].todo # <<>>
         /\ Bucket(r) \in Key /\ Bucket(r) = Head(req[r].todo)
         /\ Bucket(r) \in Elements(req[r].todo)
         /\ counter[Bucket(r)] \in Counter
  <1>1. req[r] \in Request /\ req[r].todo \in Seq(Key)
    BY DEF RateLimitInv, Inv, TypeOK, Request
  <1>2. Distinct(req[r].todo) /\ req[r].todo # <<>>
    BY DEF RateLimitInv, Inv, BusyRequests, Todo
  <1> QED
    BY <1>1, <1>2, TailFacts DEF Bucket, RateLimitInv, Inv, TypeOK

LEMMA IncrStep ==
  ASSUME RateLimitInv, NEW r \in Req, Incr(r)
  PROVE  RateLimitInv'
  <1>k. PICK k : k = Bucket(r)
    OBVIOUS
  <1> DEFINE q == req[r]
             n == Bounded(counter[k].count + 1)
  <1>0. TypeOK /\ At(r, "incr")
    BY DEF RateLimitInv, Inv, Incr
  <1>1. /\ q \in Request /\ q.todo \in Seq(Key) /\ Distinct(q.todo) /\ q.todo # <<>>
        /\ k \in Key /\ k = Head(q.todo) /\ k \in Elements(q.todo)
        /\ counter[k] \in Counter
    BY <1>0, <1>k, CurrentBucket DEF At
  <1>2. /\ counter[k].count \in 0..MaxCount
        /\ n \in 0..MaxCount /\ n > 0 /\ n >= counter[k].count
        /\ n > counter[k].count \/ n = MaxCount
        /\ n = 1 <=> counter[k].count = 0
    <2>1. counter[k].count \in 0..MaxCount
      BY <1>1 DEF Counter
    <2> QED
      BY <2>1, EnoughRoom, BoundedType
  <1> HIDE DEF n
  <1>3. PICK next \in Request :
          /\ next = [q EXCEPT !.pc = IF n = 1 THEN "expire" ELSE "ttl",
                              !.count = n, !.counted = Kept(q.counted \cup {k})]
          /\ next.pc \in {"expire", "ttl"} /\ (next.pc = "expire" <=> n = 1)
          /\ next.todo = q.todo /\ next.retry = q.retry /\ next.over = q.over
          /\ next.count = n /\ next.counted = Kept(q.counted \cup {k})
    <2>1. Kept(q.counted \cup {k}) \in SUBSET Key
      BY <1>1 DEF Kept, Request
    <2> DEFINE x == [q EXCEPT !.pc = IF n = 1 THEN "expire" ELSE "ttl",
                              !.count = n, !.counted = Kept(q.counted \cup {k})]
    <2>2. /\ x \in Request /\ x.pc \in {"expire", "ttl"} /\ (x.pc = "expire" <=> n = 1)
          /\ x.todo = q.todo /\ x.retry = q.retry /\ x.over = q.over
          /\ x.count = n /\ x.counted = Kept(q.counted \cup {k})
      BY <1>1, <1>2, <2>1 DEF Request
    <2> QED
      BY <2>2
  <1>4. req' = [req EXCEPT ![r] = next] /\ UNCHANGED <<mix, admitted>>
    BY <1>k, <1>3 DEF Incr, n
  <1> DEFINE c == [count |-> n, left |-> IF Exists(k) THEN counter[k].left ELSE Forever]
  <1>5. counter' = [counter EXCEPT ![k] = c]
    BY <1>k DEF Incr, n
  <1>6. c \in Counter /\ c.count = n /\ c.left >= Forever
        /\ c.left = IF Exists(k) THEN counter[k].left ELSE Forever
    BY <1>1, <1>2 DEF Counter, Forever, RateLimitInv, Lifetimes
  <1> HIDE DEF c
  <1>7. /\ counter'[k] = c
        /\ \A j \in Key : j # k => counter'[j] = counter[j]
    BY <1>0, <1>1, <1>5 DEF TypeOK
  <1>8. /\ counter' \in [Key -> Counter]
        /\ \A j \in Key : counter'[j].left >= Forever
    BY <1>0, <1>5, <1>6, <1>7 DEF TypeOK, RateLimitInv, Lifetimes
  <1>9. \A j \in Key : Immortal(j)' =>
          \/ next.pc = "expire" /\ Head(next.todo) = j
          \/ Immortal(j) /\ ~(At(r, "expire") /\ Bucket(r) = j)
    BY <1>0, <1>1, <1>2, <1>3, <1>6, <1>7, EnoughRoom DEF Immortal, Exists, At
  <1>a. ASSUME ~mix.overlap
        PROVE  Admissions' /\ SerialAt(next)'
    <2>1. Admissions /\ SerialAt(q) /\ q.pc = "incr"
      BY <1>0, <1>a DEF RateLimitInv, Serial, At
    <2>2. admitted[k] \in 0..MaxCount /\ admitted[k] <= counter[k].count
      BY <1>0, <1>1, <2>1 DEF TypeOK, Admissions
    <2>3. admitted[k] > LimitOf(k) => Ended(k)'
      BY <1>1, <1>2, <1>6, <1>7, <2>1 DEF Admissions, Ended, Exists
    <2>4. Admissions'
      <3>1. admitted[k] <= n
        BY <1>2, <2>2
      <3> QED
        BY <1>4, <1>6, <1>7, <2>1, <2>3, <3>1 DEF Admissions, Ended, Exists
    <2>5. next.counted = q.counted \cup {k}
      BY <1>3, <1>a DEF Kept
    <2>6. /\ k \notin q.counted /\ k \notin q.over
          /\ \A j \in q.counted : j \in Key /\ j # k
          /\ \A j \in q.over : j \in Key /\ j # k
      BY <1>1, <2>1 DEF SerialAt, Request
    <2>7. Exists(k)' /\ (admitted[k] < n \/ n = MaxCount)
      BY <1>2, <1>6, <1>7, <2>2 DEF Exists
    <2>8. next.pc = "expire" => Immortal(k)'
      BY <1>2, <1>3, <1>6, <1>7 DEF Immortal, Exists
    <2>9. \A j \in q.counted : counter'[j] = counter[j] /\ admitted'[j] = admitted[j]
      BY <1>4, <1>7, <2>6
    <2>a. \A j \in next.counted :
            Exists(j)' /\ (admitted'[j] < counter'[j].count \/ counter'[j].count = MaxCount)
      BY <1>4, <1>6, <1>7, <2>1, <2>5, <2>7, <2>9 DEF SerialAt, Exists
    <2>b. /\ \A j \in next.counted : j \in Elements(next.todo) => j = Head(next.todo)
          /\ \A j \in next.over : j \notin Elements(next.todo)
      BY <1>1, <1>3, <2>1, <2>5 DEF SerialAt
    <2>c. next.retry = 0 => \A j \in next.counted :
            j \in Elements(next.todo) \/ counter'[j].count <= LimitOf(j) \/ Ended(j)'
      BY <1>1, <1>3, <2>1, <2>5, <2>9 DEF SerialAt, Ended, Exists
    <2>d. /\ Head(next.todo) = k /\ k \in next.counted
          /\ counter'[k].count = next.count
      BY <1>1, <1>3, <1>6, <1>7, <2>5
    <2>e. \A j \in next.over : j \in next.counted => counter'[j].left \in 0..2 * next.retry
      BY <1>3, <2>1, <2>5, <2>6, <2>9 DEF SerialAt
    <2> QED
      BY <1>3, <2>4, <2>8, <2>a, <2>b, <2>c, <2>d, <2>e DEF SerialAt
  <1>b. ~At(r, "idle")
    BY <1>0 DEF At
  <1>d. admitted' \in [Key -> 0..MaxCount]
    BY <1>0, <1>4 DEF TypeOK
  <1> QED
    BY <1>1, <1>3, <1>4, <1>8, <1>9, <1>a, <1>b, <1>d, StepInv

\* What increment returns to the loop over the buckets: ttl is what is left of
\* the counter's window, rounded to seconds.
LEMMA CountedStep ==
  ASSUME RateLimitInv, NEW r \in Req, req[r].pc \in {"expire", "ttl"},
         NEW ttl \in Nat, Counted(r, ttl), UNCHANGED <<mix, admitted>>,
         counter' \in [Key -> Counter],
         \A k \in Key : k # Bucket(r) => counter'[k] = counter[k],
         counter'[Bucket(r)].count = counter[Bucket(r)].count,
         counter'[Bucket(r)].left >= Forever,
         counter'[Bucket(r)].left = Forever => ~Exists(Bucket(r)),
         Exists(Bucket(r)) => /\ counter'[Bucket(r)].left \in 0..2 * ttl
                              /\ ttl = 0 => counter'[Bucket(r)].left = 0,
         ~mix.overlap /\ Ended(Bucket(r)) => counter'[Bucket(r)].left = 0
  PROVE  RateLimitInv'
  <1>k. PICK k : k = Bucket(r)
    OBVIOUS
  <1> DEFINE q == req[r]
             exceeded == q.count > LimitOf(k)
  <1>0. TypeOK
    BY DEF RateLimitInv, Inv
  <1>1. /\ q \in Request /\ q.todo \in Seq(Key) /\ Distinct(q.todo) /\ q.todo # <<>>
        /\ k \in Key /\ k = Head(q.todo) /\ k \in Elements(q.todo)
        /\ counter[k] \in Counter
    BY <1>k, CurrentBucket
  <1>2. /\ Tail(q.todo) \in Seq(Key) /\ Distinct(Tail(q.todo))
        /\ Elements(Tail(q.todo)) = Elements(q.todo) \ {k}
        /\ Len(q.todo) # 1 => Tail(q.todo) # <<>>
    BY <1>1, TailFacts
  <1>3. /\ q.count \in 0..MaxCount /\ q.retry \in Nat
        /\ LimitOf(k) \in Nat
        /\ Wait(q, ttl) \in Nat /\ Wait(q, ttl) >= q.retry
        /\ exceeded => Wait(q, ttl) >= ttl
    <2>1. q.count \in 0..MaxCount /\ q.retry \in Nat /\ LimitOf(k) \in Nat
      BY <1>1, LimitFacts DEF Request
    <2> QED
      BY <1>1, <2>1 DEF Wait
  <1>4. PICK next \in Request :
          /\ next = [q EXCEPT !.pc = IF Len(q.todo) = 1 THEN "decide" ELSE "incr",
                              !.todo = Tail(q.todo),
                              !.retry = Wait(q, ttl),
                              !.over = IF exceeded THEN Kept(q.over \cup {k})
                                                   ELSE q.over]
          /\ next.pc = IF Len(q.todo) = 1 THEN "decide" ELSE "incr"
          /\ next.todo = Tail(q.todo) /\ next.retry = Wait(q, ttl)
          /\ next.over = IF exceeded THEN Kept(q.over \cup {k}) ELSE q.over
          /\ next.counted = q.counted
    <2>1. (IF exceeded THEN Kept(q.over \cup {k}) ELSE q.over) \in SUBSET Key
      BY <1>1 DEF Kept, Request
    <2> DEFINE x == [q EXCEPT !.pc = IF Len(q.todo) = 1 THEN "decide" ELSE "incr",
                              !.todo = Tail(q.todo),
                              !.retry = Wait(q, ttl),
                              !.over = IF exceeded THEN Kept(q.over \cup {k})
                                                   ELSE q.over]
    <2>2. /\ x \in Request
          /\ x.pc = IF Len(q.todo) = 1 THEN "decide" ELSE "incr"
          /\ x.todo = Tail(q.todo) /\ x.retry = Wait(q, ttl)
          /\ x.over = IF exceeded THEN Kept(q.over \cup {k}) ELSE q.over
          /\ x.counted = q.counted
      BY <1>1, <1>2, <1>3, <2>1 DEF Request
    <2> QED
      BY <2>2
  <1>5. req' = [req EXCEPT ![r] = next]
    BY <1>k, <1>4 DEF Counted
  <1>6. \A j \in Key : counter'[j].left >= Forever
    BY <1>k DEF RateLimitInv, Lifetimes
  <1>7. \A j \in Key : Immortal(j)' => Immortal(j) /\ j # k
    BY <1>k DEF Immortal, Exists
  <1>8. ASSUME ~mix.overlap
        PROVE  Admissions' /\ SerialAt(next)'
    <2>1. Admissions /\ SerialAt(q) /\ q.pc \in {"expire", "ttl"}
      BY <1>8 DEF RateLimitInv, Serial
    <2>2. \A j \in Key : /\ counter'[j].count = counter[j].count
                         /\ Ended(j) => Ended(j)'
      BY <1>k, <1>8 DEF Ended, Exists
    <2>3. Admissions'
      BY <2>1, <2>2 DEF Admissions
    <2>4. /\ \A j \in q.counted : j \in Key /\ (j \in Elements(q.todo) => j = k)
          /\ \A j \in q.over : j \in Key /\ j \notin Elements(q.todo) /\ j # k
          /\ k \in q.counted => Exists(k) /\ counter[k].count = q.count
      BY <1>1, <2>1 DEF SerialAt, Request
    <2>5. /\ next.pc \in {"decide", "incr"}
          /\ next.over \subseteq q.over \cup {k}
          /\ k \in next.over => exceeded
      BY <1>4, <1>8, <2>4 DEF Kept
    <2>6. \A j \in next.counted :
            Exists(j)' /\ (admitted'[j] < counter'[j].count \/ counter'[j].count = MaxCount)
      BY <1>4, <2>1, <2>2, <2>4 DEF SerialAt, Exists
    <2>7. /\ \A j \in next.counted : j \notin Elements(next.todo)
          /\ \A j \in next.over : j \notin Elements(next.todo)
      BY <1>2, <1>4, <2>4, <2>5
    <2>8. ASSUME next.retry = 0, NEW j \in next.counted
          PROVE  counter'[j].count <= LimitOf(j) \/ Ended(j)'
      <3>1. CASE j = k
        <4>1. exceeded => ttl = 0
          BY <1>3, <1>4, <2>8
        <4>2. exceeded => Ended(k)'
          BY <1>k, <1>4, <2>4, <2>8, <3>1, <4>1 DEF Ended, Exists
        <4>3. ~exceeded => q.count <= LimitOf(k)
          BY <1>3
        <4> QED
          BY <1>k, <1>4, <2>4, <2>8, <3>1, <4>2, <4>3
      <3>2. CASE j # k
        <4>1. q.retry = 0 /\ j \notin Elements(q.todo) /\ j \in Key
          BY <1>3, <1>4, <2>4, <2>8, <3>2
        <4> QED
          BY <1>4, <2>1, <2>2, <2>8, <4>1 DEF SerialAt
      <3> QED
        BY <3>1, <3>2
    <2>9. ASSUME NEW j \in next.over, j \in next.counted
          PROVE  counter'[j].left \in 0..2 * next.retry
      <3>1. CASE j = k
        BY <1>k, <1>3, <1>4, <2>4, <2>5, <2>9, <3>1
      <3>2. CASE j # k
        <4>1. j \in q.over /\ j \in q.counted /\ j \in Key
          BY <1>4, <2>4, <2>5, <2>9, <3>2
        <4>2. counter'[j].left \in 0..2 * q.retry
          BY <1>k, <2>1, <3>2, <4>1 DEF SerialAt
        <4> QED
          BY <1>3, <1>4, <4>2
      <3> QED
        BY <3>1, <3>2
    <2> QED
      BY <2>3, <2>5, <2>6, <2>7, <2>8, <2>9 DEF SerialAt
  <1>9. Distinct(next.todo) /\ (next.pc \in {"incr", "expire", "ttl"} => next.todo # <<>>)
    BY <1>2, <1>4
  <1>a. ~At(r, "idle") /\ admitted' \in [Key -> 0..MaxCount]
    BY <1>0 DEF At, TypeOK
  <1>b. ~mix.crash => \A j \in Key : Immortal(j)' =>
          Immortal(j) /\ ~(At(r, "expire") /\ Bucket(r) = j)
    BY <1>k, <1>7
  <1> QED
    BY <1>4, <1>5, <1>6, <1>8, <1>9, <1>a, <1>b, StepInv

\* TTL: a counter without an expiry gets another EXPIRE.
LEMMA FindTtlStep ==
  ASSUME RateLimitInv, NEW r \in Req, FindTtl(r)
  PROVE  RateLimitInv'
  <1>k. PICK k : k = Bucket(r)
    OBVIOUS
  <1> DEFINE q == req[r]
  <1>0. TypeOK /\ At(r, "ttl") /\ UNCHANGED <<mix, counter, admitted>>
    BY DEF RateLimitInv, Inv, FindTtl
  <1>1. /\ q \in Request /\ q.todo \in Seq(Key) /\ Distinct(q.todo) /\ q.todo # <<>>
        /\ k \in Key /\ k = Head(q.todo) /\ k \in Elements(q.todo)
        /\ counter[k] \in Counter
    BY <1>0, <1>k, CurrentBucket DEF At
  <1>2. counter[k].count \in 0..MaxCount /\ counter[k].left \in Int
        /\ counter[k].left >= Forever
    BY <1>1 DEF Counter, RateLimitInv, Lifetimes
  <1>3. CASE Ttl(k) < 0
    <2>1. ~Exists(k) \/ Immortal(k)
      BY <1>2, <1>3 DEF Ttl, Forever
    <2>2. PICK next \in Request :
            /\ next = [q EXCEPT !.pc = "expire"]
            /\ next.pc = "expire" /\ next.todo = q.todo /\ next.over = q.over
            /\ next.counted = q.counted /\ next.retry = q.retry /\ next.count = q.count
      <3> DEFINE x == [q EXCEPT !.pc = "expire"]
      <3>1. /\ x \in Request
            /\ x.pc = "expire" /\ x.todo = q.todo /\ x.over = q.over
            /\ x.counted = q.counted /\ x.retry = q.retry /\ x.count = q.count
        BY <1>1 DEF Request
      <3> QED
        BY <3>1
    <2>3. req' = [req EXCEPT ![r] = next]
      BY <1>k, <1>3, <2>2 DEF FindTtl
    <2>4. \A j \in Key : /\ Immortal(j)' <=> Immortal(j)
                         /\ Exists(j)' <=> Exists(j)
                         /\ Ended(j)' <=> Ended(j)
      BY <1>0 DEF Immortal, Exists, Ended
    <2>5. ASSUME ~mix.overlap
          PROVE  Admissions' /\ SerialAt(next)'
      <3>1. Admissions /\ SerialAt(q) /\ q.pc = "ttl"
        BY <1>0, <2>5 DEF RateLimitInv, Serial, At
      <3>2. Admissions'
        BY <1>0, <2>4, <3>1 DEF Admissions
      <3>3. q.counted \in SUBSET Key
        BY <1>1 DEF Request
      <3> QED
        BY <1>0, <1>1, <2>1, <2>2, <2>4, <3>1, <3>2, <3>3 DEF SerialAt
    <2>6. /\ ~At(r, "idle") /\ ~At(r, "expire")
          /\ counter' \in [Key -> Counter] /\ admitted' \in [Key -> 0..MaxCount]
          /\ \A j \in Key : counter'[j].left >= Forever
      BY <1>0 DEF At, TypeOK, RateLimitInv, Lifetimes
    <2> QED
      BY <1>0, <1>1, <2>2, <2>3, <2>4, <2>5, <2>6, StepInv
  <1>4. CASE ~(Ttl(k) < 0)
    <2>1. PICK ttl \in Nat : ttl = Ttl(k)
      BY <1>2, <1>4 DEF Ttl, Forever
    <2>2. Exists(k) /\ ~Immortal(k) /\ ttl = (counter[k].left + 1) \div 2
      BY <1>4, <2>1 DEF Ttl
    <2>3. counter[k].left \in Nat
      BY <1>2, <2>2 DEF Immortal, Forever
    <2>4. counter[k].left \in 0..2 * ttl /\ (ttl = 0 => counter[k].left = 0)
      BY <2>2, <2>3
    <2>5. Counted(r, ttl)
      BY <1>k, <1>4, <2>1 DEF FindTtl
    <2>6. counter' \in [Key -> Counter] /\ req[r].pc \in {"expire", "ttl"}
      BY <1>0 DEF TypeOK, At
    <2> QED
      BY <1>k, <1>0, <1>2, <2>2, <2>3, <2>4, <2>5, <2>6, CountedStep
        DEF Ended, Forever
  <1> QED
    BY <1>3, <1>4

\* EXPIRE finds a counter that no expiry has been set for, or none.
LEMMA ExpireStep ==
  ASSUME RateLimitInv, NEW r \in Req, Expire(r)
  PROVE  RateLimitInv'
  <1>k. PICK k : k = Bucket(r)
    OBVIOUS
  <1>0. TypeOK /\ At(r, "expire") /\ UNCHANGED <<mix, admitted>>
    BY DEF RateLimitInv, Inv, Expire
  <1>1. k \in Key /\ k = Head(req[r].todo) /\ counter[k] \in Counter
    BY <1>0, <1>k, CurrentBucket DEF At
  <1>2. PICK seconds \in Nat \ {0} : seconds = Window[k.policy]
    BY <1>1, LimitFacts
  <1>3. Counted(r, seconds)
    BY <1>k, <1>2 DEF Expire
  <1>4. counter' = IF Exists(k)
                   THEN [counter EXCEPT ![k] = [@ EXCEPT !.left = 2 * seconds]]
                   ELSE counter
    BY <1>k, <1>2 DEF Expire
  <1>5. PICK c \in Counter : c = [counter[k] EXCEPT !.left = 2 * seconds]
                             /\ c.left = 2 * seconds /\ c.count = counter[k].count
    <2> DEFINE c == [counter[k] EXCEPT !.left = 2 * seconds]
    <2>1. c \in Counter /\ c.left = 2 * seconds /\ c.count = counter[k].count
      BY <1>1 DEF Counter
    <2> QED
      BY <2>1
  <1>6. /\ counter' \in [Key -> Counter]
        /\ \A j \in Key : j # k => counter'[j] = counter[j]
        /\ counter'[k] = IF Exists(k) THEN c ELSE counter[k]
    BY <1>0, <1>1, <1>4, <1>5 DEF TypeOK
  <1>7. /\ counter'[k].count = counter[k].count
        /\ counter'[k].left >= Forever
        /\ counter'[k].left = Forever => ~Exists(k)
        /\ Exists(k) => counter'[k].left \in 0..2 * seconds
    BY <1>1, <1>5, <1>6 DEF Forever, RateLimitInv, Lifetimes
  <1>8. ~mix.overlap => ~Ended(k)
    BY <1>0, <1>1 DEF RateLimitInv, Serial, SerialAt, At, Ended, Immortal, Forever
  <1>9. req[r].pc \in {"expire", "ttl"}
    BY <1>0 DEF At
  <1> QED
    BY <1>k, <1>0, <1>2, <1>3, <1>6, <1>7, <1>8, <1>9, CountedStep

-----------------------------------------------------------------------------
(* Time                                                                    *)

\* What half a second does to one counter.
LEMMA TickCounter ==
  ASSUME RateLimitInv, Tick, NEW k \in Key
  PROVE  /\ counter'[k] \in Counter /\ counter'[k].left >= Forever
         /\ Ended(k) => ~Exists(k)' /\ admitted'[k] = 0
         /\ ~Ended(k) => /\ counter'[k].count = counter[k].count
                         /\ admitted'[k] = admitted[k]
         /\ Exists(k)' <=> Exists(k) /\ ~Ended(k)
         /\ Immortal(k)' <=> Immortal(k)
         /\ \A n \in Nat : Exists(k)' /\ counter[k].left \in 0..n
                             => counter'[k].left \in 0..n
  <1> DEFINE c == counter[k]
  <1>1. /\ c \in Counter /\ c.left \in Int /\ c.left >= Forever
        /\ c.count \in 0..MaxCount
    BY DEF RateLimitInv, Inv, TypeOK, Lifetimes, Counter
  <1>2. /\ counter'[k] = IF Ended(k) THEN Absent
                         ELSE IF c.left > 0
                         THEN [count |-> c.count, left |-> c.left - 1] ELSE c
        /\ admitted'[k] = IF Ended(k) THEN 0 ELSE admitted[k]
    BY DEF Tick
  <1>3. Absent \in Counter /\ Absent.count = 0 /\ Absent.left = 0
    BY EnoughRoom DEF Absent, Counter
  <1>4. CASE Ended(k)
    BY <1>1, <1>2, <1>3, <1>4 DEF Ended, Exists, Immortal, Forever
  <1>5. CASE ~Ended(k) /\ c.left > 0
    <2>1. /\ counter'[k] = [count |-> c.count, left |-> c.left - 1]
          /\ counter'[k].count = c.count /\ counter'[k].left = c.left - 1
      BY <1>2, <1>5
    <2>2. counter'[k] \in Counter
      BY <1>1, <2>1 DEF Counter
    <2> QED
      BY <1>1, <1>2, <1>5, <2>1, <2>2 DEF Exists, Immortal, Forever
  <1>6. CASE ~Ended(k) /\ ~(c.left > 0)
    BY <1>1, <1>2, <1>6 DEF Exists, Immortal, Ended
  <1> QED
    BY <1>4, <1>5, <1>6

LEMMA TickStep ==
  ASSUME RateLimitInv, Tick
  PROVE  RateLimitInv'
  <1>0. TypeOK /\ mix' = mix
    BY DEF RateLimitInv, Inv, Tick
  <1>1. ASSUME NEW r \in Req
        PROVE  /\ req'[r] \in Request
               /\ req'[r].pc = req[r].pc /\ req'[r].todo = req[r].todo
               /\ req'[r].retry = req[r].retry /\ req'[r].over = req[r].over
               /\ req'[r].count = req[r].count
               /\ req'[r].counted = {k \in req[r].counted : ~Ended(k)}
    <2> DEFINE rest == {k \in req[r].counted : ~Ended(k)}
    <2>1. req'[r] = [req[r] EXCEPT !.counted = rest] /\ req[r] \in Request
      BY <1>0 DEF Tick, TypeOK
    <2>2. rest \in SUBSET Key
      BY <2>1 DEF Request
    <2> HIDE DEF rest
    <2>3. req'[r] \in Request /\ req'[r].counted = rest
      BY <2>1, <2>2 DEF Request
    <2> QED
      BY <2>1, <2>3 DEF Request, rest
  <1>2. req' \in [Req -> Request]
    <2>1. req' = [r \in Req |->
                    [req[r] EXCEPT !.counted = {k \in req[r].counted : ~Ended(k)}]]
      BY DEF Tick
    <2> QED
      BY <1>1, <2>1
  <1>3. counter' \in [Key -> Counter]
    <2>1. counter' = [k \in Key |->
                     IF Ended(k) THEN Absent
                     ELSE IF counter[k].left > 0
                     THEN [count |-> counter[k].count, left |-> counter[k].left - 1]
                     ELSE counter[k]]
      BY DEF Tick
    <2>2. \A k \in Key : counter'[k] \in Counter
      BY TickCounter
    <2> QED
      BY <2>1, <2>2
  <1>4. admitted' \in [Key -> 0..MaxCount]
    BY <1>0, EnoughRoom DEF Tick, TypeOK
  <1>5. TypeOK'
    BY <1>0, <1>2, <1>3, <1>4 DEF TypeOK
  <1>6. BusyRequests' /\ Todo' /\ Lifetimes'
    BY <1>1, TickCounter DEF RateLimitInv, Inv, BusyRequests, Todo, Lifetimes
  <1>7. CountersExpire'
    BY <1>0, <1>1, TickCounter
      DEF RateLimitInv, Inv, CountersExpire, At, Bucket
  <1>8. ASSUME ~mix.overlap
        PROVE  OneByOne' /\ Admissions' /\ \A r \in Req : SerialAt(req[r])'
    <2>1. OneByOne /\ Admissions /\ \A r \in Req : SerialAt(req[r])
      BY <1>8 DEF RateLimitInv, Serial
    <2>2. OneByOne'
      BY <1>1, <2>1 DEF OneByOne, At
    <2>3. ASSUME NEW k \in Key
          PROVE  admitted'[k] <= counter'[k].count
                 /\ (admitted'[k] > LimitOf(k) => Ended(k)')
      <3>1. counter'[k].count \in 0..MaxCount /\ LimitOf(k) \in Nat
        BY LimitFacts, TickCounter DEF Counter
      <3>2. CASE Ended(k)
        <4>1. admitted'[k] = 0
          BY <3>2, TickCounter
        <4> QED
          BY <3>1, <4>1
      <3>3. CASE ~Ended(k)
        BY <2>1, <3>3, TickCounter DEF Admissions
      <3> QED
        BY <3>2, <3>3
    <2>4. Admissions'
      BY <2>3 DEF Admissions
    <2>5. ASSUME NEW r \in Req
          PROVE  SerialAt(req[r])'
      <3> DEFINE q == req[r]
      <3>c. PICK next \in Request :
              /\ next = req'[r]
              /\ next.pc = q.pc /\ next.todo = q.todo /\ next.retry = q.retry
              /\ next.over = q.over /\ next.count = q.count
              /\ next.counted = {k \in q.counted : ~Ended(k)}
        BY <1>1
      <3> SUFFICES ASSUME q.pc # "idle" PROVE SerialAt(next)'
        BY <3>c DEF SerialAt
      <3>1. SerialAt(q) /\ q \in Request /\ q.retry \in Nat
        BY <1>0, <2>1 DEF TypeOK, Request
      <3>2. \A k \in next.counted : k \in q.counted /\ k \in Key /\ ~Ended(k)
        BY <3>1, <3>c DEF Request
      <3>3. \A k \in next.counted :
              Exists(k)' /\ (admitted'[k] < counter'[k].count \/ counter'[k].count = MaxCount)
        BY <3>1, <3>2, TickCounter DEF SerialAt
      <3>4. \A k \in next.counted : k \in Elements(next.todo) =>
              next.pc \in {"expire", "ttl"} /\ k = Head(next.todo)
        BY <3>1, <3>2, <3>c DEF SerialAt
      <3>5. \A k \in next.over : k \notin Elements(next.todo)
        BY <3>1, <3>c DEF SerialAt
      <3>6. next.retry = 0 => \A k \in next.counted :
              k \in Elements(next.todo) \/ counter'[k].count <= LimitOf(k) \/ Ended(k)'
        BY <3>1, <3>2, <3>c, TickCounter DEF SerialAt
      <3>7. ASSUME next.pc \in {"expire", "ttl"}
            PROVE  /\ IF Head(next.todo) \in next.counted
                      THEN counter'[Head(next.todo)].count = next.count
                      ELSE ~Exists(Head(next.todo))'
                   /\ next.pc = "expire" => ~Exists(Head(next.todo))'
                                              \/ Immortal(Head(next.todo))'
        <4>1. PICK k \in Key : k = Head(q.todo)
          BY <3>7, <3>c, CurrentBucket
        <4>2. /\ IF k \in q.counted THEN counter[k].count = q.count ELSE ~Exists(k)
              /\ q.pc = "expire" => ~Exists(k) \/ Immortal(k)
          BY <3>1, <3>7, <3>c, <4>1 DEF SerialAt
        <4>3. k \in next.counted <=> k \in q.counted /\ ~Ended(k)
          BY <3>c
        <4>4. /\ IF k \in next.counted THEN counter'[k].count = next.count
                                       ELSE ~Exists(k)'
              /\ next.pc = "expire" => ~Exists(k)' \/ Immortal(k)'
          BY <3>c, <4>2, <4>3, TickCounter
        <4> QED
          BY <3>c, <4>1, <4>4
      <3>8. ASSUME NEW k \in next.over, k \in next.counted
            PROVE  counter'[k].left \in 0..2 * next.retry
        <4>1. counter[k].left \in 0..2 * q.retry /\ 2 * q.retry \in Nat
          BY <3>1, <3>2, <3>8, <3>c DEF SerialAt
        <4>2. Exists(k)'
          BY <3>3, <3>8
        <4> QED
          BY <3>2, <3>8, <3>c, <4>1, <4>2, TickCounter
      <3> QED
        BY <3>3, <3>4, <3>5, <3>6, <3>7, <3>8 DEF SerialAt
    <2> QED
      BY <2>2, <2>4, <2>5
  <1> QED
    BY <1>0, <1>5, <1>6, <1>7, <1>8 DEF RateLimitInv, Inv, Serial

-----------------------------------------------------------------------------
(* The theorems                                                            *)

LEMMA NextInv ==
  ASSUME RateLimitInv, [Next]_vars
  PROVE  RateLimitInv'
  <1>1. CASE Tick
    BY <1>1, TickStep
  <1>2. ASSUME NEW r \in Req, Arrive(r) \/ Step(r) \/ Crash(r)
        PROVE  RateLimitInv'
    BY <1>2, ArriveStep, IncrStep, FindTtlStep, ExpireStep, EndSteps DEF Step
  <1>3. CASE UNCHANGED vars
    BY <1>3 DEF vars, RateLimitInv, Inv, TypeOK, BusyRequests, CountersExpire, Todo,
                Lifetimes, Serial, OneByOne, Admissions, SerialAt, At, Bucket,
                Exists, Immortal, Ended
  <1> QED
    BY <1>1, <1>2, <1>3 DEF Next

LEMMA Reachable == Spec => []RateLimitInv
  BY InitInv, NextInv, PTL DEF Spec

\* No interleaving of requests leaves a counter without an expiry, for all
\* numbers of requests and counters, unless the process stops in between:
\* AuthRateLimitRepository.increment.
THEOREM CountersGetAnExpiry == Spec => []Inv
  <1>1. RateLimitInv => Inv
    BY DEF RateLimitInv
  <1> QED
    BY <1>1, Reachable, PTL

\* One request after the other, a window lets through no more than its limit
\* until its last half second, for all limits: assertAllowed.
THEOREM LimitsHold == Spec => []OverLimitOnlyAtEnd
  <1>1. RateLimitInv => OverLimitOnlyAtEnd
    BY DEF RateLimitInv, Serial, Admissions, OverLimitOnlyAtEnd
  <1> QED
    BY <1>1, Reachable, PTL

\* The wait told to a refused client covers every window that refused it, for
\* all windows: retryAfterSeconds in assertAllowed.
THEOREM WaitsSuffice == Spec => RetryAfterSuffices
  <1> DEFINE Suffices == ~mix.overlap =>
               \A r \in Req, k \in Key :
                  Refuse(r) /\ k \in req[r].over \cap req[r].counted
                    => counter[k].left \in 0..2 * req[r].retry
  <1>1. RateLimitInv => Suffices
    BY DEF RateLimitInv, Serial, SerialAt, Refuse, At
  <1>2. RateLimitInv /\ [Next]_vars => [Suffices]_vars
    BY <1>1
  <1>3. Spec => [][Suffices]_vars
    BY <1>2, Reachable, PTL DEF Spec
  <1> QED
    BY <1>3 DEF RetryAfterSuffices

=============================================================================
