----------------------------- MODULE MCRateLimit -----------------------------
(***************************************************************************)
(* An instance of RateLimit for TLC: one address; sign-in, which has three *)
(* counters, and refresh, which has two, for requests that overlap.        *)
(***************************************************************************)
EXTENDS RateLimit, TLC

SmallLimit == [p \in Policy \cup {"public"} |->
                 [d \in Dimension |-> IF p = "public" THEN 2 ELSE 1]]

SmallWindow == [p \in Policy \cup {"public"} |-> IF p = "public" THEN 2 ELSE 1]

AllMixes ==
    {[policies |-> {"login"}, overlap |-> FALSE, crash |-> FALSE],
     [policies |-> {"login"}, overlap |-> FALSE, crash |-> TRUE],
     [policies |-> {"refresh"}, overlap |-> TRUE, crash |-> FALSE]}

=============================================================================
