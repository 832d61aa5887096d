----------------------------- MODULE MCGateway ------------------------------
(***************************************************************************)
(* An instance of Gateway for TLC: an account with two clients, and one    *)
(* that watches.                                                           *)
(***************************************************************************)
EXTENDS Gateway

TwoAndOne == [s \in Socket |-> IF s = "watch" THEN "b" ELSE "a"]

AllMixes ==
    {{"workspace.join", "workspace.leave", "membership"},
     {"channel.join", "channel.leave", "connection"},
     {"typing.start", "typing.stop", "message"},
     {"typing.start", "typing.stop", "membership"},
     {"typing.start", "channel.join", "channel.leave"},
     {"typing.start", "connection"}}

=============================================================================
