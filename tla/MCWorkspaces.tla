---------------------------- MODULE MCWorkspaces ----------------------------
(***************************************************************************)
(* Instances of Workspaces for TLC.  "o" is the founder.                   *)
(***************************************************************************)
EXTENDS Workspaces, TLC

\* The requests are interchangeable.
ReqSymmetry == Permutations(Req)

FounderToo == {{"o"}, {"a"}}
AllButPurge == Operation \ {"purge"}
ShortLists == {{"a"}, {"a", "b"}}

=============================================================================
