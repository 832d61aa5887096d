----------------------------- MODULE MCMessages -----------------------------
(***************************************************************************)
(* An instance of Messages for TLC: single requests, requests that are cut *)
(* off and requests that overlap.                                          *)
(***************************************************************************)
EXTENDS Messages, TLC

Symmetry == Permutations(RowId) \cup Permutations(Req)

Mixed(members, ops, overlap, crash) ==
    [members |-> members, ops |-> ops, overlap |-> overlap, crash |-> crash]

Serial(members, ops) == Mixed(members, ops, FALSE, FALSE)
CutOff(members, ops) == Mixed(members, ops, FALSE, TRUE)
Overlap(members, ops) == Mixed(members, ops, TRUE, FALSE)

AllMixes ==
    {Serial(User, Operation \ {"channel", "membership"}),
     Serial({"a"}, {"create", "read", "delete", "membership", "channel"}),
     CutOff({"a"}, {"create", "update", "delete", "pin"}),
     Overlap({"a"}, {"create", "update", "delete"}),
     Overlap({"a"}, {"create", "read", "delete"}),
     Overlap({"a"}, {"create", "delete", "pin", "unpin"}),
     Overlap({"a"}, {"read", "channel", "membership"}),
     Overlap({"a", "b"}, {"create"})}

=============================================================================
