---------------------------- MODULE MCTwoFactor -----------------------------
(***************************************************************************)
(* An instance of TwoFactor for TLC: requests that complete one by one,    *)
(* requests that are cut off, and requests that overlap.                   *)
(***************************************************************************)
EXTENDS TwoFactor, TLC

Symmetry == Permutations(Slot) \cup Permutations(Req)

Mixed(ops, overlap, crash) == [ops |-> ops, overlap |-> overlap, crash |-> crash]

AllMixes == {Mixed(Operation, FALSE, FALSE), Mixed(Operation, FALSE, TRUE),
             Mixed({"enable", "confirm", "disable", "regenerate"}, TRUE, FALSE),
             Mixed({"enable", "confirm", "login", "verify", "regenerate"}, TRUE, FALSE)}

=============================================================================
