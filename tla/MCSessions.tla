----------------------------- MODULE MCSessions -----------------------------
(***************************************************************************)
(* An instance of Sessions for TLC: single requests of two accounts, and   *)
(* requests of one account that overlap or are cut off.                    *)
(***************************************************************************)
EXTENDS Sessions, TLC

Symmetry == Permutations(Req)

\* Who may call what, and how.
Serial(ops, callers) ==
    [ops |-> ops, callers |-> callers, overlap |-> FALSE, crash |-> FALSE]
CutOff(ops) == [ops |-> ops, callers |-> {"a"}, overlap |-> FALSE, crash |-> TRUE]
Overlap(ops) == [ops |-> ops, callers |-> {"a"}, overlap |-> TRUE, crash |-> FALSE]

AllMixes ==
    {Serial({"login", "logout", "refresh", "revoke", "others", "forgot", "reset",
             "change"}, User),
     Serial({"login", "refresh", "change"} \cup Administration, {"a"}),
     Serial({"login", "refresh", "select"}, {"a"}),
     CutOff({"login", "refresh", "forgot", "reset"}),
     CutOff({"login", "refresh", "select"}),
     Overlap({"login", "refresh", "change", "others"}),
     Overlap({"login", "refresh"} \cup Administration)}

=============================================================================
