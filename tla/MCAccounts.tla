----------------------------- MODULE MCAccounts -----------------------------
(***************************************************************************)
(* An instance of Accounts for TLC: two addresses that suggest the same    *)
(* user name, and one subject of one provider.                             *)
(***************************************************************************)
EXTENDS Accounts, TLC

Symmetry == Permutations(Req)

SameBase == [e \in Email |-> "n"]

Mixed(ops, overlap, crash) == [ops |-> ops, overlap |-> overlap, crash |-> crash]

Letters == {"register", "verify", "resend"}
Callbacks == {"start", "callback"}

AllMixes ==
    {Mixed(Letters \cup Callbacks \cup {"delete", "expire"}, FALSE, FALSE),
     Mixed(Letters \cup Callbacks \cup {"suspend"}, FALSE, FALSE),
     Mixed(Letters \cup Callbacks \cup {"delete"}, FALSE, TRUE),
     Mixed({"register", "profile", "suspend", "delete"}, FALSE, FALSE),
     Mixed({"register", "profile"} \cup Callbacks, FALSE, TRUE),
     Mixed({"register", "profile", "delete"}, TRUE, FALSE),
     Mixed(Letters \cup {"delete"}, TRUE, FALSE),
     Mixed({"register", "verify"} \cup Callbacks, TRUE, FALSE)}

=============================================================================
