----------------------------- MODULE MCChannels -----------------------------
(***************************************************************************)
(* Instances of Channels for TLC.  "o" is the founder, gen is #general.    *)
(*                                                                         *)
(* The names in Channels are normalised ones, and ChannelNames says how a  *)
(* name a client sends becomes one.  The two share no state, so a run      *)
(* checks the channels in the behaviours with the empty name, and one name *)
(* in each of the others, which stay at their initial state.               *)
(***************************************************************************)
EXTENDS Channels, ChannelNames, TLC

\* Requests, row ids and the channels beside #general are interchangeable.
Symmetry ==
    Permutations(Req) \cup Permutations(RowId) \cup Permutations(Chan \ {General})

InitWithName == Init /\ name \in SentNames

NextWithName ==
    /\ \/ name = <<>> /\ Next
       \/ name # <<>> /\ UNCHANGED vars
    /\ UNCHANGED name

SpecWithName == InitWithName /\ [][NextWithName]_<<vars, name>>

=============================================================================
