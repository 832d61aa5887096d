---------------------------- MODULE ChannelNames ----------------------------
(***************************************************************************)
(* normalizeChannelName: what becomes of the name a client sends.  There   *)
(* is one character of each class that its regular expressions tell apart: *)
(* letters, a capital, the hyphen, the two kinds of separator (only blanks *)
(* are trimmed, underscores are not), and one that is dropped.             *)
(***************************************************************************)
EXTENDS Naturals, SequencesExt

CONSTANT MaxLength  \* bound: the longest name that is sent

Letters == {"a", "b"}
Separators == {" ", "_"}
Char == Letters \cup Separators \cup {"A", "-", "!"}

VARIABLE name  \* a name as a client sends it

\* The handler throws CHANNEL_NAME_INVALID: no character, so no name.
Invalid == <<"INVALID">>

\* Every name there is to send, up to the bound.
SentNames == BoundedSeq(Char, MaxLength)

Pick(s, indices) ==
    LET order == SetToSortSeq(indices, <) IN [k \in DOMAIN order |-> s[order[k]]]

\* One character in place of a run of characters of the class.
Squeeze(s, class) ==
    Pick(s, {i \in DOMAIN s : i = 1 \/ ~({s[i - 1], s[i]} \subseteq class)})

Replace(s, class, new) == [i \in DOMAIN s |-> IF s[i] \in class THEN new ELSE s[i]]

Trim(s) ==
    LET solid == {i \in DOMAIN s : s[i] # " "}
    IN  Pick(s, {i \in DOMAIN s : \E j, k \in solid : j <= i /\ i <= k})

Lower(s) == Replace(s, {"A"}, "a")

DropOthers(s) == SelectSeq(s, LAMBDA ch : ch \in Letters \cup {"-"})

\* One hyphen at either end: replace(/^-|-$/g, '').
StripEnds(s) ==
    Pick(s, {i \in DOMAIN s : i \in {1, Len(s)} => s[i] # "-"})

\* Mutant: leaves capitals to DropOthers.  (NamesNormalize)
NormalizeSmallLetters(s) ==
    StripEnds(Squeeze(DropOthers(Replace(Squeeze(Trim(s), Separators),
                                         Separators, "-")), {"-"}))

\* Mutant: squeezes hyphens before it drops characters.  (NamesNormalize)
SqueezeThenDrop(s) ==
    StripEnds(DropOthers(Squeeze(Replace(Squeeze(Trim(Lower(s)), Separators),
                                         Separators, "-"), {"-"})))

\* Mutant: throws for the name that comes in empty, not for the one that comes
\* out empty.  (NamesNormalize)
ThrowOnEmptyInput(s) ==
    IF s = <<>> THEN Invalid
    ELSE StripEnds(Squeeze(DropOthers(Replace(Squeeze(Lower(Trim(s)), Separators),
                                              Separators, "-")), {"-"}))

NormalizeChannelName(s) ==
    LET normalized ==
          StripEnds(Squeeze(DropOthers(Replace(Squeeze(Lower(Trim(s)), Separators),
                                               Separators, "-")), {"-"}))
    IN  IF normalized = <<>> THEN Invalid ELSE normalized

-----------------------------------------------------------------------------

\* The name a reader expects: the letters in order and in lower case, with a
\* hyphen between two of them if the client put any separator or hyphen there.
Slug(s) ==
    LET kept == SetToSortSeq({i \in DOMAIN s : s[i] \in Letters \cup {"A"}}, <)
        apart(k) == /\ k > 1
                    /\ \E i \in kept[k - 1]..kept[k] : s[i] \in Separators \cup {"-"}
    IN  FlattenSeq([k \in DOMAIN kept |->
                      (IF apart(k) THEN <<"-">> ELSE <<>>) \o Lower(<<s[kept[k]]>>)])

\* The chain of replacements in normalizeChannelName computes that name, and a
\* stored name that is sent back stays as it is, so that a channel is found
\* under the name it was given: the unique index compares normalised names.  A
\* name is refused exactly if it has no letter, so none is stored empty.
NamesNormalize ==
    LET stored == NormalizeChannelName(name)
    IN  IF \A i \in DOMAIN name : name[i] \notin Letters \cup {"A"}
        THEN stored = Invalid
        ELSE stored = Slug(name) /\ NormalizeChannelName(stored) = stored

=============================================================================
