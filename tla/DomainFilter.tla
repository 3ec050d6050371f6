---------------------------- MODULE DomainFilter ----------------------------
(***************************************************************************)
(* The filter of dns-core (filter/trie.rs, filter/engine.rs): two tries    *)
(* that lists are loaded into and names are looked up in.  Module          *)
(* ServerStartup says which lists are loaded, and when.                    *)
(*                                                                         *)
(* A name is a sequence of labels, the top-level domain last.  A line of a *)
(* list is known by what insert_rule looks at: whether it starts with "@@",*)
(* the marker before the name, the name, and what follows the name.  A     *)
(* name that keeps characters no query has, such as "com^", is a name with *)
(* one more label; the tail "=text" stands for a "=" in what is taken for  *)
(* the name, or a "/" before it.  Of a hosts line only the first name is   *)
(* read: a second one is among the " words" that follow.  A list is the    *)
(* set of its lines: each line only adds to a set, whatever came before.   *)
(* exact_matches and wildcard_matches always hold the same names, so a     *)
(* DomainTrie is one set.                                                  *)
(***************************************************************************)
EXTENDS Naturals, Sequences, SequencesExt

CONSTANTS
    Labels,     \* labels of names, and the star of a wildcard
    Names,      \* names that are queried
    Lines       \* lines that may stand in a list

Markers == {"||", "address", "none"}   \* "address": 0.0.0.0 or 127.0.0.1
Tails == {"", "^", "$options", "^$options", ".", " words", "=text"}

\* A comment has no name.  "*" may be the first label.
ASSUME LinesAssumption ==
    /\ Names \subseteq Seq(Labels)
    /\ Lines \subseteq [exception : BOOLEAN, comment : BOOLEAN,
                        marker : Markers, name : Seq(Labels), tail : Tails]

VARIABLES
    blocklist,  \* the two tries
    allowlist,
    read        \* history: lines read from lists of each kind

filterVars == <<blocklist, allowlist, read>>

-----------------------------------------------------------------------------
(* insert_rule                                                             *)

\* trim_start_matches("*."): all leading stars, but never the last label.
Unstarred(n) ==
    LET stars == {0} \union {i \in 1 .. Len(n) - 1 : \A j \in 1 .. i : n[j] = "*"}
        most == CHOOSE i \in stars : \A j \in stars : j <= i
    IN  SubSeq(n, most + 1, Len(n))

\* The part of the line that is taken for a name.
RuleText(l) ==
    IF l.marker = "||"
    THEN l.name
    ELSE IF l.marker = "address"
    THEN IF l.tail \in {"", ".", " words"} THEN l.name
         ELSE Append(l.name, l.tail)
    ELSE IF l.tail \in {"", "."} THEN Unstarred(l.name)
         ELSE Append(Unstarred(l.name), l.tail)

\* Text with a blank or a "=" in it, or a "/" in front, is no rule.
Misshapen(l) == l.tail = "=text" \/ (l.tail = " words" /\ l.marker # "address")

\* Mistake: the check for an empty rule is forgotten.
InsertedUnchecked(l) == IF l.comment \/ Misshapen(l) THEN {} ELSE {RuleText(l)}

\* Nor is a comment or an empty line.
Inserted(l) ==
    IF l.comment \/ RuleText(l) = <<>> \/ Misshapen(l) THEN {} ELSE {RuleText(l)}

\* Mistake: the first parent is passed over.
MatchesAbove(trie, n) ==
    \/ n \in trie
    \/ \E i \in 3 .. Len(n) : SubSeq(n, i, Len(n)) \in trie

\* matches(): the name itself, then each parent.
Matches(trie, n) ==
    \/ n \in trie
    \/ \E i \in 2 .. Len(n) : SubSeq(n, i, Len(n)) \in trie

\* Mistake: the block list is asked first.
EvaluateBlocksFirst(n) ==
    IF Matches(blocklist, n) THEN "Blocked"
    ELSE IF Matches(allowlist, n) THEN "AllowListMatched" ELSE "Allowed"

\* evaluate()
Evaluate(n) ==
    IF Matches(allowlist, n) THEN "AllowListMatched"
    ELSE IF Matches(blocklist, n) THEN "Blocked" ELSE "Allowed"

-----------------------------------------------------------------------------
(* Loading                                                                 *)

Rules(lines) == UNION {Inserted(l) : l \in lines}

\* A line of a block list with "@@" goes to the allow list.
LoadBlocklistContent(content) ==
    /\ blocklist' = blocklist \union Rules({l \in content : ~l.exception})
    /\ allowlist' = allowlist \union Rules({l \in content : l.exception})
    /\ read' = [read EXCEPT !.block = @ \union content]

\* Every line of an allow list is an exception, with or without "@@".
LoadAllowlistContent(content) ==
    /\ allowlist' = allowlist \union Rules(content)
    /\ read' = [read EXCEPT !.allow = @ \union content]
    /\ UNCHANGED blocklist

FilterInit ==
    /\ blocklist = {} /\ allowlist = {}
    /\ read = [block |-> {}, allow |-> {}]

FilterNext ==
    \E content \in SUBSET Lines :
        LoadBlocklistContent(content) \/ LoadAllowlistContent(content)

FilterSpec == FilterInit /\ [][FilterNext]_filterVars

-----------------------------------------------------------------------------
(* What the author of a list means, said of the lines and not of the code  *)

\* Lines in one of the forms insert_rule documents (trie.rs:22-25): a raw
\* domain, a hosts line (a note after the name does not count), an AdGuard
\* rule with or without options, a wildcard with its stars in front.
WellFormed(l) ==
    /\ ~l.comment /\ l.name # <<>> /\ Last(l.name) # "*"
    /\ \A i, j \in DOMAIN l.name : i < j /\ l.name[j] = "*" => l.name[i] = "*"
    /\ l.marker = "none" => l.tail \in {"", "."}
    /\ l.marker = "address" => l.tail \in {"", ".", " words"} /\ l.name[1] # "*"
    /\ l.marker = "||" => l.tail \notin {" words", "=text"} /\ l.name[1] # "*"

\* The domain a line is about, and everything below it: label for label from
\* the top-level domain down, as far as the line has any but stars.
Covers(l, n) ==
    /\ WellFormed(l)
    /\ \A i \in DOMAIN l.name : l.name[i] # "*" =>
          LET j == Len(n) - Len(l.name) + i IN j \in DOMAIN n /\ n[j] = l.name[i]

Exceptions == {l \in read.block : l.exception} \union read.allow
Blocks == {l \in read.block : ~l.exception}

\* Types: the tries hold names, never the empty one that would stand for all.
FilterTypeOK ==
    /\ blocklist \subseteq Seq(Labels \union Tails) \ {<<>>}
    /\ allowlist \subseteq Seq(Labels \union Tails) \ {<<>>}
    /\ read.block \subseteq Lines /\ read.allow \subseteq Lines

\* The verdict on every name is what the lines read so far mean, exceptions
\* above blocks wherever they stand, in whatever order the lists came; a line
\* in a form that is not supported changes no verdict.
VerdictsFollowTheLists ==
    \A n \in Names :
        /\ Evaluate(n) = "AllowListMatched" <=> \E l \in Exceptions : Covers(l, n)
        /\ Evaluate(n) = "Blocked" <=>
              /\ \E l \in Blocks : Covers(l, n)
              /\ ~ \E l \in Exceptions : Covers(l, n)

\* "Entries here override all blocklist rules" (allowlists/custom-allowlist.txt):
\* once an exception has been read no list read after it takes it back, and no
\* list unblocks a name except by an exception.
ExceptionsStand ==
    [][\A n \in Names :
          /\ Evaluate(n) = "AllowListMatched" => Evaluate(n)' = "AllowListMatched"
          /\ Evaluate(n) = "Blocked" => Evaluate(n)' # "Allowed"]_filterVars
=============================================================================
