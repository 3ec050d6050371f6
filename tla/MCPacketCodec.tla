--------------------------- MODULE MCPacketCodec ---------------------------
(***************************************************************************)
(* Instances of CodecReference for TLC: octets of four bits, of which 12   *)
(* to 15 point and 4 to 11 are reserved; 10 and 11 are a letter in lower   *)
(* and in upper case, 14 is no text.  Offset 3 is the first question.      *)
(***************************************************************************)
EXTENDS CodecReference

MCReplacement == <<13, 13, 13>>

MCLowerOctet == [b \in 0 .. 15 |-> IF b = 11 THEN 10 ELSE b]

\* Root, labels, pointers to the question, into it, to themselves, to the end.
FirstNames == {<<0>>, <<1, 10, 0>>, <<1, 11, 1, 13, 0>>, <<12, 3>>, <<1, 14, 0>>}
Names == {<<0>>, <<1, 11, 0>>, <<12, 3>>, <<1, 13, 12, 5>>, <<12, 15>>}

Types == {A, CNAME, MX, TXT, NS}

\* Data that is right for some type, and wrong for the others.
Data == {<<>>, <<0>>, <<1, 10>>, <<1, 14>>, <<1, 11, 0>>, <<12, 3>>, <<3, 0>>,
         <<3, 12, 3>>, <<0, 1, 13>>, <<2, 10>>}

Question(name, type) == name \o <<type, 3>>
Record(name, type, data) == name \o <<type, 1, 9, Len(data)>> \o data

\* A question and a record or two, whole or cut off.
Whole ==
    {<<1, 1, 0>> \o Question(q, A) \o Record(n, t, d) :
        q \in FirstNames, n \in Names, t \in Types, d \in Data}
    \union
    {<<1, 1, 1>> \o Question(q, 9) \o Record(<<12, 3>>, t, d) \o Record(n, A, <<7>>) :
        q \in FirstNames, n \in Names, t \in Types, d \in Data}
    \union
    {<<2, 0, 0>> \o Question(q, MX) \o Question(n, A) : q \in FirstNames, n \in Names}

Bodies ==
    Whole \union UNION {{SubSeq(m, 1, Len(m) - cut) : cut \in 1 .. 4} : m \in Whole}

Message(word, octets) == [word |-> word, octets |-> octets]

\* Responses as resolvers send them: the name of the answer is a pointer to
\* the question.
MCResponses ==
    {Message(33152, <<1, 1, 0>> \o Question(q, A) \o Record(<<12, 3>>, t, d)) :
        q \in {<<0>>, <<1, 10, 0>>}, t \in Types, d \in Data}

\* A query and a response with all bodies; every word, its three bits that
\* nobody reads all clear or all set, with one body.
MCMessages ==
    {Message(word, m) : word \in {256, 33152}, m \in Bodies}
    \union
    {Message(high * 256 + ra + z + rcode, <<1, 0, 0>> \o Question(<<1, 10, 0>>, A)) :
        high \in 0 .. 255, ra \in {0, 128}, z \in {0, 112}, rcode \in 0 .. 15}
=============================================================================
