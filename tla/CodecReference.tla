--------------------------- MODULE CodecReference ---------------------------
(***************************************************************************)
(* What a DNS message says by RFC 1035, written without a look at how      *)
(* dns-core reads it, and the properties of PacketCodec against it.        *)
(***************************************************************************)
EXTENDS PacketCodec

\* RFC 1035 4.1.4: octets that open a label, that point, and reserved ones.
OpensLabel(b) == b \in 1 .. (Octet \div 4 - 1)
Points(b) == b \div (Octet \div 4) = 3

\* What stands at some offset says v and ends before offset e, or it is wrong.
Item(v, e) == [good |-> TRUE, says |-> v, end |-> e]
No == [good |-> FALSE]

Given(item, F(_, _)) == IF item.good THEN F(item.says, item.end) ELSE No
FirstThen(v, item) == Given(item, LAMBDA vs, e : Item(<<v>> \o vs, e))

\* The name at offset p, over at most n pointers.  It ends, where it stands,
\* after its root or its first pointer.
NameAt(m, p, n) ==
    LET labels[x \in Nat \X Nat] ==
            LET q == x[1]
                left == x[2]
                b == OctetAt(m, q)
            IN  IF q >= Len(m) THEN No
                ELSE IF b = 0 THEN Item(<<>>, q + 1)
                ELSE IF Points(b) /\ left > 0 /\ q + 1 < Len(m)
                THEN Given(labels[<<PointerTo(b, OctetAt(m, q + 1)), left - 1>>],
                        LAMBDA name, e : Item(name, q + 2))
                ELSE IF OpensLabel(b) /\ q + b < Len(m)
                        /\ ToSet(Slice(m, q + 1, b)) \intersect NotUtf8 = {}
                THEN FirstThen(LowerCase(Slice(m, q + 1, b)), labels[<<q + b + 1, left>>])
                ELSE No
    IN  labels[<<p, n>>]

QuestionAt(m, p, n) ==
    Given(NameAt(m, p, n), LAMBDA name, e :
        IF e + 2 <= Len(m) THEN Item(<<name, Slice(m, e, 2)>>, e + 2) ELSE No)

\* The strings that fill offsets p to e exactly.
StringsIn(m, p, e) ==
    LET strings[q \in Nat] ==
            LET b == OctetAt(m, q)
            IN  IF q = e THEN Item(<<>>, e)
                ELSE IF q < e /\ q + b < e
                THEN FirstThen(Slice(m, q + 1, b), strings[q + b + 1])
                ELSE No
    IN  strings[p]

\* What the data of a record says: the names in it, wherever they are kept.
DataIn(m, rtype, p, e, n) ==
    CASE rtype \in {CNAME, NS} -> NameAt(m, p, n)
      [] rtype = MX /\ p < e -> FirstThen(OctetAt(m, p), NameAt(m, p + 1, n))
      [] rtype = MX /\ p >= e -> No
      [] rtype = TXT -> StringsIn(m, p, e)
      [] OTHER -> Item(Slice(m, p, e - p), e)

\* Fixed fields at f, then data that ends just before e.
RecordWith(m, name, f, e, n) ==
    IF e > Len(m) THEN No
    ELSE Given(DataIn(m, OctetAt(m, f), f + 4, e, n), LAMBDA data, end :
            IF end = e THEN Item(<<name, Slice(m, f, 3), data>>, e) ELSE No)

RecordAt(m, p, n) ==
    Given(NameAt(m, p, n), LAMBDA name, f :
        IF f + 4 <= Len(m)
        THEN RecordWith(m, name, f, f + 4 + OctetAt(m, f + 3), n) ELSE No)

AllAt(section, m, p, count, n) ==
    LET all[x \in Nat \X Nat] ==
            LET q == x[1]
                k == x[2]
            IN  IF k = 0 THEN Item(<<>>, q)
                ELSE Given(IF section = "questions" THEN QuestionAt(m, q, n) ELSE RecordAt(m, q, n),
                        LAMBDA item, e : FirstThen(item, all[<<e, k - 1>>]))
    IN  all[<<p, count>>]

\* The octets of a message with names of at most n pointers each.
Meaning(m, n) ==
    IF Len(m) < 3 THEN No
    ELSE Given(AllAt("questions", m, 3, m[1], n), LAMBDA qs, e :
         Given(AllAt("answers", m, e, m[2], n), LAMBDA as, f :
         Given(AllAt("others", m, f, m[3], n), LAMBDA os, end :
               Item([questions |-> qs, answers |-> as, others |-> os], end))))

\* Nothing in it points and all of it is text.
Plain(m) == Meaning(m, 0).good /\ ToSet(m) \intersect NotUtf8 = {}

Replies == {"from cache", "nxdomain", "zero_ip", "failure"}

-----------------------------------------------------------------------------
(* Properties                                                              *)

\* A packet has as many questions and records as the header announces, and
\* what is written from the cache announces as many again.
CodecTypeOK ==
    /\ phase \in {"received", "parsed", "refused", "panicked"} \union Replies
    /\ packet.ok = "ok" =>
          SubSeq(message.octets, 1, 3) =
              <<Len(packet.value.questions), Len(packet.value.answers), Len(packet.value.others)>>
    /\ phase \in Replies => written.word \in Nat /\ written.word < 65536
    /\ phase = "from cache" =>
          SubSeq(written.octets, 1, 3) = SubSeq(message.octets, 1, 3)

\* read_domain_name reads every name of up to MaxJumps pointers, wherever it
\* begins and wherever its pointers lead, as the RFC says.
NamesAreRead ==
    \A p \in 0 .. Len(message.octets) - 1 :
        LET name == NameAt(message.octets, p, MaxJumps)
        IN  name.good => /\ ReadName(message.octets, p).ok = "ok"
                         /\ ReadName(message.octets, p).value = name.says

\* A message of text without pointers is not refused, and what is written
\* from the cache says the same again.
PlainMessagesSurvive ==
    Plain(message.octets) =>
        /\ phase \notin {"refused", "panicked"}
        /\ phase = "from cache" => Meaning(written.octets, 0) = Meaning(message.octets, 0)

\* The bits of a word that header.rs knows: response, authoritative answer,
\* truncated, recursion desired and available.
Kept(word) == {bit \in {32768, 1024, 512, 256, 128} : (word \div bit) % 2 = 1}

\* An answer from the cache has the flags it came with, and a failure is never
\* written as a success or a success as a failure, whatever the code: resolvers
\* send codes above 5 too.
FlagsSurvive ==
    phase = "from cache" =>
        /\ Kept(written.word) = Kept(message.word)
        /\ (written.word % 16 = NoError) <=> (message.word % 16 = NoError)
        /\ (written.word \div 2048) % 16 = 0 <=> (message.word \div 2048) % 16 = 0

\* The reply to a blocked query carries the question, is a response, says
\* NXDOMAIN or gives the address 0.0.0.0 to who asks for an address, and has
\* the other sections of the query, the EDNS record among them.
BlockedRepliesAreRight ==
    phase \in {"nxdomain", "zero_ip"} /\ Plain(message.octets) =>
        LET query == Meaning(message.octets, 0).says
            reply == Meaning(written.octets, 0)
            asked == Head(query.questions)
        IN  /\ reply.good
            /\ reply.says.questions = query.questions
            /\ reply.says.others = query.others
            /\ reply.says.answers = query.answers \o
                  IF phase = "zero_ip" /\ query.questions # <<>> /\ asked[2][1] = A
                  THEN <<<<asked[1], <<A, 1, 10>>, <<0, 0, 0, 0>>>>>> ELSE <<>>
            /\ Kept(written.word) = Kept(message.word) \union {32768}
            /\ written.word % 16 = IF phase = "nxdomain" THEN NXDomain ELSE NoError

\* What a reply may be longer by than its message: the record of an address,
\* whose name is that of the first question (which ends 2 octets after its name,
\* at offset 3 at the earliest) and whose other fields are 8 octets.
Growth ==
    LET q == QuestionAt(message.octets, 3, 0)
    IN  IF phase = "zero_ip" /\ message.octets[1] > 0 /\ q.says[2][1] = A
        THEN (q.end - 2 - 3) + 8 ELSE 0

\* The length before a reply on a connection is the length of the reply, be it
\* from the cache, a failure or the answer to a blocked query, whenever the
\* message it is made from is plain and has room for the address that may be
\* added: nothing else makes the reply to a plain message longer.
FramesAreWhole ==
    phase \in Replies /\ Plain(message.octets) /\ Len(message.octets) + Growth < Frame
    => FrameLength(written) = Len(written.octets)

\* Whatever comes after it, the first question is read as it was asked: the
\* filter and the cache key see the right name.  (The first name has nothing
\* before it to point to.)
FirstQuestionIsRight ==
    LET q == QuestionAt(message.octets, 3, 0)
    IN  packet.ok = "ok" /\ packet.value.questions # <<>> /\ q.good =>
            LET first == Head(packet.value.questions)
            IN  <<first.name, <<ToU16(first.qtype), ToU16(first.qclass)>>>> = q.says

\* "pointer compression handling (RFC 1035 4.1.4)" (question.rs:104): a
\* message with pointers says the same when it is written from the cache.
CompressedMessagesSurvive ==
    LET says == Meaning(message.octets, MaxJumps)
    IN  says.good /\ phase = "from cache" =>
            /\ Meaning(written.octets, MaxJumps).good
            /\ Meaning(written.octets, MaxJumps).says = says.says
=============================================================================
