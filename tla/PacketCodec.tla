----------------------------- MODULE PacketCodec -----------------------------
(***************************************************************************)
(* DNS messages as octets: what DnsPacket::parse makes of a message and    *)
(* what to_bytes makes of the packet (dns-core/src/protocol), next to what *)
(* the message says by RFC 1035.  The server parses every message and      *)
(* writes a packet again when it answers from the cache.                   *)
(*                                                                         *)
(* A message is its flags, a word of 16 bits as in the code, and octets on *)
(* a smaller scale: an octet has Octet values (256), two of its bits mark  *)
(* a pointer; the counts of the header, a question's type and class and a  *)
(* record's type, class, ttl and length take an octet each, and the length *)
(* before a message on a connection has Frame values (2^16).  Authorities  *)
(* and additionals, read and written one after the other by the same code, *)
(* are one section, "others".  A and AAAA data are kept as octets, like    *)
(* that of types the code does not know.  Labels have no dot inside, and a *)
(* name is the sequence of its labels, not their text.                     *)
(***************************************************************************)
EXTENDS Naturals, Sequences, SequencesExt

CONSTANTS
    Octet,       \* values of an octet
    MaxJumps,    \* pointers read_domain_name follows
    LowerOctet,  \* [octet -> its lower case]
    NotUtf8,     \* octets that make a label or string no text
    Replacement, \* what from_utf8_lossy puts for one of them
    Frame,       \* values of the length before a message
    A, CNAME, MX, TXT, NS,   \* record types; every other is opaque
    Messages     \* messages considered

ASSUME CodecAssumption ==
    /\ Octet \in Nat /\ Octet >= 4
    /\ MaxJumps \in Nat /\ Frame \in Nat
    /\ LowerOctet \in [0 .. Octet - 1 -> 0 .. Octet - 1]

\* Lower case is lower case already, and of a text it is a text; what
\* from_utf8_lossy puts in is octets.
ASSUME TextAssumption ==
    /\ \A b \in 0 .. Octet - 1 :
          /\ LowerOctet[LowerOctet[b]] = LowerOctet[b]
          /\ b \notin NotUtf8 => LowerOctet[b] \notin NotUtf8
    /\ Replacement \in Seq(0 .. Octet - 1)

\* Types differ, and the class, ttl and length of the record made for a blocked
\* name have room in their fields.
ASSUME RecordAssumption ==
    /\ {A, CNAME, MX, TXT, NS} \subseteq 0 .. Octet - 1
    /\ A \notin {CNAME, MX, TXT, NS} /\ CNAME \notin {MX, TXT, NS}
    /\ MX \notin {TXT, NS} /\ TXT # NS
    /\ Octet > 10

\* A message is too short for as many records, of 5 octets or more, as a count
\* can announce: in 2^16 octets there are no 2^16 - 1 records of 11 or more.
ASSUME MessageAssumption ==
    \A m \in Messages :
        /\ m.word \in Nat /\ m.word < 65536
        /\ m.octets \in Seq(0 .. Octet - 1) /\ Len(m.octets) < 5 * (Octet - 1)

VARIABLES
    message,     \* octets that were received
    packet,      \* what DnsPacket::parse made of them
    written,     \* the reply to_bytes made of the packet
    phase        \* what became of the message

vars == <<message, packet, written, phase>>

\* Offsets count from zero, as a Cursor does.
OctetAt(m, p) == m[p + 1]
Slice(m, p, n) == SubSeq(m, p + 1, p + n)
Has(m, p, n) == p + n <= Len(m)

Ok(value, next) == [ok |-> "ok", value |-> value, next |-> next]
Err == [ok |-> "err"]
Panic == [ok |-> "panic"]

\* The "?" of the code: go on with what was read and where it ended, or end.
Then(r, GoOn(_, _)) == IF r.ok = "ok" THEN GoOn(r.value, r.next) ELSE r

\* Value v has been read before rest.
Before(v, rest) == Then(rest, LAMBDA value, next : Ok(<<v>> \o value, next))

-----------------------------------------------------------------------------
(* The flags                                                               *)

\* 3 stands for every reserved opcode.
Opcode(v) == IF v <= 2 THEN v ELSE 3

NoError == 0
ServFail == 2
NXDomain == 3

\* Mistake: what is not known is no error.
ResponseCodeLenient(v) == IF v <= 5 THEN v ELSE NoError

\* A code that is not known is a failure of the server.
ResponseCode(v) == IF v <= 5 THEN v ELSE ServFail

IsSet(word, bit) == (word \div bit) % 2 = 1

\* The Z, AD and CD bits are not looked at.
ReadFlags(word) ==
    [is_response |-> IsSet(word, 32768), opcode |-> Opcode((word \div 2048) % 16),
     authoritative_answer |-> IsSet(word, 1024), truncated |-> IsSet(word, 512),
     recursion_desired |-> IsSet(word, 256), recursion_available |-> IsSet(word, 128),
     rcode |-> ResponseCode(word % 16)]

WriteFlags(h) ==
    LET Put(flag, bit) == IF flag THEN bit ELSE 0
    IN  Put(h.is_response, 32768) + h.opcode * 2048
        + Put(h.authoritative_answer, 1024) + Put(h.truncated, 512)
        + Put(h.recursion_desired, 256) + Put(h.recursion_available, 128) + h.rcode

-----------------------------------------------------------------------------
(* Types and classes: what is not known keeps its number                   *)

QueryType(v) == [known |-> v \in {A, CNAME, MX, TXT, NS}, number |-> v]
QueryClass(v) == [known |-> v = 1, number |-> v]
ToU16(e) == e.number

-----------------------------------------------------------------------------
(* Reading                                                                 *)

\* Mistake: one tag value is taken for a length.
IsPointerAbove(b) == b > (Octet \div 4) * 3

\* The top two bits are set.
IsPointer(b) == b >= (Octet \div 4) * 3

PointerTo(b1, b2) == (b1 % (Octet \div 4)) * Octet + b2

LowerCase(label) == [i \in DOMAIN label |-> LowerOctet[label[i]]]

\* The cursor stays where the last pointer led.
ReadName(m, start) ==
    LET read[x \in Nat \X Nat] ==
            LET p == x[1]
                jumps == x[2]
                b == OctetAt(m, p)
                label == Slice(m, p + 1, b)
            IN  IF jumps > MaxJumps \/ ~Has(m, p, 1) THEN Err
                ELSE IF b = 0 THEN Ok(<<>>, p + 1)
                ELSE IF IsPointer(b)
                THEN IF Has(m, p, 2)
                     THEN read[<<PointerTo(b, OctetAt(m, p + 1)), jumps + 1>>]
                     ELSE Err
                ELSE IF Has(m, p + 1, b) /\ ToSet(label) \intersect NotUtf8 = {}
                     THEN Before(LowerCase(label), read[<<p + 1 + b, jumps>>])
                     ELSE Err
    IN  read[<<start, 0>>]

\* Mistake: class before type.
ReadQuestionSwapped(m, start) ==
    Then(ReadName(m, start), LAMBDA name, p :
        IF Has(m, p, 2)
        THEN Ok([name |-> name, qtype |-> QueryType(OctetAt(m, p + 1)),
                 qclass |-> QueryClass(OctetAt(m, p))], p + 2)
        ELSE Err)

ReadQuestion(m, start) ==
    Then(ReadName(m, start), LAMBDA name, p :
        IF Has(m, p, 2)
        THEN Ok([name |-> name, qtype |-> QueryType(OctetAt(m, p)),
                 qclass |-> QueryClass(OctetAt(m, p + 1))], p + 2)
        ELSE Err)

\* from_utf8_lossy()
LossyText(s) ==
    FlattenSeq([i \in DOMAIN s |-> IF s[i] \in NotUtf8 THEN Replacement ELSE <<s[i]>>])

\* Mistake: the length octets of the strings are not counted.
ReadStringsUncounted(m, start, length) ==
    LET read[x \in Nat \X Nat] ==
            LET p == x[1]
                done == x[2]
                n == OctetAt(m, p)
            IN  IF done >= length THEN Ok(<<>>, p)
                ELSE IF ~Has(m, p, 1) \/ ~Has(m, p + 1, n) THEN Panic
                ELSE Before(LossyText(Slice(m, p + 1, n)), read[<<p + 1 + n, done + n>>])
    IN  read[<<start, 0>>]

\* get_u8 and copy_to_slice panic at the end of the message.
ReadStrings(m, start, length) ==
    LET read[x \in Nat \X Nat] ==
            LET p == x[1]
                done == x[2]
                n == OctetAt(m, p)
            IN  IF done >= length THEN Ok(<<>>, p)
                ELSE IF ~Has(m, p, 1) \/ ~Has(m, p + 1, n) THEN Panic
                ELSE Before(LossyText(Slice(m, p + 1, n)), read[<<p + 1 + n, done + 1 + n>>])
    IN  read[<<start, 0>>]

\* Only opaque data and strings look at the length.
ReadData(m, rtype, p, length) ==
    CASE rtype = CNAME -> ReadName(m, p)
      [] rtype = MX /\ length >= 2 -> Before(OctetAt(m, p), ReadName(m, p + 1))
      [] rtype = TXT -> ReadStrings(m, p, length)
      [] OTHER -> Ok(Slice(m, p, length), p + length)

ReadRecord(m, start) ==
    Then(ReadName(m, start), LAMBDA name, p :
        IF ~Has(m, p, 4) \/ ~Has(m, p + 4, OctetAt(m, p + 3)) THEN Err
        ELSE Then(ReadData(m, OctetAt(m, p), p + 4, OctetAt(m, p + 3)),
                  LAMBDA rdata, next :
                      Ok([name |-> name, rtype |-> QueryType(OctetAt(m, p)),
                          rclass |-> QueryClass(OctetAt(m, p + 1)), ttl |-> OctetAt(m, p + 2),
                          short |-> OctetAt(m, p + 3) < 2, rdata |-> rdata], next)))

ReadItem(section, m, p) ==
    IF section = "questions" THEN ReadQuestion(m, p) ELSE ReadRecord(m, p)

\* n items, each read where the one before it ended.
ReadAll(section, m, start, n) ==
    LET read[x \in Nat \X Nat] ==
            LET p == x[1]
                k == x[2]
            IN  IF k = 0 THEN Ok(<<>>, p)
                ELSE Then(ReadItem(section, m, p),
                          LAMBDA item, next : Before(item, read[<<next, k - 1>>]))
    IN  read[<<start, n>>]

\* Mistake: two counts of the header are mixed up.
CountMixedUp(m, section) ==
    OctetAt(m, CASE section = "questions" -> 0 [] section = "answers" -> 2 [] OTHER -> 1)

Count(m, section) ==
    OctetAt(m, CASE section = "questions" -> 0 [] section = "answers" -> 1 [] OTHER -> 2)

ReadPacket(word, m) ==
    IF ~Has(m, 0, 3) THEN Err
    ELSE Then(ReadAll("questions", m, 3, Count(m, "questions")), LAMBDA qs, p :
         Then(ReadAll("answers", m, p, Count(m, "answers")), LAMBDA as, q :
         Then(ReadAll("others", m, q, Count(m, "others")), LAMBDA os, next :
              Ok([header |-> ReadFlags(word), questions |-> qs,
                  answers |-> as, others |-> os], next))))

-----------------------------------------------------------------------------
(* Writing: no pointers, and the counts are those of the packet            *)

WithLength(s) == <<Len(s) % Octet>> \o s

WriteName(name) ==
    FlattenSeq([i \in DOMAIN name |-> WithLength(name[i])]) \o <<0>>

WriteQuestion(q) == WriteName(q.name) \o <<ToU16(q.qtype), ToU16(q.qclass)>>

DataOf(r) ==
    CASE ToU16(r.rtype) = CNAME -> WriteName(r.rdata)
      [] ToU16(r.rtype) = MX /\ ~r.short -> <<Head(r.rdata)>> \o WriteName(Tail(r.rdata))
      [] ToU16(r.rtype) = TXT -> FlattenSeq([i \in DOMAIN r.rdata |-> WithLength(r.rdata[i])])
      [] OTHER -> r.rdata

WriteRecord(r) ==
    WriteName(r.name) \o <<ToU16(r.rtype), ToU16(r.rclass), r.ttl>> \o WithLength(DataOf(r))

WriteAll(records) == FlattenSeq([i \in DOMAIN records |-> WriteRecord(records[i])])

ToBytes(pk) ==
    [word |-> WriteFlags(pk.header),
     octets |->
        <<Len(pk.questions) % Octet, Len(pk.answers) % Octet, Len(pk.others) % Octet>>
        \o FlattenSeq([i \in DOMAIN pk.questions |-> WriteQuestion(pk.questions[i])])
        \o WriteAll(pk.answers) \o WriteAll(pk.others)]

\* Mistake: the length goes into one octet.
FrameLengthShort(m) == Len(m.octets) % Octet

\* The length written before a message on a connection.
FrameLength(m) == Len(m.octets) % Frame

\* Mistake: an address for every type.
NoAddressForAny(pk) ==
    IF pk.questions = <<>> THEN <<>>
    ELSE <<[name |-> Head(pk.questions).name, rtype |-> QueryType(A), rclass |-> QueryClass(1),
            ttl |-> 10, short |-> FALSE, rdata |-> <<0, 0, 0, 0>>]>>

\* The answer 0.0.0.0, if an address was asked for.
NoAddress(pk) ==
    IF pk.questions = <<>> \/ ToU16(Head(pk.questions).qtype) # A THEN <<>>
    ELSE <<[name |-> Head(pk.questions).name, rtype |-> QueryType(A), rclass |-> QueryClass(1),
            ttl |-> 10, short |-> FALSE, rdata |-> <<0, 0, 0, 0>>]>>

Response(pk, rcode, answers) ==
    [pk EXCEPT !.header.is_response = TRUE, !.header.rcode = rcode,
               !.answers = @ \o answers]

-----------------------------------------------------------------------------
(* A message comes in and is parsed.  If it came from an upstream it is    *)
(* written again from the cache; if it came from a client it may be        *)
(* written with the verdict of the filter or as a failure.                 *)

Init ==
    /\ message \in Messages
    /\ packet = Err
    /\ written = <<>>
    /\ phase = "received"

Parse ==
    /\ phase = "received"
    /\ packet' = ReadPacket(message.word, message.octets)
    /\ phase' = CASE packet'.ok = "ok" -> "parsed"
                  [] packet'.ok = "err" -> "refused"
                  [] OTHER -> "panicked"
    /\ UNCHANGED <<message, written>>

Write(pk, as) ==
    /\ phase = "parsed" /\ phase' = as
    /\ written' = ToBytes(pk)
    /\ UNCHANGED <<message, packet>>

Serialise == Write(packet.value, "from cache")

BuildBlockedResponse ==
    \/ Write(Response(packet.value, NXDomain, <<>>), "nxdomain")
    \/ Write(Response(packet.value, NoError, NoAddress(packet.value)), "zero_ip")

\* On a connection, when every upstream has failed.
BuildFailure == Write(Response(packet.value, ServFail, <<>>), "failure")

Next == Parse \/ Serialise \/ BuildBlockedResponse \/ BuildFailure

Spec == Init /\ [][Next]_vars
=============================================================================
