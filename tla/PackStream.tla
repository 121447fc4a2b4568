----------------------------- MODULE PackStream -----------------------------
(***************************************************************************)
(* How parsePush finds its way through the body of a push                  *)
(* (internal/chain/parsepush.go): the pkt-lines up to the flush packet,    *)
(* the pack's signature, and the pack's objects, whose ends only the       *)
(* headers and the compressed streams themselves tell.                     *)
(*                                                                         *)
(* A body is what a client encoded, with something that is no pkt-line     *)
(* after its lines, without a pack (a push that only deletes), or cut      *)
(* short.  Of the lines it matters only which name a branch; what they and *)
(* the commits say, and the other ways to refuse them, are left out.       *)
(***************************************************************************)
EXTENDS Integers, Sequences, FiniteSets, SequencesExt

CONSTANTS
    Bodies,         \* the bodies to parse, see Body
    ShaLength,      \* bytes of an object id (20)
    MaxObjectSize   \* limit on an inflated object

packetSize == 4
NotHex == 16        \* a character that is no hexadecimal digit
Char == 0..NotHex   \* a digit, of either case, by its value
Flush == <<0, 0, 0, 0>>
packSignature == <<NotHex, 10, 12, NotHex>>

ObjectTypes == {"commit", "tree", "blob", "tag", "ofs_delta", "ref_delta", "unknown"}

\* A byte of the pack: its continuation bit, its type bits, and whether it can
\* stand in a compressed stream, which one byte ends.
Byte == [more : BOOLEAN, typeName : ObjectTypes, zlib : {"no", "inside", "end"}]

\* An object: further bytes of its size, bytes of a delta's offset, and of its
\* compressed stream, each of which inflates to one unit of data.
Object == [typeName : ObjectTypes, size : Nat, base : Nat \ {0}, stream : Nat \ {0}]

\* What was sent: lines, what follows them, and perhaps a pack that claims a
\* number of objects and has lost some bytes at its end.
Body == [lines : Seq(Seq(Char)), tail : Seq(Char), pack : BOOLEAN,
         objects : Seq(Object), claimed : Nat, lost : Nat]

ASSUME PackAssumption ==
    /\ ShaLength \in Nat \ {0} /\ MaxObjectSize \in Nat \ {0}
    /\ Bodies \subseteq Body

-----------------------------------------------------------------------------
(* What a client encodes *)

Hex4(n) == <<(n \div 4096) % 16, (n \div 256) % 16, (n \div 16) % 16, n % 16>>

\* parseHex16, what Hex4 encodes.
HexValue(s) == ((s[1] * 16 + s[2]) * 16 + s[3]) * 16 + s[4]

EncodeLine(payload) == Hex4(Len(payload) + packetSize) \o payload

\* A number in n bytes, all but the last with the continuation bit.
Varint(n, typeName) == [i \in 1..n |-> [more |-> i < n, typeName |-> typeName, zlib |-> "no"]]

EncodeObject(object) ==
    Varint(object.size + 1, object.typeName)
    \o (CASE object.typeName = "ofs_delta" -> Varint(object.base, "commit")
          [] object.typeName = "ref_delta" -> Varint(ShaLength, "commit")
          [] OTHER -> <<>>)
    \o [i \in 1..object.stream |->
           [more |-> FALSE, typeName |-> "commit",
            zlib |-> IF i < object.stream THEN "inside" ELSE "end"]]

EncodeLines(payloads) == FlattenSeq([i \in DOMAIN payloads |-> EncodeLine(payloads[i])])
EncodeObjects(packed) == FlattenSeq([i \in DOMAIN packed |-> EncodeObject(packed[i])])

\* The pack's checksum, which is taken not to look like a compressed stream.
Trailer == [i \in 1..ShaLength |-> [more |-> FALSE, typeName |-> "unknown", zlib |-> "no"]]

\* A line that names a branch holds the one character that is no digit.
NamesBranch(line) == \E i \in DOMAIN line : line[i] = NotHex
OneRefUpdate(payloads) == Cardinality({i \in DOMAIN payloads : NamesBranch(payloads[i])}) = 1

\* What is in buf: the lines, what follows them, and the signature of a pack.
Ending(b) == b.tail \o (IF b.pack THEN packSignature ELSE <<>>)

\* What four digits can count.
LengthLimit == 65536

\* A pkt-line is shorter than that.  Whatever follows the lines is no further line,
\* and no signature is in it but the pack's.
ASSUME BodiesAssumption ==
    \A b \in Bodies :
        /\ \A i \in DOMAIN b.lines : Len(b.lines[i]) + packetSize < LengthLimit
        /\ \A i \in DOMAIN b.tail : i > packetSize => b.tail[i] # NotHex
        /\ LET rest == Ending(b) IN
           \/ Len(rest) < packetSize
           \/ \E i \in 1..packetSize : rest[i] = NotHex
           \/ HexValue(rest) < packetSize
           \/ HexValue(rest) > Len(rest)

VARIABLES
    body,       \* what was sent
    buf,        \* its body up to the pack's signature
    contentBuf, \* the bytes after the pack's header
    reading,    \* "lines", "signature", "objects", "parsed" or "failed"
    offset,     \* bytes consumed of buf or, once objects are read, of contentBuf
    lines,      \* the pkt-lines read
    objects     \* the types of the objects read

input == <<body, buf, contentBuf>>
parserVars == <<input, reading, offset, lines, objects>>

ParserTypeOK ==
    /\ body \in Body /\ buf \in Seq(Char) /\ contentBuf \in Seq(Byte)
    /\ reading \in {"lines", "signature", "objects", "parsed", "failed"}
    /\ offset \in 0..(IF reading \in {"lines", "signature"} THEN Len(buf) ELSE Len(contentBuf))
    /\ lines \in Seq(Seq(Char))
    /\ objects \in Seq(ObjectTypes) /\ Len(objects) <= body.claimed

ParserInit ==
    /\ body \in Bodies
    /\ buf = EncodeLines(body.lines) \o Ending(body)
    /\ LET whole == EncodeObjects(body.objects) \o Trailer IN
       contentBuf = SubSeq(whole, 1, Len(whole) - body.lost)
    /\ reading = "lines"
    /\ offset = 0
    /\ lines = <<>>
    /\ objects = <<>>

Fail ==
    /\ reading' = "failed"
    /\ offset' = 0
    /\ UNCHANGED <<input, lines, objects>>

-----------------------------------------------------------------------------
(* parsePacketLines *)

\* Four characters are left.
PacketLeft == reading = "lines" /\ offset + packetSize <= Len(buf)

Digit(i) == buf[offset + i]
IsHex == \A i \in 1..packetSize : Digit(i) # NotHex

Length == HexValue([i \in 1..packetSize |-> Digit(i)])

ReadFlush ==
    /\ PacketLeft /\ IsHex
    /\ Length = 0
    /\ offset' = offset + packetSize
    /\ reading' = "signature"
    /\ UNCHANGED <<input, lines, objects>>

\* Mutant: a line without a payload is refused.
ValidLengthNonEmpty == Length > packetSize /\ offset + Length <= Len(buf)

ValidLength == Length >= packetSize /\ offset + Length <= Len(buf)

ReadLine ==
    /\ PacketLeft /\ IsHex
    /\ Length # 0 /\ ValidLength
    /\ lines' = Append(lines, SubSeq(buf, offset + packetSize + 1, offset + Length))
    /\ offset' = offset + Length
    /\ UNCHANGED <<input, reading, objects>>

BadLine ==
    /\ PacketLeft
    /\ ~IsHex \/ (Length # 0 /\ ~ValidLength)
    /\ Fail

LinesEnd ==
    /\ reading = "lines" /\ offset + packetSize > Len(buf)
    /\ reading' = "signature"
    /\ UNCHANGED <<input, offset, lines, objects>>

\* parsePushInto wants one ref update, and the signature where the lines ended.
SignatureAt(i) ==
    i + packetSize <= Len(buf) /\ SubSeq(buf, i + 1, i + packetSize) = packSignature

\* Mutant: the signature is searched for.
SignatureSomewhere == OneRefUpdate(lines) /\ \E i \in offset..Len(buf) : SignatureAt(i)

StartsPack == OneRefUpdate(lines) /\ SignatureAt(offset)

Signature ==
    /\ reading = "signature"
    /\ StartsPack
    /\ reading' = "objects"
    /\ offset' = 0
    /\ UNCHANGED <<input, lines, objects>>

NoSignature ==
    /\ reading = "signature"
    /\ ~StartsPack
    /\ Fail

-----------------------------------------------------------------------------
(* decompressGitObjects *)

\* A loop over bytes is a set with the offset it ends at, empty when it runs out
\* of bytes: the ends of a number with continuation bits that starts at from ...
VarintEnds(from) ==
    {e \in from + 1..Len(contentBuf) :
        /\ ~contentBuf[e].more
        /\ \A i \in from + 1..e - 1 : contentBuf[i].more}

\* ... of a delta's base, an offset or an object id ...
BaseEnds(typeName, from) ==
    CASE typeName = "ofs_delta" -> VarintEnds(from)
      [] typeName = "ref_delta" -> {from + ShaLength} \intersect (0..Len(contentBuf))
      [] OTHER -> {from}

\* Mutant: the inflater reads ahead, to the end of the buffer.
StreamEndsReadAhead(from) ==
    {Len(contentBuf) : e \in {i \in from + 1..Len(contentBuf) : contentBuf[i].zlib = "end"}}

\* ... and of a compressed stream that inflates to no more than the limit.
StreamEnds(from) ==
    {e \in from + 1..Len(contentBuf) :
        /\ contentBuf[e].zlib = "end"
        /\ \A i \in from + 1..e - 1 : contentBuf[i].zlib = "inside"
        /\ e - from <= MaxObjectSize}

\* The ends of the object at from: header, base, stream.
ObjectEnds(from) ==
    UNION {StreamEnds(b) : b \in
        UNION {BaseEnds(contentBuf[from + 1].typeName, h) : h \in VarintEnds(from)}}

ObjectLeft ==
    reading = "objects" /\ Len(objects) < body.claimed /\ offset < Len(contentBuf)

ReadObject ==
    /\ ObjectLeft
    /\ offset' \in ObjectEnds(offset)
    /\ objects' = Append(objects, contentBuf[offset + 1].typeName)
    /\ UNCHANGED <<input, reading, lines>>

BadObject ==
    /\ ObjectLeft
    /\ ObjectEnds(offset) = {}
    /\ Fail

ObjectsEnd ==
    /\ reading = "objects" /\ ~ObjectLeft
    /\ reading' = "parsed"
    /\ UNCHANGED <<input, offset, lines, objects>>

-----------------------------------------------------------------------------
(* The specification *)

ParserNext ==
    \/ ReadFlush \/ ReadLine \/ BadLine \/ LinesEnd \/ Signature \/ NoSignature
    \/ ReadObject \/ BadObject \/ ObjectsEnd

ParserSpec == ParserInit /\ [][ParserNext]_parserVars

-----------------------------------------------------------------------------
(* Properties *)

\* The parser never loses its place: the lines and objects it has read are the
\* first ones that were sent, and it stands where the next one starts, whatever
\* follows the lines and wherever the pack is cut off.
ReadsWhatWasSent ==
    /\ IsPrefix(lines, body.lines)
    /\ reading = "lines" => offset = Len(EncodeLines(lines))
    /\ reading \in {"objects", "parsed"} =>
          LET read == SubSeq(body.objects, 1, Len(objects)) IN
          /\ Len(objects) <= Len(body.objects)
          /\ objects = [i \in DOMAIN read |-> read[i].typeName]
          /\ offset = Len(EncodeObjects(read))

\* A body that arrived as it was encoded, of one ref update and a pack that
\* claims no more objects than it has, none above the limit.
Intact ==
    /\ body.tail = Flush /\ OneRefUpdate(body.lines)
    /\ body.pack /\ body.lost = 0
    /\ body.claimed <= Len(body.objects)
    /\ \A i \in DOMAIN body.objects : body.objects[i].stream <= MaxObjectSize

\* Such a body is parsed: all its lines, and as many objects as the pack claims.
IntactPushIsParsed ==
    Intact =>
        /\ reading # "failed"
        /\ reading = "parsed" => lines = body.lines /\ Len(objects) = body.claimed

\* A body is parsed only if it holds the one ref update, the flush packet right
\* after the lines and a pack right after it; fewer objects than the pack claims
\* are accepted only where the bytes end with an object.
ParsedMeansFramed ==
    reading = "parsed" =>
        /\ lines = body.lines /\ OneRefUpdate(lines)
        /\ body.tail = Flush /\ body.pack
        /\ Len(objects) < body.claimed => offset = Len(contentBuf)
=============================================================================
