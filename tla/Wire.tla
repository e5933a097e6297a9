-------------------------------- MODULE Wire --------------------------------
(***************************************************************************)
(* Reading and writing bytes: the cursor of rdpcore-pdu/src/cursor.rs and  *)
(* the two ASN.1 encodings of per.rs and ber.rs, which every wire format   *)
(* of the repository is built from.                                        *)
(*                                                                         *)
(* A message is a sequence of bytes.  An encoder is an operator that       *)
(* concatenates what the code writes.  A decoder is a layout: the sequence *)
(* of the reads the code performs, interpreted by Read, which threads the  *)
(* cursor and stops at the first read that fails.  A u32 whose top bit may *)
(* be set is the pair <<high half, low half>>, since TLC has no integer    *)
(* beyond 2^31 - 1; every other number is kept below that bound.           *)
(***************************************************************************)
EXTENDS Naturals, Sequences, SequencesExt, TLC

Byte == 0 .. 255

\* The outcome of a read: the value, and the bytes the cursor has left.
Got(v, rest) == [ok |-> TRUE, v |-> v, rest |-> rest]
Failed == [ok |-> FALSE, v |-> <<>>, rest |-> <<>>]

Map(r, F(_)) == IF r.ok THEN Got(F(r.v), r.rest) ELSE Failed
Then(r, F(_, _)) == IF r.ok THEN F(r.v, r.rest) ELSE Failed
Check(r, P(_)) == IF r.ok /\ P(r.v) THEN r ELSE Failed
\* What was read from a body cut out of a buffer whose bytes after it are rest.
Within(r, rest) == IF r.ok THEN Got(r.v, rest) ELSE Failed

From(b, n) == SubSeq(b, n + 1, Len(b))
Zeros(n) == [i \in 1 .. n |-> 0]

----------------------------------------------------------------------------
\* cursor.rs

LE(n, v) == [i \in 1 .. n |-> IF i > 4 THEN 0 ELSE (v \div 256 ^ (i - 1)) % 256]
BE(n, v) == Reverse(LE(n, v))
LEPair(v) == LE(2, v[2]) \o LE(2, v[1])
LE16(s) == FlattenSeq([i \in 1 .. Len(s) |-> LE(2, s[i])])

FromBE(b) == FoldLeft(LAMBDA acc, x : acc * 256 + x, 0, b)
FromLE(b) == FromBE(Reverse(b))

\* ReadCursor::read_slice: all n bytes or nothing.
read_slice(b, n) == IF n > Len(b) THEN Failed ELSE Got(SubSeq(b, 1, n), From(b, n))

ReadLE(b, n) == Map(read_slice(b, n), FromLE)
ReadBE(b, n) == Map(read_slice(b, n), FromBE)

----------------------------------------------------------------------------
\* per.rs

per_length(n) ==
  IF n <= 127 THEN <<n>> ELSE BE(2, (n % 32768) + 32768)

per_read_length(b) ==
  IF b = <<>> THEN Failed
  ELSE IF b[1] < 128 THEN ReadBE(b, 1) ELSE Map(ReadBE(b, 2), LAMBDA v : v % 32768)

\* The number is the pair of its halves.
per_u32(v) ==
  CASE v[1] = 0 /\ v[2] <= 255 -> <<1, v[2]>>
    [] v[1] = 0 /\ v[2] > 255  -> <<2>> \o BE(2, v[2])
    [] OTHER                   -> <<4>> \o BE(2, v[1]) \o BE(2, v[2])

\* The last four bytes read, as the shifts of a u32 keep them.
Halves(b) ==
  LET padded == Zeros(4) \o b
      last   == From(padded, Len(padded) - 4)
  IN  <<FromBE(SubSeq(last, 1, 2)), FromBE(SubSeq(last, 3, 4))>>

per_read_u32(b) == Then(per_read_length(b), LAMBDA n, rest : Map(read_slice(rest, n), Halves))

per_u16(v, min) == BE(2, (v + 65536 - min) % 65536)
per_read_u16(b, min) == Map(ReadBE(b, 2), LAMBDA v : (v + min) % 65536)

per_object_id(id) == <<5, id[1] * 40 + id[2]>> \o From(id, 2)
per_read_object_id(b) ==
  Then(Check(ReadBE(b, 1), LAMBDA n : n = 5),
       LAMBDA n, rest : Map(read_slice(rest, 5),
                            LAMBDA s : <<s[1] \div 40, s[1] % 40>> \o From(s, 1)))

per_octet_string(s, min) == per_length(Len(s) - min) \o s
per_read_octet_string(b, min) ==
  Then(per_read_length(b), LAMBDA n, rest : read_slice(rest, n + min))

\* Decimal digits, two to a byte, an odd one paired with zero.
per_numeric_string(digits, min) ==
  per_length(Len(digits) - min) \o
    [i \in 1 .. (Len(digits) + 1) \div 2 |->
       digits[2 * i - 1] * 16 + (IF 2 * i <= Len(digits) THEN digits[2 * i] ELSE 0)]
per_read_numeric_string(b, min) ==
  Then(per_read_length(b), LAMBDA n, rest :
       Map(read_slice(rest, (n + min + 1) \div 2),
           LAMBDA s : [i \in 1 .. n + min |->
                         IF i % 2 = 1 THEN s[(i + 1) \div 2] \div 16 ELSE s[i \div 2] % 16]))

----------------------------------------------------------------------------
\* ber.rs

ber_length(n) ==
  CASE n <= 127              -> <<n>>
    [] n > 127 /\ n <= 255   -> <<129, n>>
    [] n > 255               -> <<130>> \o BE(2, n % 65536)

ber_read_length(b) ==
  Then(ReadBE(b, 1), LAMBDA first, rest :
       CASE first <= 127 -> Got(first, rest)
         [] first = 129  -> ReadBE(rest, 1)
         [] first = 130  -> ReadBE(rest, 2)
         [] OTHER        -> Failed)

\* expect_tag, the length, then that many bytes.
Tagged(tag, s) == <<tag>> \o ber_length(Len(s)) \o s
ReadTag(b, tag) == Then(Check(ReadBE(b, 1), LAMBDA t : t = tag), LAMBDA t, rest : ber_read_length(rest))
ReadTagged(b, tag) == Then(ReadTag(b, tag), LAMBDA n, rest : read_slice(rest, n))

ber_octet_string(s) == Tagged(4, s)
ber_boolean(flag) == Tagged(1, <<IF flag THEN 255 ELSE 0>>)
ber_enumerated(v) == Tagged(10, <<v>>)
ber_read_octet_string(b) == ReadTagged(b, 4)
ber_read_boolean(b) == Map(ReadTagged(b, 1), LAMBDA s : s /= <<>> /\ s[1] /= 0)
ber_read_enumerated(b) == Map(Check(ReadTagged(b, 10), LAMBDA s : s /= <<>>), LAMBDA s : s[1])

\* write_integer: the fewest bytes that keep the sign bit clear.
ber_integer(v) ==
  Tagged(2, CASE v[1] = 0 /\ v[2] < 128                      -> <<v[2]>>
              [] v[1] = 0 /\ v[2] >= 128 /\ v[2] < 32768     -> BE(2, v[2])
              [] (v[1] = 0 /\ v[2] >= 32768) \/ v[1] \in 1 .. 127 -> <<v[1]>> \o BE(2, v[2])
              [] v[1] \in 128 .. 32767                       -> BE(2, v[1]) \o BE(2, v[2])
              [] v[1] > 32767                                -> <<0>> \o BE(2, v[1]) \o BE(2, v[2]))
ber_read_integer(b) ==
  Map(Check(ReadTagged(b, 2),
            LAMBDA s : Len(s) \in 1 .. 4 \/ (Len(s) = 5 /\ s[1] = 0)),
      Halves)

ber_application_tag(tag, n) == <<127, tag>> \o ber_length(n)
ber_sequence(s) == Tagged(48, s)
ber_read_application_tag(b, tag) ==
  Then(Check(read_slice(b, 2), LAMBDA s : s = <<127, tag>>), LAMBDA s, rest : ber_read_length(rest))

----------------------------------------------------------------------------
\* utf16.rs.  A string is the sequence of its UTF-16 units.

write_fixed(units, byte_len) ==
  LET room == byte_len \div 2
      kept == SubSeq(units, 1, IF Len(units) < room THEN Len(units) ELSE room - 1)
  IN  LE16(kept) \o Zeros(byte_len - 2 * Len(kept))

encode_units(units) == LE16(units)
decode_units(b) == [i \in 1 .. Len(b) \div 2 |-> FromLE(SubSeq(b, 2 * i - 1, 2 * i))]

\* Everything before the first zero.
UpToNul(s) ==
  LET nuls == {i \in DOMAIN s : s[i] = 0}
  IN  IF nuls = {} THEN s ELSE SubSeq(s, 1, (CHOOSE i \in nuls : \A j \in nuls : i <= j) - 1)
read_fixed(b) == UpToNul(decode_units(b))

----------------------------------------------------------------------------
(* Layouts.  A field has a kind, the name its value is kept under ("" when *)
(* the code drops it), a number and an extra argument.                     *)

Field(kind, name, n, x) == [kind |-> kind, name |-> name, n |-> n, x |-> x]
U(name, n)             == Field("le", name, n, <<>>)
\* A u32 kept as the pair of its halves.
Pair(name)             == Field("pair", name, 4, <<>>)
B(name, n)             == Field("be", name, n, <<>>)
Skip(n)                == Field("raw", "", n, <<>>)
Raw(name, n)           == Field("raw", name, n, <<>>)
Is(bytes)              == Field("is", "", Len(bytes), bytes)
\* Bytes counted by an earlier field, which counted `bias` bytes more.
Body(name, count, bias) == Field("body", name, bias, count)
\* The same where the code subtracts the bias with saturating_sub.
BodyLeft(name, count, bias) == Field("left", name, bias, count)
Rest(name)             == Field("rest", name, 0, <<>>)
Opt(name, n)           == Field("opt", name, n, <<>>)
List(name, count, item) == Field("list", name, count, item)
Sub(name, layout)      == Field("sub", name, 0, layout)
Utf16(name, count, bias) == Field("utf16", name, bias, count)
Utf16Fixed(name, n)    == Field("fixed", name, n, <<>>)
Ansi(name, n)          == Field("ansi", name, n, <<>>)
Per(kind, name, n)     == Field(kind, name, n, <<>>)

RECURSIVE Read(_, _, _), ReadList(_, _, _)

ReadField(b, f, got) ==
  CASE f.kind = "le"    -> ReadLE(b, f.n)
    [] f.kind = "be"    -> ReadBE(b, f.n)
    [] f.kind = "pair"  -> Map(read_slice(b, 4), LAMBDA s : <<FromLE(From(s, 2)), FromLE(SubSeq(s, 1, 2))>>)
    [] f.kind = "raw"   -> read_slice(b, f.n)
    [] f.kind = "is"    -> Check(read_slice(b, f.n), LAMBDA s : s = f.x)
    [] f.kind = "body"  -> IF got[f.x] < f.n THEN Failed ELSE read_slice(b, got[f.x] - f.n)
    [] f.kind = "left"  -> read_slice(b, IF got[f.x] > f.n THEN got[f.x] - f.n ELSE 0)
    [] f.kind = "rest"  -> Got(b, <<>>)
    [] f.kind = "opt"   -> IF Len(b) < f.n THEN Got(<<>>, b)
                           ELSE Map(ReadLE(b, f.n), LAMBDA v : <<v>>)
    [] f.kind = "list"  -> ReadList(b, f.x, got[f.n])
    [] f.kind = "sub"   -> Read(b, f.x, <<>>)
    [] f.kind = "utf16" -> Map(read_slice(b, got[f.x] - f.n), decode_units)
    [] f.kind = "fixed" -> Map(read_slice(b, f.n), read_fixed)
    [] f.kind = "ansi"  -> Map(read_slice(b, f.n), UpToNul)
    [] f.kind = "length" -> per_read_length(b)
    [] f.kind = "u16"   -> per_read_u16(b, f.n)
    [] f.kind = "u32"   -> per_read_u32(b)
    [] f.kind = "octets" -> per_read_octet_string(b, f.n)
    [] f.kind = "digits" -> per_read_numeric_string(b, f.n)
    [] f.kind = "object" -> per_read_object_id(b)
    [] f.kind = "integer" -> ber_read_integer(b)
    [] f.kind = "string" -> ber_read_octet_string(b)
    [] f.kind = "boolean" -> ber_read_boolean(b)
    [] f.kind = "enumerated" -> ber_read_enumerated(b)
    [] f.kind = "sequence" -> ReadTag(b, 48)
    [] f.kind = "application" -> ber_read_application_tag(b, f.n)

Read(b, layout, got) ==
  IF layout = <<>> THEN Got(got, b)
  ELSE LET f == Head(layout)
       IN  Then(ReadField(b, f, got), LAMBDA v, rest :
                Read(rest, Tail(layout), IF f.name = "" THEN got ELSE (f.name :> v) @@ got))

ReadList(b, item, count) ==
  IF count = 0 THEN Got(<<>>, b)
  ELSE Then(Read(b, item, <<>>), LAMBDA v, rest :
            Map(ReadList(rest, item, count - 1), LAMBDA vs : <<v>> \o vs))

Decode(layout, b) == Read(b, layout, <<>>)

\* n items, each read by F where the one before it ended.
Repeat(n, b, F(_)) ==
  FoldLeft(LAMBDA r, i : Then(r, LAMBDA vs, rest : Map(F(rest), LAMBDA v : Append(vs, v))),
           Got(<<>>, b), [i \in 1 .. n |-> i])

\* Items up to the end of the buffer.
RECURSIVE ReadAll(_, _)
ReadAll(b, layout) ==
  IF b = <<>> THEN Got(<<>>, b)
  ELSE Then(Decode(layout, b), LAMBDA v, rest : Map(ReadAll(rest, layout), LAMBDA vs : <<v>> \o vs))

Has(flags, bit) == (flags \div bit) % 2 = 1
Monus(a, b) == IF a > b THEN a - b ELSE 0
Least(a, b) == IF a < b THEN a ELSE b

\* A layout that reads to the end of its buffer accepts any of its prefixes
\* that still holds its fixed part, so the layer below must bound it.
Strict(layout) == \A i \in DOMAIN layout : layout[i].kind \notin {"rest", "opt"}

Fields(v, names) == [f \in names |-> v[f]]
=============================================================================
