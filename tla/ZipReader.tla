------------------------------ MODULE ZipReader ------------------------------
(***************************************************************************)
(* The DEFLATE decoder (src/src/runtime/class_loader/inflate.rs), and the  *)
(* directory and the entries of a zip archive (zip.rs).                    *)
(*                                                                         *)
(* Bits count from 0, the low one of each byte first.  What the decoder    *)
(* reads is <<what was decoded, the bit behind it>>, or Fails.             *)
(***************************************************************************)
EXTENDS Integers, SequencesExt

LOCAL INSTANCE ByteReader

MaxBits == 15

Bit(d, k) == (d[(k \div 8) + 1] \div 2 ^ (k % 8)) % 2
RECURSIVE BitsFrom(_, _, _)
BitsFrom(d, k, n) == IF n = 0 THEN 0 ELSE Bit(d, k) + 2 * BitsFrom(d, k + 1, n - 1)
ReadBits(d, k, n) == Unless(k + n > 8 * Len(d), <<BitsFrom(d, k, n), k + n>>)
Align(k) == ((k + 7) \div 8) * 8
-----------------------------------------------------------------------------
(* Canonical Huffman codes: the number of symbols of every length, and the    *)
(* symbols in the order of their lengths.  A code may leave some bits unused. *)

CountOf(lengths, n) == Cardinality({s \in DOMAIN lengths : lengths[s] = n})
RECURSIVE Space(_, _)
Space(count, n) == IF n = 0 THEN 1 ELSE 2 * Space(count, n - 1) - count[n]

\* lengths[s + 1] is the number of bits of the symbol s, 0 if it has no code.
Construct(lengths) ==
    LET count == [n \in 1 .. MaxBits |-> CountOf(lengths, n)]
        symbols == [i \in DOMAIN lengths |-> i - 1]
        ofLength(n) == SelectSeq(symbols, LAMBDA s : lengths[s + 1] = n)
    IN  Unless(\E n \in 1 .. MaxBits : Space(count, n) < 0,
               <<[count |-> count @@ <<>>, symbol |-> FlattenSeq([n \in 1 .. MaxBits |-> ofLength(n)])]>>)

\* The symbol whose code begins at bit k.  `code' is what was read of it so far, `first'
\* the first code of the length and `index' the place of its symbol, from 0.
RECURSIVE DecodeFrom(_, _, _, _, _, _, _)
DecodeFrom(d, k, h, length, code, first, index) ==
    LET bit == ReadBits(d, k, 1)
        read == code + bit[1]
        count == h.count[length]
    IN  IF length > MaxBits \/ bit = Fails THEN Fails
        ELSE IF read - first < count THEN <<h.symbol[index + read - first + 1], k + 1>>
        ELSE DecodeFrom(d, k + 1, h, length + 1, 2 * read, 2 * (first + count), index + count)
Decode(d, k, h) == DecodeFrom(d, k, h, 1, 0, 0, 0)
-----------------------------------------------------------------------------
(* Blocks with fixed codes, and with codes that come before the data. *)

Fill(n, length) == [i \in 1 .. n |-> length]
FixedLiterals == Construct(Fill(144, 8) \o Fill(112, 9) \o Fill(24, 7) \o Fill(8, 8))[1]
FixedDistances == Construct(Fill(30, 5))[1]

CodeLengthOrder == <<16, 17, 18, 0, 8, 7, 9, 6, 10, 5, 11, 4, 12, 3, 13, 2, 14, 1, 15>>
\* What the symbols 16 to 18 repeat, with how many more bits, and at least how often.
Repeats(symbol, lengths) ==
    CASE symbol = 16 -> [length |-> Last(lengths), bits |-> 2, least |-> 3]
      [] symbol = 17 -> [length |-> 0, bits |-> 3, least |-> 3]
      [] symbol = 18 -> [length |-> 0, bits |-> 7, least |-> 11]

\* The lengths so far are <<lengths, next bit>>.
CodeLength(d, h, total, sofar) ==
    LET lengths == sofar[1]
        repeated(r, more) ==
            LET times == r.least + more[1]
            IN  Unless(Len(lengths) + times > total, <<lengths \o Fill(times, r.length), more[2]>>)
        repeating(k, r) == Then(ReadBits(d, k, r.bits), LAMBDA more : repeated(r, more))
        after(symbol, k) ==
            IF symbol <= 15 THEN <<Append(lengths, symbol), k>>
            ELSE Unless(symbol = 16 /\ lengths = <<>>, repeating(k, Repeats(symbol, lengths)))
    IN  Then(Decode(d, sofar[2], h), LAMBDA symbol : after(symbol[1], symbol[2]))

\* As many as there are, 2^n of them at most.
RECURSIVE CodeLengths(_, _, _, _, _)
CodeLengths(d, h, total, sofar, n) ==
    IF sofar = Fails THEN Fails
    ELSE IF Len(sofar[1]) >= total THEN sofar
    ELSE IF n = 0 THEN CodeLength(d, h, total, sofar)
    ELSE CodeLengths(d, h, total, CodeLengths(d, h, total, sofar, n - 1), n - 1)

\* The codes of a dynamic block: <<literals, distances, the bit behind>>.
ReadDynamic(d, k) ==
    LET hlit == BitsFrom(d, k, 5) + 257
        hdist == BitsFrom(d, k + 5, 5) + 1
        hclen == BitsFrom(d, k + 10, 4) + 4
        three(i) == BitsFrom(d, k + 14 + 3 * (i - 1), 3)
        order(s) == CHOOSE i \in 1 .. 19 : CodeLengthOrder[i] = s
        codes == Construct([s \in 1 .. 19 |-> IF order(s - 1) <= hclen THEN three(order(s - 1)) ELSE 0])
        distances(l) == Construct(SubSeq(l, hlit + 1, hlit + hdist))
        both(l, behind) == Then(Construct(SubSeq(l, 1, hlit)), LAMBDA a : Then(distances(l), LAMBDA b : <<a[1], b[1], behind>>))
        split(all) == both(all[1], all[2])
    IN  IF k + 14 > 8 * Len(d) THEN Fails
        ELSE Unless(hlit > 286 \/ hdist > 30 \/ k + 14 + 3 * hclen > 8 * Len(d),
                    Then(codes, LAMBDA h : Then(CodeLengths(d, h[1], hlit + hdist, <<<<>>, k + 14 + 3 * hclen>>, 9), split)))
-----------------------------------------------------------------------------
(* Literals, and copies of what was put out before. *)

LengthBase == <<3, 4, 5, 6, 7, 8, 9, 10, 11, 13, 15, 17, 19, 23, 27, 31, 35, 43, 51, 59, 67, 83, 99, 115, 131, 163, 195, 227, 258>>
LengthExtra == <<0, 0, 0, 0, 0, 0, 0, 0, 1, 1, 1, 1, 2, 2, 2, 2, 3, 3, 3, 3, 4, 4, 4, 4, 5, 5, 5, 5, 0>>
DistanceBase == <<1, 2, 3, 4, 5, 7, 9, 13, 17, 25, 33, 49, 65, 97, 129, 193, 257, 385, 513, 769, 1025, 1537, 2049, 3073, 4097, 6145,
                  8193, 12289, 16385, 24577>>
DistanceExtra == <<0, 0, 0, 0, 1, 1, 2, 2, 3, 3, 4, 4, 5, 5, 6, 6, 7, 7, 8, 8, 9, 9, 10, 10, 11, 11, 12, 12, 13, 13>>

\* Mutant: the output is lengthened first, and the bytes are moved within it.
CopiedWithin(out, distance, length) ==
    out \o [i \in 1 .. length |-> IF i <= distance THEN out[Len(out) - distance + i] ELSE 0]
\* Byte after byte: a copy may run into what it writes.
Copied(out, distance, length) == out \o [i \in 1 .. length |-> out[Len(out) - distance + 1 + ((i - 1) % distance)]]

\* A block in progress is <<output, next bit, whether it has ended>>.
DecodeCopy(d, k, distances, out, length) ==
    LET copy(distance, behind) == Unless(distance > Len(out), <<Copied(out, distance, length), behind, FALSE>>)
        from(symbol) == Then(ReadBits(d, symbol[2], DistanceExtra[symbol[1] + 1]),
                             LAMBDA extra : copy(DistanceBase[symbol[1] + 1] + extra[1], extra[2]))
    IN  Then(Decode(d, k, distances), LAMBDA symbol : Unless(symbol[1] >= 30, from(symbol)))
DecodeSymbol(d, literals, distances, block) ==
    LET after(s, k) ==
            IF s < 256 THEN <<Append(block[1], s), k, FALSE>>
            ELSE IF s = 256 THEN <<block[1], k, TRUE>>
            ELSE IF s > 285 THEN Fails
            ELSE Then(ReadBits(d, k, LengthExtra[s - 256]),
                      LAMBDA extra : DecodeCopy(d, extra[2], distances, block[1], LengthBase[s - 256] + extra[1]))
    IN  Then(Decode(d, block[2], literals), LAMBDA symbol : after(symbol[1], symbol[2]))

\* Symbol after symbol, until the one that ends the block, 2^n of them at most.
RECURSIVE DecodeSymbols(_, _, _, _, _)
DecodeSymbols(d, literals, distances, block, n) ==
    IF block = Fails THEN Fails
    ELSE IF block[3] THEN block
    ELSE IF n = 0 THEN DecodeSymbol(d, literals, distances, block)
    ELSE DecodeSymbols(d, literals, distances, DecodeSymbols(d, literals, distances, block, n - 1), n - 1)
MostSymbols == 24
DecodeBlock(d, k, literals, distances, out) ==
    Then(DecodeSymbols(d, literals, distances, <<out, k, FALSE>>, MostSymbols), LAMBDA block : <<block[1], block[2]>>)

\* A stored block: its length, the complement of it, and the bytes.
StoredBlock(d, k, out) ==
    LET from == Align(k)
        length == BitsFrom(d, from, 16)
        complement == BitsFrom(d, from + 16, 16)
        bytes == (from + 32) \div 8
    IN  IF from + 32 > 8 * Len(d) THEN Fails
        ELSE IF length + complement # 65535 \/ bytes + length > Len(d) THEN Fails
        ELSE <<out \o SubSeq(d, bytes + 1, bytes + length), 8 * (bytes + length)>>

\* Block after block, until the one that says it is the last.
RECURSIVE Blocks(_, _, _)
Blocks(d, k, out) ==
    LET type == BitsFrom(d, k + 1, 2)
        dynamic(codes) == DecodeBlock(d, codes[3], codes[1], codes[2], out)
        block == CASE type = 0 -> StoredBlock(d, k + 3, out)
                   [] type = 1 -> DecodeBlock(d, k + 3, FixedLiterals, FixedDistances, out)
                   [] type = 2 -> Then(ReadDynamic(d, k + 3), dynamic)
                   [] OTHER    -> Fails
    IN  Unless(k + 3 > 8 * Len(d), Then(block, LAMBDA b : IF Bit(d, k) = 1 THEN b ELSE Blocks(d, b[2], b[1])))

\* The bytes, as a sequence of one, or Fails.
InflateAll(d) == Then(Blocks(d, 0, <<>>), LAMBDA all : <<all[1]>>)
-----------------------------------------------------------------------------
(* Archives.  A result is a sequence of one, or Fails; offsets count from 0. *)

LocalHeader == 4 * 2 ^ 24 + 3 * 2 ^ 16 + 19280          \* 0x04034b50
CentralHeader == 2 * 2 ^ 24 + 2 ^ 16 + 19280            \* 0x02014b50
EndOfDirectory == 6 * 2 ^ 24 + 5 * 2 ^ 16 + 19280       \* 0x06054b50
SizeOfEnd == 22
LongestComment == 65535

\* Little-endian; a number no file reaches stands for those beyond 2^31.
Within(d, o, n) == o + n <= Len(d)
U16(d, o) == d[o + 1] + 256 * d[o + 2]
U32(d, o) == IF d[o + 4] > 127 THEN 2147483647 ELSE U16(d, o) + 65536 * U16(d, o + 2)
Has(d, o, signature) == Within(d, o, 4) /\ U32(d, o) = signature

\* From the end backwards, the first place that looks like the end record, or -1.
FindEocd(d) ==
    LET places == {p \in 0 .. Len(d) - SizeOfEnd : p + SizeOfEnd + LongestComment >= Len(d) /\ Has(d, p, EndOfDirectory)}
    IN  IF places = {} THEN -1 ELSE CHOOSE p \in places : \A q \in places : q <= p

\* The entry whose record in the directory begins at p.  `base' is how many bytes
\* the file has before the archive.
EntryAt(d, p, base) ==
    LET nameLength == U16(d, p + 28)
        header == base + U32(d, p + 42)
    IN  IF ~Has(d, p, CentralHeader) \/ ~Within(d, p, 46) THEN Fails
        ELSE IF ~Within(d, p + 46, nameLength) THEN Fails
        ELSE IF U32(d, p + 42) > Len(d) THEN Fails
        ELSE IF ~Has(d, header, LocalHeader) \/ ~Within(d, header, 30) THEN Fails
        ELSE <<[name |-> SubSeq(d, p + 47, p + 46 + nameLength), method |-> U16(d, p + 10), size |-> U32(d, p + 20),
                data |-> header + 30 + U16(d, header + 26) + U16(d, header + 28),
                next |-> p + 46 + nameLength + U16(d, p + 30) + U16(d, p + 32)]>>

RECURSIVE Entries(_, _, _, _)
Entries(d, p, base, n) ==
    LET after(entry) == Then(Entries(d, entry[1].next, base, n - 1), LAMBDA more : <<entry \o more[1]>>)
    IN  IF n = 0 THEN <<<<>>>> ELSE Then(EntryAt(d, p, base), after)

\* The archive lies before its end record, wherever the file begins.
OpenZip(d) ==
    LET end == FindEocd(d)
        directory == end - U32(d, end + 12)
        recorded == U32(d, end + 16)
        base == IF recorded > directory THEN 0 ELSE directory - recorded
    IN  IF end = -1 THEN Fails
        ELSE Unless(directory < 0,
                    Then(Entries(d, directory, base, U16(d, end + 10)), LAMBDA all : <<[data |-> d, entries |-> all[1]]>>))

HasEntry(zip, name) == \E i \in DOMAIN zip.entries : zip.entries[i].name = name

\* The bytes of the first entry of the name.
ReadEntry(zip, name) ==
    LET entry == SelectSeq(zip.entries, LAMBDA e : e.name = name)[1]
        packed == SubSeq(zip.data, entry.data + 1, entry.data + entry.size)
    IN  IF entry.size > Len(zip.data) - entry.data THEN Fails
        ELSE CASE entry.method = 0 -> <<packed>>
               [] entry.method = 8 -> InflateAll(packed)
               [] OTHER            -> Fails
=============================================================================
