------------------------------- MODULE Inflate -------------------------------
(***************************************************************************)
(* A reader of DEFLATE streams, written from the format (RFC 1951) and not *)
(* from the code: what GoHuffman writes is read back with it.  A stream is *)
(* a sequence of bits; what is read is the list of blocks' contents, each  *)
(* a byte [length |-> 0, ...] or a copy, as GoDeflate has them.            *)
(***************************************************************************)
EXTENDS Integers, Sequences, SequencesExt, FiniteSetsExt

Number(bits, from, width) ==
  LET low[k \in 0 .. width] == IF k = 0 THEN 0 ELSE low[k - 1] + bits[from + k - 1] * 2 ^ (k - 1) IN low[width]

(* 3.2.2: the codes that lengths define, as pairs of a symbol and its bits. *)
CanonicalCodes(lens) ==
  LET used == {i \in DOMAIN lens : lens[i] > 0}
      first[n \in 0 .. 15] ==
        IF n = 0 THEN 0 ELSE 2 * (first[n - 1] + Cardinality({i \in used : lens[i] = n - 1}))
      code(i) == first[lens[i]] + Cardinality({j \in used : j < i /\ lens[j] = lens[i]})
  IN {<<i, [k \in 1 .. lens[i] |-> (code(i) \div 2 ^ (lens[i] - k)) % 2]>> : i \in used}

FixedLengths == [i \in 0 .. 287 |-> IF i \in 144 .. 255 THEN 9 ELSE IF i \in 256 .. 279 THEN 7 ELSE 8]
FixedLiterals == CanonicalCodes(FixedLengths)
FixedDistances == CanonicalCodes([i \in 0 .. 29 |-> 5])

(* The symbol whose code is next and where it ends, -1 if there is none.    *)
SymbolAt(bits, at, codes) ==
  LET here == {c \in codes : /\ at + Len(c[2]) - 1 <= Len(bits)
                             /\ \A k \in DOMAIN c[2] : bits[at + k - 1] = c[2][k]}
  IN IF Cardinality(here) = 1 THEN LET c == CHOOSE x \in here : TRUE IN [is |-> c[1], end |-> at + Len(c[2])]
     ELSE [is |-> -1, end |-> at]

(* 3.2.7: code lengths from the code of code lengths, n of them.            *)
RECURSIVE ReadLengths(_, _, _, _, _)
ReadLengths(bits, at, codes, n, lens) ==
  LET s == SymbolAt(bits, at, codes)
      again(x, least, width) ==
        ReadLengths(bits, s.end + width, codes, n,
                    lens \o [i \in 1 .. least + Number(bits, s.end, width) |-> x])
  IN IF Len(lens) >= n THEN [at |-> at, lens |-> lens]
     ELSE CASE s.is = -1 -> [at |-> at, lens |-> [i \in 1 .. n |-> 0]]
            [] s.is = 16 -> again(IF lens = <<>> THEN 0 ELSE lens[Len(lens)], 3, 2)
            [] s.is = 17 -> again(0, 3, 3)
            [] s.is = 18 -> again(0, 11, 7)
            [] OTHER -> ReadLengths(bits, s.end, codes, n, Append(lens, s.is))

(* 3.2.5: what a length or distance code is worth before its extra bits.    *)
LengthOf(c) == IF c < 8 THEN c + 3 ELSE IF c = 28 THEN 258
               ELSE (4 + (c % 4)) * 2 ^ (c \div 4 - 1) + 3
ExtraOfLength(c) == IF c < 8 \/ c = 28 THEN 0 ELSE c \div 4 - 1
DistanceOf(c) == IF c < 4 THEN c + 1 ELSE (2 + (c % 2)) * 2 ^ (c \div 2 - 1) + 1
ExtraOfDistance(c) == IF c < 4 THEN 0 ELSE c \div 2 - 1

RECURSIVE ReadSymbols(_, _, _, _, _)
ReadSymbols(bits, at, literals, distances, read) ==
  LET s == SymbolAt(bits, at, literals)
      c == s.is - 257
      d == SymbolAt(bits, s.end + ExtraOfLength(c), distances)
  IN CASE s.is = 256 -> [at |-> s.end, ok |-> TRUE, read |-> read]
       [] s.is \in 0 .. 255 ->
            ReadSymbols(bits, s.end, literals, distances,
                        Append(read, [length |-> 0, offset |-> 0, byte |-> s.is]))
       [] s.is \in 257 .. 285 /\ d.is # -1 ->
            ReadSymbols(bits, d.end + ExtraOfDistance(d.is), literals, distances,
              Append(read, [length |-> LengthOf(c) + Number(bits, s.end, ExtraOfLength(c)),
                            offset |-> DistanceOf(d.is) + Number(bits, d.end, ExtraOfDistance(d.is)),
                            byte |-> 0]))
       [] OTHER -> [at |-> at, ok |-> FALSE, read |-> read]

(* The order in which the lengths of the code of lengths are sent.          *)
Sent == <<16, 17, 18, 0, 8, 7, 9, 6, 10, 5, 11, 4, 12, 3, 13, 2, 14, 1, 15>>

ReadStored(bits, at) ==
  LET from == at + ((8 - ((at - 1) % 8)) % 8)
      n == Number(bits, from, 16)
      ok == Number(bits, from + 16, 16) = 65535 - n /\ from + 31 + 8 * n <= Len(bits)
  IN [at |-> from + 32 + 8 * n, ok |-> ok,
      read |-> IF ok THEN [i \in 1 .. n |-> [length |-> 0, offset |-> 0,
                                             byte |-> Number(bits, from + 24 + 8 * i, 8)]]
               ELSE <<>>]

ReadDynamic(bits, at) ==
  LET literals == Number(bits, at, 5) + 257
      distances == Number(bits, at + 5, 5) + 1
      sent == Number(bits, at + 10, 4) + 4
      lens == [c \in 0 .. 18 |-> LET k == CHOOSE i \in 1 .. 19 : Sent[i] = c
                                 IN IF k <= sent THEN Number(bits, at + 14 + 3 * (k - 1), 3) ELSE 0]
      both == ReadLengths(bits, at + 14 + 3 * sent, CanonicalCodes(lens), literals + distances, <<>>)
  IN ReadSymbols(bits, both.at, CanonicalCodes([i \in 0 .. literals - 1 |-> both.lens[i + 1]]),
                 CanonicalCodes([i \in 0 .. distances - 1 |-> both.lens[literals + i + 1]]), <<>>)

(* The blocks of a stream up to its final one.                              *)
RECURSIVE Blocks(_, _)
Blocks(bits, at) ==
  LET kind == Number(bits, at + 1, 2)
      block == CASE kind = 0 -> ReadStored(bits, at + 3)
                 [] kind = 1 -> ReadSymbols(bits, at + 3, FixedLiterals, FixedDistances, <<>>)
                 [] kind = 2 -> ReadDynamic(bits, at + 3)
                 [] OTHER -> [at |-> at, ok |-> FALSE, read |-> <<>>]
  IN IF ~block.ok THEN <<>>
     ELSE <<block.read>> \o (IF bits[at] = 1 THEN <<>> ELSE Blocks(bits, block.at))
=============================================================================
