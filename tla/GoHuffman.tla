------------------------------ MODULE GoHuffman ------------------------------
(***************************************************************************)
(* The block writer of crates/json-gzip/src/go_flate.rs: tokens are        *)
(* counted, codes limited in length are made from the counts (bit_counts), *)
(* the lengths of the codes are themselves coded, and the block is written *)
(* stored, with the fixed codes or with its own, whichever is smallest.    *)
(* The writer is kept from block to block, with its codes.                 *)
(*                                                                         *)
(* A token is as in GoDeflate: a byte if its length is 0, else a match.  A *)
(* code is the sequence of its bits in the order they are emitted, <<>> if *)
(* the symbol has none.  The limits on the lengths of codes are parameters *)
(* (the code has 15, 15 and 7), the alphabets are those of the format.     *)
(***************************************************************************)
EXTENDS Integers, Sequences, SequencesExt, FiniteSetsExt

CONSTANTS Streams,        \* sequences of blocks [tokens, input, held, eof]
          LiteralBits, OffsetBits, CodegenBits

VARIABLES stream, current, freq, codes, lengths, sizes, out, phase
huffmanVars == <<stream, current, freq, codes, lengths, sizes, out, phase>>

MaxNumLit == 286
OffsetCodeCount == 30
EndBlockMarker == 256
LengthCodesStart == 257
CodegenCodeCount == 19
CodegenOrder == <<16, 17, 18, 0, 8, 7, 9, 6, 10, 5, 11, 4, 12, 3, 13, 2, 14, 1, 15>>

(* A table in which entry c + 1 of `runs` says how often code c is repeated. *)
TableOf(runs) == FlattenSeq([c \in DOMAIN runs |-> [k \in 1 .. runs[c] |-> c - 1]])
LengthCodes == TableOf(<<1, 1, 1, 1, 1, 1, 1, 1, 2, 2, 2, 2, 4, 4, 4, 4, 8, 8, 8, 8,
                         16, 16, 16, 16, 32, 32, 32, 31, 1>>)
OffsetCodes == TableOf(<<1, 1, 1, 1, 2, 2, 4, 4, 8, 8, 16, 16, 32, 32, 64, 64>>)
LengthCode(n) == LengthCodes[n + 1]
OffsetCode(n) == IF n < 256 THEN OffsetCodes[n + 1]
                 ELSE IF n \div 128 < 256 THEN OffsetCodes[n \div 128 + 1] + 14
                 ELSE OffsetCodes[n \div 16384 + 1] + 28
LengthBase == <<0, 1, 2, 3, 4, 5, 6, 7, 8, 10, 12, 14, 16, 20, 24, 28, 32, 40, 48, 56, 64, 80,
                96, 112, 128, 160, 192, 224, 255>>
LengthExtraBits(c) == IF c < 8 \/ c = 28 THEN 0 ELSE c \div 4 - 1
OffsetBase == <<0, 1, 2, 3, 4, 6, 8, 12, 16, 24, 32, 48, 64, 96, 128, 192, 256, 384, 512, 768,
                1024, 1536, 2048, 3072, 4096, 6144, 8192, 12288, 16384, 24576>>
OffsetExtraBits(c) == IF c < 4 THEN 0 ELSE c \div 2 - 1

TokenLength(t) == t.length - 3
TokenOffset(t) == t.offset - 1
LiteralToken(b) == [length |-> 0, offset |-> 0, byte |-> b]
EndBlock == LiteralToken(EndBlockMarker)
SymbolOf(t) == IF t.length = 0 THEN t.byte ELSE LengthCodesStart + LengthCode(TokenLength(t))

Occurrences(seq, x) == Cardinality({i \in DOMAIN seq : seq[i] = x})
Total(term(_), n) == LET sum[i \in 0 .. n] == IF i = 0 THEN 0 ELSE sum[i - 1] + term(i) IN sum[n]
Used(f) == SelectSeq([i \in 1 .. Cardinality(DOMAIN f) |-> i - 1], LAMBDA i: f[i] # 0)
(* The least count that keeps everything up to the last entry used.         *)
UsedUpTo(f) == CHOOSE n \in 0 .. Cardinality(DOMAIN f) : /\ n = 0 \/ f[n - 1] # 0
                                                        /\ \A i \in DOMAIN f : i >= n => f[i] = 0
BitLength(f, code) == LET used == Used(f) IN Total(LAMBDA i: f[used[i]] * Len(code[used[i]]), Len(used))

BitsOf(n, width) == [k \in 1 .. width |-> (n \div 2 ^ (k - 1)) % 2]
ReverseBits(n, width) == [k \in 1 .. width |-> (n \div 2 ^ (width - k)) % 2]

-----------------------------------------------------------------------------
(* bit_counts: for symbols sorted by frequency, how many get a code of each *)
(* length, none longer than `limit`, so that the whole is shortest.         *)
Infinite == 1000000
FreqAt(list, i) == IF i < Len(list) THEN list[i + 1].freq ELSE Infinite

(* At a level: a pair from below or one more symbol, whichever is rarer.    *)
LevelStep(s, list, top) ==
  LET l == s.level
      at == s.levels[l]
      takesChar == at.char < at.pair
      leaves == IF takesChar THEN [s.leaves[l] EXCEPT ![l] = @ + 1]
                ELSE [k \in DOMAIN s.leaves[l] |-> IF k < l THEN s.leaves[l - 1][k] ELSE s.leaves[l][k]]
      now == [last   |-> IF takesChar THEN at.char ELSE at.pair,
              char   |-> IF takesChar THEN FreqAt(list, leaves[l]) ELSE at.char,
              pair   |-> at.pair,
              needed |-> at.needed - 1]
      after == [k \in DOMAIN s.levels |->
                  CASE k = l -> now
                    [] k = l - 1 /\ ~takesChar -> [s.levels[k] EXCEPT !.needed = 2]
                    [] k = l + 1 /\ now.needed = 0 -> [s.levels[k] EXCEPT !.pair = at.last + now.last]
                    [] OTHER -> s.levels[k]]
  IN [levels |-> after,
      leaves |-> [s.leaves EXCEPT ![l] = leaves],
      level  |-> IF now.needed = 0 THEN l + 1
                 ELSE CHOOSE k \in 1 .. l : /\ after[k - 1].needed = 0
                                            /\ \A j \in k .. l - 1 : after[j].needed > 0,
      done   |-> now.needed = 0 /\ l = top]

(* A level that has run out of both ends, and so does the pair above it.    *)
LevelEnds(s) ==
  [s EXCEPT !.levels[s.level].needed = 0, !.levels[s.level + 1].pair = Infinite, !.level = @ + 1]

RECURSIVE Loop(_, _, _)
Loop(s, list, top) ==
  IF s.done THEN s
  ELSE LET at == s.levels[s.level]
       IN Loop(IF at.pair = Infinite /\ at.char = Infinite THEN LevelEnds(s)
               ELSE LevelStep(s, list, top), list, top)

BitCounts(list, limit) ==
  LET n == Len(list)
      top == IF limit > n - 1 THEN n - 1 ELSE limit
      level(l) == [last |-> FreqAt(list, 1), char |-> FreqAt(list, 2),
                   pair |-> IF l <= 1 THEN Infinite ELSE FreqAt(list, 0) + FreqAt(list, 1),
                   needed |-> IF l = top THEN 2 * n - 4 ELSE 0]
      end == Loop([levels |-> [l \in 0 .. top + 1 |-> level(l)],
                   leaves |-> [l \in 0 .. top |-> [k \in 0 .. top |-> IF k = l /\ l > 0 THEN 2 ELSE 0]],
                   level |-> top, done |-> FALSE], list, top)
      counts == end.leaves[top]
  IN [bits \in 1 .. top |-> counts[top + 1 - bits] - counts[top - bits]]

ByFreq(a, b) == a.freq < b.freq \/ (a.freq = b.freq /\ a.literal < b.literal)

(* Codes of each length in turn, the symbols of a length in order, and the  *)
(* most frequent first.                                                     *)
AssignEncodingAndSize(bitCount, list) ==
  LET longer(n) == Total(LAMBDA k: bitCount[k], n)
      first[n \in 0 .. Len(bitCount)] ==
        IF n = 0 THEN 0 ELSE 2 * (first[n - 1] + (IF n = 1 THEN 0 ELSE bitCount[n - 1]))
      chunk(n) == SortSeq(SubSeq(list, Len(list) - longer(n) + 1, Len(list) - longer(n - 1)),
                          LAMBDA a, b: a.literal < b.literal)
  IN [n \in DOMAIN bitCount |-> [i \in DOMAIN chunk(n) |->
        [literal |-> chunk(n)[i].literal, code |-> ReverseBits(first[n] + i - 1, n)]]]

Generate(f, limit) ==
  LET symbols == Used(f)
      used == [i \in DOMAIN symbols |-> [literal |-> symbols[i], freq |-> f[symbols[i]]]]
      list == SortSeq(used, ByFreq)
      given == IF Len(used) <= 2
               THEN [i \in DOMAIN used |-> [literal |-> used[i].literal, code |-> <<i - 1>>]]
               ELSE FlattenSeq(AssignEncodingAndSize(BitCounts(list, limit), list))
  IN [i \in DOMAIN f |-> IF f[i] = 0 THEN <<>>
                         ELSE given[CHOOSE k \in DOMAIN given : given[k].literal = i].code]

FixedLiteralEncoding ==
  [ch \in 0 .. MaxNumLit - 1 |->
     IF ch < 144 THEN ReverseBits(ch + 48, 8)
     ELSE IF ch < 256 THEN ReverseBits(ch + 400 - 144, 9)
     ELSE IF ch < 280 THEN ReverseBits(ch - 256, 7)
     ELSE ReverseBits(ch + 192 - 280, 8)]
FixedOffsetEncoding == [ch \in 0 .. OffsetCodeCount - 1 |-> ReverseBits(ch, 5)]

-----------------------------------------------------------------------------
HuffmanInit ==
  /\ stream \in Streams /\ current = 1
  /\ freq = [literal |-> [i \in 0 .. MaxNumLit - 1 |-> 0],
             offset  |-> [i \in 0 .. OffsetCodeCount - 1 |-> 0],
             codegen |-> [i \in 0 .. CodegenCodeCount - 1 |-> 0]]
  /\ codes = [k \in DOMAIN freq |-> [i \in DOMAIN freq[k] |-> <<>>]]
  /\ lengths = <<>> /\ sizes = [fixed |-> 0, dynamic |-> 0, stored |-> 0] /\ out = <<>>
  /\ phase = "index"

Block == stream[current]
Tokens == Append(Block.tokens, EndBlock)
Matches == SelectSeq(Tokens, LAMBDA t: t.length # 0)

(* index_tokens: what the tokens use, with one offset at least.             *)
IndexTokens ==
  /\ phase = "index"
  /\ LET symbols == [i \in DOMAIN Tokens |-> SymbolOf(Tokens[i])]
         offsets == [i \in DOMAIN Matches |-> OffsetCode(TokenOffset(Matches[i]))]
         literal == [i \in 0 .. MaxNumLit - 1 |-> Occurrences(symbols, i)]
         offset == [i \in 0 .. OffsetCodeCount - 1 |->
                      IF Matches = <<>> /\ i = 0 THEN 1 ELSE Occurrences(offsets, i)]
     IN /\ freq' = [freq EXCEPT !.literal = literal, !.offset = offset]
        /\ codes' = [codes EXCEPT !.literal = Generate(literal, LiteralBits),
                                  !.offset = Generate(offset, OffsetBits)]
  /\ phase' = "codegen"
  /\ UNCHANGED <<stream, current, lengths, sizes, out>>

NumLiterals == UsedUpTo(freq.literal)
NumOffsets == UsedUpTo(freq.offset)

(* Symbols that stand for `least` to `most` repetitions each, while there   *)
(* are enough left of `count`; and what is left after them.                 *)
RECURSIVE Repeats(_, _, _, _)
Repeats(code, least, most, count) ==
  IF count < least THEN [symbols |-> <<>>, left |-> count]
  ELSE LET n == IF most > count THEN count ELSE most
           rest == Repeats(code, least, most, count - n)
       IN [symbols |-> <<[code |-> code, extra |-> n - least]>> \o rest.symbols, left |-> rest.left]

(* A run of one length, as symbols of the code of lengths.                  *)
RunSymbols(size, count) ==
  LET plain(n) == [i \in 1 .. n |-> [code |-> size, extra |-> 0]]
      repeats == Repeats(16, 3, 6, count - 1)
      long == Repeats(18, 11, 138, count)
      short == IF long.left >= 3 THEN <<[code |-> 17, extra |-> long.left - 3]>> ELSE <<>>
  IN IF size # 0 THEN plain(1) \o repeats.symbols \o plain(repeats.left)
     ELSE long.symbols \o short \o plain(IF short = <<>> THEN long.left ELSE 0)

LengthsOf(code, n) == [i \in 1 .. n |-> Len(code[i - 1])]
(* A mutant: the lengths of the offsets' codes come first.                  *)
OffsetsFirst == LengthsOf(codes.offset, NumOffsets) \o LengthsOf(codes.literal, NumLiterals)
CodeLengths == LengthsOf(codes.literal, NumLiterals) \o LengthsOf(codes.offset, NumOffsets)

RunEnds(seq) == SelectSeq([i \in DOMAIN seq |-> i], LAMBDA i: i = Len(seq) \/ seq[i + 1] # seq[i])

GenerateCodegen ==
  /\ phase = "codegen"
  /\ \E lens \in {CodeLengths} : \E ends \in {RunEnds(lens)} :
       lengths' = FlattenSeq([r \in DOMAIN ends |->
                    RunSymbols(lens[ends[r]], ends[r] - (IF r = 1 THEN 0 ELSE ends[r - 1]))])
  /\ \E f \in {[i \in 0 .. CodegenCodeCount - 1 |-> Cardinality({k \in DOMAIN lengths' : lengths'[k].code = i})]} :
       /\ freq' = [freq EXCEPT !.codegen = f]
       /\ codes' = [codes EXCEPT !.codegen = Generate(f, CodegenBits)]
  /\ phase' = "sizes"
  /\ UNCHANGED <<stream, current, sizes, out>>

NumCodegens == Max({4} \cup {k \in 1 .. CodegenCodeCount : freq.codegen[CodegenOrder[k]] # 0})

Storable == Block.held /\ Len(Block.input) <= 65535
(* The bits beside the codes, counted only if the block might be stored.    *)
ExtraBits ==
  IF ~Storable THEN 0
  ELSE Total(LAMBDA c: freq.literal[LengthCodesStart + c - 1] * LengthExtraBits(c - 1), 29)
       + Total(LAMBDA c: freq.offset[c - 1] * OffsetExtraBits(c - 1), OffsetCodeCount)

(* A mutant: the extra bits of the code of lengths are not counted.         *)
HeaderSizeOfCodes == 3 + 5 + 5 + 4 + 3 * NumCodegens + BitLength(freq.codegen, codes.codegen)
HeaderSize == 3 + 5 + 5 + 4 + 3 * NumCodegens + BitLength(freq.codegen, codes.codegen)
              + 2 * freq.codegen[16] + 3 * freq.codegen[17] + 7 * freq.codegen[18]

MeasureBlock ==
  /\ phase = "sizes"
  /\ sizes' = [dynamic |-> HeaderSize + BitLength(freq.literal, codes.literal)
                           + BitLength(freq.offset, codes.offset) + ExtraBits,
               fixed   |-> 3 + BitLength(freq.literal, FixedLiteralEncoding)
                           + BitLength(freq.offset, FixedOffsetEncoding) + ExtraBits,
               stored  |-> (Len(Block.input) + 5) * 8]
  /\ phase' = "write"
  /\ UNCHANGED <<stream, current, freq, codes, lengths, out>>

UseDynamic == sizes.dynamic < sizes.fixed
Smaller == IF UseDynamic THEN sizes.dynamic ELSE sizes.fixed
UseStored == Storable /\ sizes.stored < Smaller

Padding(bits) == [k \in 1 .. (8 - (Len(bits) % 8)) % 8 |-> 0]
StoredHeader(bits, length, eof) ==
  LET flushed == bits \o BitsOf(IF eof THEN 1 ELSE 0, 3)
  IN flushed \o Padding(flushed) \o BitsOf(length, 16) \o BitsOf(65535 - length, 16)

DynamicHeader ==
  BitsOf(IF Block.eof THEN 5 ELSE 4, 3)
  \o BitsOf(NumLiterals - 257, 5) \o BitsOf(NumOffsets - 1, 5) \o BitsOf(NumCodegens - 4, 4)
  \o FlattenSeq([k \in 1 .. NumCodegens |-> BitsOf(Len(codes.codegen[CodegenOrder[k]]), 3)])
  \o FlattenSeq([i \in DOMAIN lengths |->
       codes.codegen[lengths[i].code]
       \o BitsOf(lengths[i].extra, CASE lengths[i].code = 16 -> 2 [] lengths[i].code = 17 -> 3
                                  [] lengths[i].code = 18 -> 7 [] OTHER -> 0)])
FixedHeader == BitsOf(IF Block.eof THEN 3 ELSE 2, 3)

TokenBits(t, literal, offset) ==
  IF t.length = 0 THEN literal[t.byte]
  ELSE LET lc == LengthCode(TokenLength(t))
           oc == OffsetCode(TokenOffset(t))
       IN literal[LengthCodesStart + lc]
          \o BitsOf(TokenLength(t) - LengthBase[lc + 1], LengthExtraBits(lc))
          \o offset[oc]
          \o BitsOf(TokenOffset(t) - OffsetBase[oc + 1], OffsetExtraBits(oc))
TokensBits(literal, offset) == FlattenSeq([i \in DOMAIN Tokens |-> TokenBits(Tokens[i], literal, offset)])

DynamicBits == DynamicHeader \o TokensBits(codes.literal, codes.offset)
FixedBits == FixedHeader \o TokensBits(FixedLiteralEncoding, FixedOffsetEncoding)
Written ==
  IF UseStored
  THEN StoredHeader(out, Len(Block.input), Block.eof)
       \o FlattenSeq([i \in DOMAIN Block.input |-> BitsOf(Block.input[i], 8)])
  ELSE out \o (IF UseDynamic THEN DynamicBits ELSE FixedBits)

EmitBlock ==
  /\ phase = "write" /\ current < Len(stream)
  /\ out' = Written
  /\ current' = current + 1
  /\ phase' = "index"
  /\ UNCHANGED <<stream, freq, codes, lengths, sizes>>

(* The last block, and the empty stored block that ends a stream of Go's.   *)
EmitLast ==
  /\ phase = "write" /\ current = Len(stream)
  /\ out' = LET closed == StoredHeader(Written, 0, TRUE) IN closed \o Padding(closed)
  /\ phase' = "closed"
  /\ UNCHANGED <<stream, current, freq, codes, lengths, sizes>>

HuffmanNext == IndexTokens \/ GenerateCodegen \/ MeasureBlock \/ EmitBlock \/ EmitLast
HuffmanDone == phase = "closed"
HuffmanSpec == HuffmanInit /\ [][HuffmanNext]_huffmanVars

-----------------------------------------------------------------------------
Reader == INSTANCE Inflate
AsBytes(input) == [i \in DOMAIN input |-> LiteralToken(input[i])]

(* A reader of the format finds in what is written the tokens of each       *)
(* block, or its bytes if it was stored, and then the block that ends it.   *)
ReadsBack ==
  phase = "closed" =>
    LET read == Reader!Blocks(out, 1)
    IN /\ Len(read) = Len(stream) + 1 /\ read[Len(read)] = <<>>
       /\ \A b \in DOMAIN stream :
            read[b] \in {stream[b].tokens} \cup (IF stream[b].held THEN {AsBytes(stream[b].input)} ELSE {})

(* Every code is complete, none is longer than its limit, and no lengths    *)
(* within it make the whole shorter: bit_counts, its assertion included.    *)
Cost(f, lens, used) == Total(LAMBDA i: f[used[i]] * lens[i], Len(used))
Kraft(lens, limit) == Total(LAMBDA i: 2 ^ (limit - lens[i]), Len(lens))
IsOptimal(f, code, limit) ==
  LET used == SortSeq(Used(f),
                      LAMBDA i, j: f[i] < f[j] \/ (f[i] = f[j] /\ i < j))
      lens == [i \in DOMAIN used |-> Len(code[used[i]])]
      n == Len(used)
  IN n > 2 => /\ \A i \in DOMAIN used : lens[i] \in 1 .. limit
              /\ Kraft(lens, limit) = 2 ^ limit
              /\ n <= 6 /\ limit <= 4 => \A other \in [1 .. n -> 1 .. limit] :
                   /\ \A i \in 1 .. n - 1 : other[i] >= other[i + 1]
                   /\ Kraft(other, limit) <= 2 ^ limit
                   => Cost(f, other, used) >= Cost(f, lens, used)
CodesAreOptimal ==
  /\ phase = "codegen" => /\ IsOptimal(freq.literal, codes.literal, LiteralBits)
                       /\ IsOptimal(freq.offset, codes.offset, OffsetBits)
  /\ phase = "sizes" => IsOptimal(freq.codegen, codes.codegen, CodegenBits)

(* The sizes compared are those of what would be written, extra bits and    *)
(* all, and the smallest is; but a block without matches is reckoned with   *)
(* the offset code it does not use, and may be that much longer.            *)
SmallestIsWritten ==
  phase = "write" =>
    LET unused(code) == IF Matches = <<>> THEN Len(code[0]) ELSE 0
        n == Len(Written) - Len(out)
    IN /\ Storable => /\ sizes.dynamic = Len(DynamicBits) + unused(codes.offset)
                      /\ sizes.fixed = Len(FixedBits) + unused(FixedOffsetEncoding)
                      /\ n <= sizes.stored
       /\ n <= Len(DynamicBits) + unused(codes.offset)
       /\ n <= Len(FixedBits) + unused(FixedOffsetEncoding)

(* No block is longer than it has to be, as far as Go reckons.              *)
BlocksAreShort == CodesAreOptimal /\ SmallestIsWritten
=============================================================================
