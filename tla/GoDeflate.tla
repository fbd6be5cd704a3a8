------------------------------ MODULE GoDeflate ------------------------------
(***************************************************************************)
(* The matcher of crates/json-gzip/src/go_flate.rs, a port of Go's         *)
(* compress/flate: data goes through a window of two halves, which is      *)
(* shifted when its end is near; chains of positions with the same hash    *)
(* lead to earlier copies of what follows; a match is held back one byte   *)
(* in case the next position has a longer one.                             *)
(*                                                                         *)
(* The sizes are parameters (the code has 2^15, 4, 258, 2^14, 2^24, 4096   *)
(* and a hash of 17 bits).  A token is a record: a byte if its length is   *)
(* 0, otherwise a match.  What the writer makes of a block is GoHuffman.   *)
(***************************************************************************)
EXTENDS Integers, Sequences

CONSTANTS ByteValues,
          Contents,       \* the contents compressed, sequences of bytes
          Levels,         \* records [good, lazy, nice, chain] of level_params
          WindowSize, MinMatch, MaxMatch, MaxBlockTokens, MaxHashOffset,
          TooFar,         \* 4096: no match of the least length from further
          HashSize,
          HashOf(_),      \* of MinMatch bytes
          NoBlockStart    \* i32::MAX: further than a block reaches

ASSUME SizesAssumption ==
  /\ {WindowSize, MinMatch, MaxMatch, MaxBlockTokens, MaxHashOffset, TooFar, HashSize, NoBlockStart} \subseteq Nat
  /\ MinMatch >= 2 /\ MaxMatch >= MinMatch
  /\ WindowSize > MinMatch + MaxMatch
  /\ MaxBlockTokens >= 1 /\ MaxHashOffset >= 1
  /\ NoBlockStart > MaxBlockTokens * MaxMatch
ASSUME InputsAssumption ==
  /\ Contents \subseteq Seq(ByteValues)
  /\ Levels \subseteq [good : Nat, lazy : Nat, nice : Nat, chain : Nat]
  /\ \A s \in [1 .. MinMatch -> ByteValues] : HashOf(s) \in 0 .. HashSize - 1

VARIABLES data, params, taken, window, windowEnd, index, blockStart, byteAvailable,
          length, offset, chainHead, hashOffset, hash, tokens, blocks, sync, step
fixed == <<data, params>>
windowVars == <<taken, window, windowEnd>>
deflateVars == <<fixed, windowVars, index, blockStart, byteAvailable, length, offset,
          chainHead, hashOffset, hash, tokens, blocks, sync, step>>

Literal(b) == [length |-> 0, offset |-> 0, byte |-> b]
MatchOf(l, o) == [length |-> l, offset |-> o, byte |-> 0]
NoMatch == [length |-> MinMatch - 1, offset |-> 0]

DeflateInit ==
  /\ data \in Contents /\ params \in Levels
  /\ taken = 0 /\ windowEnd = 0 /\ index = 0 /\ blockStart = 0
  /\ window = [i \in 0 .. 2 * WindowSize - 1 |-> 0]
  /\ byteAvailable = FALSE /\ length = MinMatch - 1 /\ offset = 0
  /\ chainHead = -1 /\ hashOffset = 1
  /\ hash = [head |-> [h \in 0 .. HashSize - 1 |-> 0], prev |-> [i \in 0 .. WindowSize - 1 |-> 0]]
  /\ tokens = <<>> /\ blocks = <<>>
  /\ sync = (data = <<>>) /\ step = "deflate"

Lookahead == windowEnd - index
MaxInsertIndex == windowEnd - (MinMatch - 1)
ByteAt(i) == window[i]

Slice(from, to) == [i \in 1 .. to - from |-> ByteAt(from + i - 1)]

(* A hash of the MinMatch bytes at i: some that are not equal have one hash. *)
Hash4(i) == HashOf(Slice(i, i + MinMatch))

Agree(i, pos, n) == \A k \in 1 .. n : ByteAt(i + k - 1) = ByteAt(pos + k - 1)
MatchLen(i, pos) ==
  LET most == IF Lookahead < MaxMatch THEN Lookahead ELSE MaxMatch
  IN CHOOSE n \in 0 .. most : Agree(i, pos, n) /\ (n = most \/ ByteAt(i + n) # ByteAt(pos + n))

InsertHash(tables, i) ==
  LET h == Hash4(i)
  IN [prev |-> [tables.prev EXCEPT ![i % WindowSize] = tables.head[h]],
      head |-> [tables.head EXCEPT ![h] = i + hashOffset]]

(* find_match at the next place of a chain: a longer match is taken, and    *)
(* the search is over with one that is nice enough or at the window's edge. *)
Probe(chains, s) ==
  LET n == IF ByteAt(index + s.best.length) = ByteAt(s.at + s.best.length) THEN MatchLen(s.at, index) ELSE 0
      better == n > s.best.length /\ (n > MinMatch \/ index - s.at <= TooFar)
      nice == n >= params.nice \/ n >= Lookahead \/ n >= MaxMatch
      next == chains[s.at % WindowSize] - hashOffset
  IN IF s.over THEN s
     ELSE [at   |-> next,
           best |-> IF better THEN [length |-> n, offset |-> index - s.at] ELSE s.best,
           over |-> \/ better /\ nice
                    \/ s.at = index - WindowSize
                    \/ next < index - WindowSize
                    \/ next < 0]

Search(chains, head, tries) ==
  LET probes[n \in 0 .. tries] ==
        IF n = 0 THEN [at |-> head, best |-> NoMatch, over |-> FALSE] ELSE Probe(chains, probes[n - 1])
  IN probes[tries].best

Tries == IF MinMatch - 1 >= params.good THEN params.chain \div 4 ELSE params.chain
FindMatch(chains, head) == Search(chains, head, Tries)

(* Compressor::write_block: the writer is handed the tokens and, unless the *)
(* block began in what has left the window, the bytes they stand for.       *)
WriteBlock(toks, i) ==
  IF i = 0 THEN UNCHANGED <<blocks, blockStart>>
  ELSE /\ blocks' = Append(blocks, [tokens |-> toks,
                                    held   |-> blockStart <= i,
                                    input  |-> IF blockStart <= i THEN Slice(blockStart, i) ELSE <<>>])
       /\ blockStart' = i

(* A token is pushed, and the block is written if it is the last it takes.  *)
Push(token, i) ==
  LET toks == Append(tokens, token)
  IN IF Len(toks) = MaxBlockTokens
     THEN WriteBlock(toks, i) /\ tokens' = <<>>
     ELSE tokens' = toks /\ UNCHANGED <<blocks, blockStart>>

AwaitInput ==
  /\ step = "deflate" /\ ~sync
  /\ Lookahead < MinMatch + MaxMatch
  /\ step' = "fill"
  /\ UNCHANGED <<fixed, windowVars, index, blockStart, byteAvailable, length, offset,
                 chainHead, hashOffset, hash, tokens, blocks, sync>>

FlushTail ==
  /\ step = "deflate" /\ sync /\ Lookahead = 0
  /\ LET toks == IF byteAvailable THEN Append(tokens, Literal(ByteAt(index - 1))) ELSE tokens
     IN IF toks = <<>> THEN UNCHANGED <<blocks, blockStart>> ELSE WriteBlock(toks, index)
  /\ byteAvailable' = FALSE /\ tokens' = <<>>
  /\ step' = "closed"
  /\ UNCHANGED <<fixed, windowVars, index, length, offset, chainHead, hashOffset, hash, sync>>

(* The tables with this position entered, and the chain it was put before.  *)
Entered == IF index < MaxInsertIndex THEN InsertHash(hash, index) ELSE hash
Chain == IF index < MaxInsertIndex THEN hash.head[Hash4(index)] ELSE chainHead

Found ==
  IF /\ Chain - hashOffset >= (IF index < WindowSize THEN 0 ELSE index - WindowSize)
     /\ Lookahead > length
     /\ length < params.lazy
  THEN FindMatch(Entered.prev, Chain - hashOffset)
  ELSE NoMatch

Active == step = "deflate" /\ Lookahead > 0 /\ (sync \/ Lookahead >= MinMatch + MaxMatch)
HeldMatchStands == length >= MinMatch /\ Found.length <= length

(* The tables when the n positions after this one are entered as well.      *)
EnteredUpTo(n) ==
  LET tables[k \in 0 .. n] ==
        IF k = 0 THEN Entered
        ELSE IF index + k < MaxInsertIndex THEN InsertHash(tables[k - 1], index + k) ELSE tables[k - 1]
  IN tables[n]

(* The match found a position ago is no worse than the one here.            *)
EmitMatch ==
  /\ Active /\ HeldMatchStands
  /\ LET next == index + length - 1
     IN /\ hash' = EnteredUpTo(next - index - 1)
        /\ index' = next
        /\ Push(MatchOf(length, offset), next)
  /\ offset' = Found.offset /\ chainHead' = Chain
  /\ byteAvailable' = FALSE /\ length' = MinMatch - 1
  /\ UNCHANGED <<fixed, windowVars, hashOffset, sync, step>>

(* Otherwise the byte before goes out, and what was found here is held.     *)
Advance ==
  /\ Active /\ ~HeldMatchStands
  /\ IF byteAvailable THEN Push(Literal(ByteAt(index - 1)), index)
     ELSE UNCHANGED <<tokens, blocks, blockStart>>
  /\ length' = Found.length /\ offset' = Found.offset
  /\ hash' = Entered /\ chainHead' = Chain
  /\ index' = index + 1 /\ byteAvailable' = TRUE
  /\ UNCHANGED <<fixed, windowVars, hashOffset, sync, step>>

ShiftNeeded == index >= 2 * WindowSize - (MinMatch + MaxMatch)
(* A mutant: the start of the block moves with the window, wherever it is.  *)
ClampedStart == IF blockStart >= WindowSize THEN blockStart - WindowSize ELSE 0
ShiftedStart == IF blockStart >= WindowSize THEN blockStart - WindowSize ELSE NoBlockStart

Rebased(table, delta) == [i \in DOMAIN table |-> IF table[i] > delta THEN table[i] - delta ELSE 0]

ShiftedOffset == hashOffset + WindowSize

FillDeflate ==
  /\ step = "fill"
  /\ LET by == IF ShiftNeeded THEN WindowSize ELSE 0
         room == 2 * WindowSize - (windowEnd - by)
         left == Len(data) - taken
         n == IF room < left THEN room ELSE left
         end == windowEnd - by
     IN /\ window' = [i \in DOMAIN window |->
                        IF i \in end .. end + n - 1 THEN data[taken + i - end + 1]
                        ELSE IF i + by \in DOMAIN window THEN window[i + by]
                        ELSE window[i]]
        /\ windowEnd' = end + n
        /\ taken' = taken + n
        /\ index' = index - by
        /\ sync' = (taken + n = Len(data))
  /\ blockStart' = IF ShiftNeeded THEN ShiftedStart ELSE blockStart
  /\ LET far == IF ShiftNeeded THEN ShiftedOffset ELSE hashOffset
         delta == IF far > MaxHashOffset THEN far - 1 ELSE 0
     IN /\ hashOffset' = far - delta
        /\ chainHead' = chainHead - delta
        /\ hash' = IF delta = 0 THEN hash
                   ELSE [head |-> Rebased(hash.head, delta), prev |-> Rebased(hash.prev, delta)]
  /\ step' = "deflate"
  /\ UNCHANGED <<fixed, byteAvailable, length, offset, tokens, blocks>>

DeflateNext == AwaitInput \/ FillDeflate \/ EmitMatch \/ Advance \/ FlushTail
DeflateDone == step = "closed"
DeflateSpec == DeflateInit /\ [][DeflateNext]_deflateVars

-----------------------------------------------------------------------------
(* A reader's expansion of tokens: RFC 1951, byte by byte.                  *)
CopyByte(text, back) ==
  Append(text, IF back \in 1 .. Len(text) THEN text[Len(text) + 1 - back] ELSE -1)
Extended(text, t) ==
  LET copied[k \in 0 .. t.length] == IF k = 0 THEN text ELSE CopyByte(copied[k - 1], t.offset)
  IN IF t.length = 0 THEN Append(text, t.byte) ELSE copied[t.length]
Expand(text, toks) ==
  LET after[n \in 0 .. Len(toks)] == IF n = 0 THEN text ELSE Extended(after[n - 1], toks[n])
  IN after[Len(toks)]
TextOfBlocks(n) ==
  LET after[b \in 0 .. n] == IF b = 0 THEN <<>> ELSE Expand(after[b - 1], blocks[b].tokens)
  IN after[n]
Emitted == Expand(TextOfBlocks(Len(blocks)), tokens)
Position(i) == taken - windowEnd + i      \* of an index of the window, in the data
CanBeWritten(toks) ==
  \A i \in DOMAIN toks : toks[i].length # 0 =>
    toks[i].length \in MinMatch .. MaxMatch /\ toks[i].offset \in 1 .. WindowSize

(* What has been emitted expands to what has been passed of the data,       *)
(* whatever was shifted out of the window, and in the end to all of it;     *)
(* every match is one the format can carry.                                 *)
TokensAreContent ==
  /\ Emitted = SubSeq(data, 1, Position(index) - (IF byteAvailable THEN 1 ELSE 0))
  /\ step = "closed" => Emitted = data
  /\ CanBeWritten(tokens) /\ \A b \in DOMAIN blocks : CanBeWritten(blocks[b].tokens)

(* The bytes a block would be stored as are those its tokens expand to.     *)
StoredBytesAreTheirTokens ==
  \A b \in DOMAIN blocks :
    /\ blocks[b].held =>
         blocks[b].input = SubSeq(data, Len(TextOfBlocks(b - 1)) + 1, Len(TextOfBlocks(b)))
    /\ Len(blocks[b].tokens) \in 1 .. MaxBlockTokens

(* The head of a chain is a position of that hash, after shifts of the      *)
(* window and after the positions have been counted anew.                   *)
HeadsAreWhereTheyHash ==
  \A h \in DOMAIN hash.head :
    LET i == hash.head[h] - hashOffset
    IN i >= 0 => i < MaxInsertIndex /\ Hash4(i) = h

(* However the window moves, what is emitted is the data, and the search    *)
(* keeps to positions that are there.                                       *)
DeflateIsFaithful == TokensAreContent /\ StoredBytesAreTheirTokens /\ HeadsAreWhereTheyHash
=============================================================================
