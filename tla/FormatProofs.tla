---------------------------- MODULE FormatProofs ----------------------------
(***************************************************************************)
(* Proofs about two formats.  GoDeflate: for contents of any length, any   *)
(* level, any sizes of window, match and block that satisfy the            *)
(* assumptions, and any hash, the tokens that are written expand to the    *)
(* data.  SnapshotLines: for any files, contexts, captures and requests    *)
(* that satisfy the assumptions, a line that is written is read again as   *)
(* what it shows, and whatever was done to the lines, what the readers say *)
(* of them is so.                                                          *)
(***************************************************************************)
EXTENDS GoDeflate, SnapshotLines, WellFoundedInduction, FiniteSetTheorems, TLAPS

-----------------------------------------------------------------------------
(* Recursion *)

LEMMA NatHasLeast ==
    ASSUME NEW S \in SUBSET Nat, S # {}
    PROVE  \E k \in S : \A j \in S : k <= j
<1>1. PICK k \in S : \A j \in S : ~ (<<j, k>> \in OpToRel(<, Nat))
    BY NatLessThanWellFounded, WFMin
<1>2. \A j \in S : ~ (j < k)
    BY <1>1 DEF OpToRel
<1> QED BY <1>2

\* A set that has 0 and with every number the next is all numbers.
LEMMA NatFromZero ==
    ASSUME NEW S, 0 \in S, \A n \in Nat : n \in S => n + 1 \in S
    PROVE  Nat \subseteq S
<1> SUFFICES ASSUME Nat \ S # {} PROVE FALSE
    OBVIOUS
<1>1. PICK k \in Nat \ S : \A j \in Nat \ S : k <= j
    BY NatHasLeast
<1>2. k - 1 \in Nat /\ k - 1 \in S
    BY <1>1
<1>3. (k - 1) + 1 = k
    BY <1>1
<1> QED BY <1>2, <1>3

\* A value for each step up to N, each found from the one before it, exists.
Steps(f, G, N) == \A n \in 1 .. N : f[n] = G[<<n, f[n - 1]>>]
LEMMA StepsExist ==
    ASSUME NEW N \in Nat, NEW S, NEW a \in S, NEW G \in [Nat \X S -> S]
    PROVE  \E f \in [0 .. N -> S] : f[0] = a /\ Steps(f, G, N)
<1> DEFINE T == {m \in Nat : \E f \in [0 .. m -> S] :
                   f[0] = a /\ \A n \in 1 .. m : f[n] = G[<<n, f[n - 1]>>]}
<1>1. 0 \in T
  <2> DEFINE g == [n \in 0 .. 0 |-> a]
  <2>1. g \in [0 .. 0 -> S] /\ g[0] = a /\ 1 .. 0 = {}
      OBVIOUS
  <2> HIDE DEF g
  <2> QED BY <2>1
<1>2. ASSUME NEW m \in Nat, m \in T
      PROVE  m + 1 \in T
  <2>1. PICK f \in [0 .. m -> S] : f[0] = a /\ \A n \in 1 .. m : f[n] = G[<<n, f[n - 1]>>]
      BY <1>2
  <2> DEFINE g == [n \in 0 .. m + 1 |-> IF n <= m THEN f[n] ELSE G[<<m + 1, f[m]>>]]
  <2>2. G[<<m + 1, f[m]>>] \in S
      OBVIOUS
  <2>3. g \in [0 .. m + 1 -> S]
      BY <2>2
  <2>4. g[0] = a
      BY <2>1
  <2>5. ASSUME NEW n \in 1 .. m + 1 PROVE g[n] = G[<<n, g[n - 1]>>]
    <3>1. g[n - 1] = f[n - 1]
        OBVIOUS
    <3>2. CASE n <= m
        BY <3>1, <3>2, <2>1
    <3>3. CASE n = m + 1
        BY <3>1, <3>3
    <3> QED BY <3>2, <3>3
  <2>6. m + 1 \in Nat
      OBVIOUS
  <2> HIDE DEF g
  <2> QED BY <2>3, <2>4, <2>5, <2>6
<1>3. N \in T
  <2> HIDE DEF T
  <2> QED BY <1>1, <1>2, NatFromZero
<1> QED BY <1>3 DEF Steps

\* What is found step by step from the same is the same.
AgreeStepwise(f, g, N) == f[0] = g[0] /\ \A n \in 1 .. N : f[n - 1] = g[n - 1] => f[n] = g[n]
LEMMA StepsAgree ==
    ASSUME NEW N \in Nat, NEW f, NEW g, AgreeStepwise(f, g, N)
    PROVE  \A n \in 0 .. N : f[n] = g[n]
<1> USE DEF AgreeStepwise
<1> DEFINE T == {n \in Nat : n <= N => f[n] = g[n]}
<1>1. 0 \in T
    OBVIOUS
<1>2. ASSUME NEW n \in Nat, n \in T PROVE n + 1 \in T
  <2> SUFFICES ASSUME n + 1 <= N PROVE f[n + 1] = g[n + 1]
      OBVIOUS
  <2>1. n + 1 \in 1 .. N /\ (n + 1) - 1 = n /\ f[n] = g[n]
      BY <1>2
  <2> QED BY <2>1
<1>3. Nat \subseteq T
  <2> HIDE DEF T
  <2> QED BY <1>1, <1>2, NatFromZero
<1> QED BY <1>3

-----------------------------------------------------------------------------
(* What tokens stand for *)

LEMMA PrefixIs ==
    ASSUME NEW S, NEW d \in Seq(S), NEW p \in 0 .. Len(d)
    PROVE  /\ SubSeq(d, 1, p) \in Seq(S) /\ Len(SubSeq(d, 1, p)) = p
           /\ \A i \in 1 .. p : SubSeq(d, 1, p)[i] = d[i]
OBVIOUS

LEMMA PrefixGrows ==
    ASSUME NEW S, NEW d \in Seq(S), NEW p \in Nat, p + 1 <= Len(d)
    PROVE  Append(SubSeq(d, 1, p), d[p + 1]) = SubSeq(d, 1, p + 1)
<1>1. p \in 0 .. Len(d) /\ p + 1 \in 0 .. Len(d)
    OBVIOUS
<1> DEFINE a == Append(SubSeq(d, 1, p), d[p + 1])
           b == SubSeq(d, 1, p + 1)
<1>2. d[p + 1] \in S
    OBVIOUS
<1>3. a \in Seq(S) /\ Len(a) = p + 1 /\ a[p + 1] = d[p + 1] /\ \A i \in 1 .. p : a[i] = d[i]
    BY <1>1, <1>2, PrefixIs
<1>4. b \in Seq(S) /\ Len(b) = p + 1 /\ \A i \in 1 .. p + 1 : b[i] = d[i]
    BY <1>1, PrefixIs
<1> HIDE DEF a, b
<1>5. \A i \in 1 .. p + 1 : a[i] = b[i]
    BY <1>3, <1>4
<1> QED BY <1>3, <1>4, <1>5 DEF a, b

\* Byte by byte, a match copies what is further on in the data, if it is the same there.
LEMMA CopyIsData ==
    ASSUME NEW S, NEW d \in Seq(S), NEW p \in Nat, NEW t, t.length \in Nat \ {0}, t.offset \in 1 .. p,
           p + t.length <= Len(d),
           \A k \in 1 .. t.length : d[p + k] = d[p + k - t.offset]
    PROVE  Extended(SubSeq(d, 1, p), t) = SubSeq(d, 1, p + t.length)
<1> DEFINE N == t.length
           text == SubSeq(d, 1, p)
           f == [k \in 0 .. N |-> SubSeq(d, 1, p + k)]
<1>1. ASSUME NEW k \in 1 .. N PROVE f[k] = CopyByte(f[k - 1], t.offset)
  <2>1. PICK q \in Nat : q = p + k - 1 /\ q + 1 = p + k /\ q + 1 <= Len(d) /\ t.offset \in 1 .. q
      OBVIOUS
  <2>2. f[k - 1] = SubSeq(d, 1, q) /\ f[k] = SubSeq(d, 1, q + 1)
      BY <2>1
  <2>3. Len(SubSeq(d, 1, q)) = q /\ SubSeq(d, 1, q)[q + 1 - t.offset] = d[q + 1 - t.offset]
      BY <2>1, PrefixIs
  <2>4. d[q + 1 - t.offset] = d[q + 1]
      BY <2>1
  <2>5. Append(SubSeq(d, 1, q), d[q + 1]) = SubSeq(d, 1, q + 1)
      BY <2>1, PrefixGrows
  <2> QED BY <2>1, <2>2, <2>3, <2>4, <2>5 DEF CopyByte
<1>2. f[0] = text
    OBVIOUS
<1>3. f = [k \in 0 .. N |-> IF k = 0 THEN text ELSE CopyByte(f[k - 1], t.offset)]
  <2>1. \A k \in 0 .. N : k = 0 \/ k \in 1 .. N
      OBVIOUS
  <2> HIDE DEF text
  <2>2. ASSUME NEW k \in 0 .. N
        PROVE  f[k] = IF k = 0 THEN text ELSE CopyByte(f[k - 1], t.offset)
      BY <1>1, <1>2, <2>1
  <2>3. DOMAIN f = 0 .. N /\ f = [k \in 0 .. N |-> f[k]]
      OBVIOUS
  <2> HIDE DEF f
  <2> QED BY <2>2, <2>3
<1> DEFINE c == CHOOSE g : g = [k \in 0 .. N |-> IF k = 0 THEN text ELSE CopyByte(g[k - 1], t.offset)]
<1>4. c = [k \in 0 .. N |-> IF k = 0 THEN text ELSE CopyByte(c[k - 1], t.offset)]
  <2> HIDE DEF f
  <2> QED BY <1>3
<1>5. Extended(text, t) = c[N]
    BY DEF Extended
<1>6. f[N] = SubSeq(d, 1, p + N)
    OBVIOUS
<1>0. N \in Nat
    OBVIOUS
<1> HIDE DEF c, f, text, N
<1>7. c[0] = text /\ \A k \in 1 .. N : c[k] = CopyByte(c[k - 1], t.offset)
    BY <1>0, <1>4
<1>8. \A k \in 0 .. N : c[k] = f[k]
  <2>1. \A k \in 1 .. N : c[k - 1] = f[k - 1] => c[k] = f[k]
      BY <1>1, <1>7
  <2>2. c[0] = f[0]
      BY <1>2, <1>7
  <2>3. AgreeStepwise(c, f, N)
      BY <2>1, <2>2 DEF AgreeStepwise
  <2> QED BY <1>0, <2>3, StepsAgree
<1>9. c[N] = f[N]
    BY <1>0, <1>8
<1> QED BY <1>5, <1>6, <1>9 DEF text, N

LEMMA TokensAreData ==
    ASSUME NEW S, NEW d \in Seq(S), NEW toks, Len(toks) \in Nat,
           NEW ends \in [0 .. Len(toks) -> Nat],
           \A n \in 1 .. Len(toks) :
             Extended(SubSeq(d, 1, ends[n - 1]), toks[n]) = SubSeq(d, 1, ends[n])
    PROVE  Expand(SubSeq(d, 1, ends[0]), toks) = SubSeq(d, 1, ends[Len(toks)])
<1> DEFINE N == Len(toks)
           text == SubSeq(d, 1, ends[0])
           f == [n \in 0 .. N |-> SubSeq(d, 1, ends[n])]
           e == CHOOSE g : g = [n \in 0 .. N |-> IF n = 0 THEN text ELSE Extended(g[n - 1], toks[n])]
<1>1. ASSUME NEW n \in 1 .. N PROVE f[n] = Extended(f[n - 1], toks[n])
  <2>1. n \in 0 .. N /\ n - 1 \in 0 .. N
      OBVIOUS
  <2> QED BY <2>1
<1>2. f[0] = text /\ f[N] = SubSeq(d, 1, ends[N])
  <2>1. 0 \in 0 .. N /\ N \in 0 .. N
      OBVIOUS
  <2> HIDE DEF N
  <2> QED BY <2>1
<1>3. Expand(text, toks) = e[N]
    BY DEF Expand
<1>4. f = [n \in 0 .. N |-> f[n]] /\ \A n \in 0 .. N : n = 0 \/ n \in 1 .. N
    OBVIOUS
<1> HIDE DEF f, text, N
<1>5. f = [n \in 0 .. N |-> IF n = 0 THEN text ELSE Extended(f[n - 1], toks[n])]
  <2>1. \A n \in 0 .. N : f[n] = IF n = 0 THEN text ELSE Extended(f[n - 1], toks[n])
      BY <1>1, <1>2, <1>4
  <2> QED BY <1>4, <2>1
<1>6. e = [n \in 0 .. N |-> IF n = 0 THEN text ELSE Extended(e[n - 1], toks[n])]
    BY <1>5
<1> HIDE DEF e
<1>7. N \in Nat
    BY DEF N
<1>8. e[0] = text /\ \A n \in 1 .. N : e[n] = Extended(e[n - 1], toks[n])
    BY <1>6, <1>7
<1>9. \A n \in 0 .. N : e[n] = f[n]
  <2>1. \A n \in 1 .. N : e[n - 1] = f[n - 1] => e[n] = f[n]
      BY <1>1, <1>8
  <2>2. e[0] = f[0]
      BY <1>2, <1>8
  <2>3. AgreeStepwise(e, f, N)
      BY <2>1, <2>2 DEF AgreeStepwise
  <2> QED BY <1>7, <2>3, StepsAgree
<1> QED BY <1>2, <1>3, <1>7, <1>9 DEF text, N

LEMMA BlocksExpand ==
    ASSUME NEW S, NEW d \in Seq(S), Len(blocks) \in Nat,
           NEW starts \in [0 .. Len(blocks) -> Nat], starts[0] = 0,
           \A b \in 1 .. Len(blocks) :
             Expand(SubSeq(d, 1, starts[b - 1]), blocks[b].tokens) = SubSeq(d, 1, starts[b]),
           NEW m \in 0 .. Len(blocks)
    PROVE  TextOfBlocks(m) = SubSeq(d, 1, starts[m])
<1> DEFINE f == [b \in 0 .. m |-> SubSeq(d, 1, starts[b])]
           e == CHOOSE g : g = [b \in 0 .. m |-> IF b = 0 THEN <<>> ELSE Expand(g[b - 1], blocks[b].tokens)]
<1>0. m \in Nat /\ \A b \in 0 .. m : b = 0 \/ b \in 1 .. m
    OBVIOUS
<1>1. ASSUME NEW b \in 1 .. m PROVE f[b] = Expand(f[b - 1], blocks[b].tokens)
  <2>1. b \in 0 .. m /\ b - 1 \in 0 .. m /\ b \in 1 .. Len(blocks)
      OBVIOUS
  <2> QED BY <2>1
<1>2. f[0] = <<>> /\ f[m] = SubSeq(d, 1, starts[m])
  <2>1. SubSeq(d, 1, 0) = <<>>
      OBVIOUS
  <2>2. 0 \in 0 .. m /\ m \in 0 .. m
      OBVIOUS
  <2> QED BY <2>1, <2>2
<1>3. TextOfBlocks(m) = e[m]
    BY DEF TextOfBlocks
<1>4. f = [b \in 0 .. m |-> f[b]]
    OBVIOUS
<1> HIDE DEF f
<1>5. f = [b \in 0 .. m |-> IF b = 0 THEN <<>> ELSE Expand(f[b - 1], blocks[b].tokens)]
  <2>1. \A b \in 0 .. m : f[b] = IF b = 0 THEN <<>> ELSE Expand(f[b - 1], blocks[b].tokens)
      BY <1>0, <1>1, <1>2
  <2> QED BY <1>4, <2>1
<1>6. e = [b \in 0 .. m |-> IF b = 0 THEN <<>> ELSE Expand(e[b - 1], blocks[b].tokens)]
    BY <1>5
<1> HIDE DEF e
<1>7. e[0] = <<>> /\ \A b \in 1 .. m : e[b] = Expand(e[b - 1], blocks[b].tokens)
    BY <1>0, <1>6
<1>8. AgreeStepwise(e, f, m)
  <2>1. \A b \in 1 .. m : e[b - 1] = f[b - 1] => e[b] = f[b]
      BY <1>1, <1>7
  <2>2. e[0] = f[0]
      BY <1>2, <1>7
  <2> QED BY <2>1, <2>2 DEF AgreeStepwise
<1>9. \A b \in 0 .. m : e[b] = f[b]
    BY <1>0, <1>8, StepsAgree
<1>10. e[m] = f[m]
    BY <1>0, <1>9
<1> QED BY <1>2, <1>3, <1>10

-----------------------------------------------------------------------------
(* The inductive invariant *)

Token == [length : Nat, offset : Nat, byte : ByteValues \cup {0}]
Block == [tokens : Seq(Token), held : BOOLEAN, input : Seq(ByteValues)]
Tables == [head : [0 .. HashSize - 1 -> Nat], prev : [0 .. WindowSize - 1 -> Nat]]

DeflateTypeOK ==
  /\ data \in Seq(ByteValues) /\ params \in [good : Nat, lazy : Nat, nice : Nat, chain : Nat]
  /\ taken \in Nat /\ windowEnd \in Nat /\ index \in Nat /\ blockStart \in Int
  /\ window \in [0 .. 2 * WindowSize - 1 -> ByteValues \cup {0}]
  /\ byteAvailable \in BOOLEAN /\ sync \in BOOLEAN
  /\ length \in MinMatch - 1 .. MaxMatch /\ offset \in Nat
  /\ chainHead \in Int /\ hashOffset \in Nat \ {0} /\ hash \in Tables
  /\ tokens \in Seq(Token) /\ blocks \in Seq(Block)
  /\ step \in {"deflate", "fill", "closed"}

\* How far the window and the writer are.
Ranges ==
  /\ taken <= Len(data) /\ windowEnd <= taken /\ windowEnd <= 2 * WindowSize
  /\ index <= windowEnd
  /\ sync => taken = Len(data)
  /\ step = "closed" => sync /\ index = windowEnd /\ ~ byteAvailable
  /\ index = 0 => tokens = <<>> /\ ~ byteAvailable
  /\ Len(tokens) < MaxBlockTokens

WindowIsData == \A i \in 0 .. windowEnd - 1 : window[i] = data[Position(i) + 1]

\* So many of the n bytes that have been taken are in the data again that far back.
Repeats(d, n, p, size, back) ==
  /\ back \in 1 .. WindowSize /\ back <= p /\ p + size <= n
  /\ \A k \in 1 .. size : d[p + k] = d[p + k - back]

\* The match that is held back is one, from the byte before on.
HeldMatchIsOne ==
  length >= MinMatch => byteAvailable /\ Repeats(data, taken, Position(index) - 1, length, offset)

\* Every place on a chain is before this one.
ChainsLeadBack ==
  /\ chainHead - hashOffset < index
  /\ \A h \in 0 .. HashSize - 1 : hash.head[h] - hashOffset < index
  /\ \A i \in 0 .. WindowSize - 1 : hash.prev[i] - hashOffset < index

\* The data from p to q are what a token stands for, after p bytes.
Covers(d, t, p, q) ==
  IF t.length = 0 THEN q = p + 1 /\ t.byte = d[q]
  ELSE /\ q = p + t.length /\ t.length \in MinMatch .. MaxMatch
       /\ t.offset \in 1 .. WindowSize /\ t.offset <= p
       /\ \A k \in 1 .. t.length : d[p + k] = d[p + k - t.offset]
\* Tokens stand for what is between these places of the data.
Spans(d, toks, ends) ==
  /\ ends \in [0 .. Len(toks) -> 0 .. Len(d)]
  /\ \A n \in 1 .. Len(toks) :
       Covers(d, toks[n], ends[n - 1], ends[n]) /\ ends[n] <= ends[0] + n * MaxMatch
SpansTo(d, toks, p, q) ==
  \E ends \in [0 .. Len(toks) -> 0 .. Len(d)] :
    ends[0] = p /\ ends[Len(toks)] = q /\ Spans(d, toks, ends)

BlockIsData(d, block, p, q) ==
  /\ SpansTo(d, block.tokens, p, q)
  /\ Len(block.tokens) \in 1 .. MaxBlockTokens
  /\ block.held => block.input = SubSeq(d, p + 1, q)

\* Where the block that is open started, if the window has it yet after that
\* many bytes have gone from it; if not, further than the block reaches.
StartIsKnown(start, gone, p) ==
  \/ start >= 0 /\ gone + start = p
  \/ gone + start >= p + NoBlockStart

Gone == taken - windowEnd
Passed == Position(index) - (IF byteAvailable THEN 1 ELSE 0)
BlocksReach(d, bs, toks, start, gone, q, starts) ==
  /\ starts[0] = 0
  /\ \A b \in 1 .. Len(bs) : BlockIsData(d, bs[b], starts[b - 1], starts[b])
  /\ SpansTo(d, toks, starts[Len(bs)], q)
  /\ StartIsKnown(start, gone, starts[Len(bs)])
BlocksAreData ==
  \E starts \in [0 .. Len(blocks) -> 0 .. Len(data)] :
    BlocksReach(data, blocks, tokens, blockStart, Gone, Passed, starts)

DeflateInv ==
  /\ DeflateTypeOK /\ Ranges /\ WindowIsData /\ HeldMatchIsOne /\ ChainsLeadBack
  /\ HeadsAreWhereTheyHash /\ BlocksAreData

-----------------------------------------------------------------------------
(* What the invariant says of the tokens *)

LEMMA TokenIsData ==
    ASSUME data \in Seq(ByteValues), NEW t \in Token, NEW p \in Nat, NEW q \in Nat, q <= Len(data),
           Covers(data, t, p, q)
    PROVE  Extended(SubSeq(data, 1, p), t) = SubSeq(data, 1, q)
<1>1. CASE t.length = 0
  <2>1. Extended(SubSeq(data, 1, p), t) = Append(SubSeq(data, 1, p), t.byte)
      BY <1>1 DEF Extended
  <2>2. q = p + 1 /\ t.byte = data[p + 1]
      BY <1>1 DEF Covers
  <2> QED BY <2>1, <2>2, PrefixGrows
<1>2. CASE t.length # 0
  <2>1. MinMatch \in Nat /\ MaxMatch \in Nat /\ WindowSize \in Nat
      BY SizesAssumption
  <2>2. t.length \in Nat /\ t.offset \in Nat
      BY DEF Token
  <2>3. /\ q = p + t.length /\ t.offset \in 1 .. WindowSize /\ t.offset <= p
        /\ \A k \in 1 .. t.length : data[p + k] = data[p + k - t.offset]
      BY <1>2, Zenon DEF Covers
  <2>4. t.length \in Nat \ {0} /\ t.offset \in 1 .. p
      BY <1>2, <2>1, <2>2, <2>3
  <2> QED BY <2>3, <2>4, CopyIsData
<1> QED BY <1>1, <1>2

LEMMA SpannedIsData ==
    ASSUME data \in Seq(ByteValues), NEW toks \in Seq(Token), NEW p, NEW q, SpansTo(data, toks, p, q)
    PROVE  /\ p \in 0 .. Len(data) /\ q \in 0 .. Len(data)
           /\ Expand(SubSeq(data, 1, p), toks) = SubSeq(data, 1, q)
           /\ CanBeWritten(toks)
<1>1. PICK ends \in [0 .. Len(toks) -> 0 .. Len(data)] :
          ends[0] = p /\ ends[Len(toks)] = q /\ Spans(data, toks, ends)
    BY DEF SpansTo
<1>2. Len(toks) \in Nat /\ Len(data) \in Nat /\ \A n \in 1 .. Len(toks) : toks[n] \in Token
    OBVIOUS
<1>3. ASSUME NEW n \in 1 .. Len(toks)
      PROVE  Extended(SubSeq(data, 1, ends[n - 1]), toks[n]) = SubSeq(data, 1, ends[n])
  <2>1. PICK a \in 0 .. Len(data), b \in 0 .. Len(data) : a = ends[n - 1] /\ b = ends[n]
    <3>1. n - 1 \in 0 .. Len(toks) /\ n \in 0 .. Len(toks)
        BY <1>2
    <3> QED BY <1>1, <3>1
  <2>2. Covers(data, toks[n], a, b)
      BY <1>1, <2>1 DEF Spans
  <2>3. Extended(SubSeq(data, 1, a), toks[n]) = SubSeq(data, 1, b)
      BY <1>2, <2>2, TokenIsData
  <2> QED BY <2>1, <2>3
<1>4. ends \in [0 .. Len(toks) -> Nat]
    BY <1>1, <1>2
<1>5. Expand(SubSeq(data, 1, ends[0]), toks) = SubSeq(data, 1, ends[Len(toks)])
    BY <1>2, <1>3, <1>4, TokensAreData
<1>6. CanBeWritten(toks)
    BY <1>1, <1>2 DEF Spans, Covers, CanBeWritten
<1>7. 0 \in 0 .. Len(toks) /\ Len(toks) \in 0 .. Len(toks)
    BY <1>2
<1> QED BY <1>1, <1>5, <1>6, <1>7

LEMMA InvIsFaithful == DeflateInv => DeflateIsFaithful
<1> SUFFICES ASSUME DeflateInv PROVE DeflateIsFaithful
    OBVIOUS
<1>1. /\ data \in Seq(ByteValues) /\ tokens \in Seq(Token) /\ blocks \in Seq(Block)
      /\ Len(blocks) \in Nat /\ Len(data) \in Nat
    BY DEF DeflateInv, DeflateTypeOK
<1>2. PICK starts \in [0 .. Len(blocks) -> 0 .. Len(data)] : BlocksReach(data, blocks, tokens, blockStart, Gone, Passed, starts)
    BY DEF DeflateInv, BlocksAreData
<1>3. ASSUME NEW b \in 1 .. Len(blocks)
      PROVE  /\ starts[b - 1] \in 0 .. Len(data) /\ starts[b] \in 0 .. Len(data)
             /\ Expand(SubSeq(data, 1, starts[b - 1]), blocks[b].tokens) = SubSeq(data, 1, starts[b])
             /\ CanBeWritten(blocks[b].tokens)
  <2>0. blocks[b] \in Block
      BY <1>1
  <2>1. blocks[b].tokens \in Seq(Token)
      BY <2>0 DEF Block
  <2>2. SpansTo(data, blocks[b].tokens, starts[b - 1], starts[b])
      BY <1>2 DEF BlocksReach, BlockIsData
  <2> QED BY <1>1, <2>1, <2>2, SpannedIsData
<1>4. \A m \in 0 .. Len(blocks) : TextOfBlocks(m) = SubSeq(data, 1, starts[m])
  <2>1. starts \in [0 .. Len(blocks) -> Nat] /\ starts[0] = 0
      BY <1>1, <1>2 DEF BlocksReach
  <2> QED BY <1>1, <1>3, <2>1, BlocksExpand
<1>5. Emitted = SubSeq(data, 1, Passed) /\ CanBeWritten(tokens)
  <2>1. SpansTo(data, tokens, starts[Len(blocks)], Passed)
      BY <1>2 DEF BlocksReach
  <2>2. TextOfBlocks(Len(blocks)) = SubSeq(data, 1, starts[Len(blocks)])
      BY <1>1, <1>4
  <2>3. Expand(SubSeq(data, 1, starts[Len(blocks)]), tokens) = SubSeq(data, 1, Passed)
        /\ CanBeWritten(tokens)
      BY <1>1, <2>1, SpannedIsData
  <2> QED BY <2>2, <2>3 DEF Emitted
<1>6. step = "closed" => Passed = Len(data)
  <2> SUFFICES ASSUME step = "closed" PROVE Passed = Len(data)
      OBVIOUS
  <2>1. index = windowEnd /\ ~ byteAvailable /\ taken = Len(data)
      BY DEF DeflateInv, Ranges
  <2>2. taken \in Nat /\ windowEnd \in Nat
      BY DEF DeflateInv, DeflateTypeOK
  <2>3. Passed = Position(index) - 0
      BY <2>1, Zenon DEF Passed
  <2>4. Position(index) = taken
      BY <2>1, <2>2 DEF Position
  <2> QED BY <2>1, <2>2, <2>3, <2>4
<1>7. SubSeq(data, 1, Len(data)) = data
    BY <1>1
<1>8. \A b \in DOMAIN blocks : b \in 1 .. Len(blocks)
    BY <1>1
<1>9. TokensAreContent
    BY <1>3, <1>5, <1>6, <1>7, <1>8 DEF TokensAreContent, Passed
<1>10. StoredBytesAreTheirTokens
  <2> SUFFICES ASSUME NEW b \in 1 .. Len(blocks)
               PROVE  /\ blocks[b].held =>
                           blocks[b].input = SubSeq(data, Len(TextOfBlocks(b - 1)) + 1, Len(TextOfBlocks(b)))
                      /\ Len(blocks[b].tokens) \in 1 .. MaxBlockTokens
      BY <1>8 DEF StoredBytesAreTheirTokens
  <2>1. BlockIsData(data, blocks[b], starts[b - 1], starts[b])
      BY <1>2 DEF BlocksReach
  <2>2. b - 1 \in 0 .. Len(blocks) /\ b \in 0 .. Len(blocks)
      BY <1>1
  <2>3. TextOfBlocks(b - 1) = SubSeq(data, 1, starts[b - 1]) /\ TextOfBlocks(b) = SubSeq(data, 1, starts[b])
      BY <1>4, <2>2
  <2>5. \A p \in 0 .. Len(data) : Len(SubSeq(data, 1, p)) = p
      BY <1>1, PrefixIs
  <2>6. starts[b - 1] \in 0 .. Len(data) /\ starts[b] \in 0 .. Len(data)
      BY <1>3
  <2>4. Len(TextOfBlocks(b - 1)) = starts[b - 1] /\ Len(TextOfBlocks(b)) = starts[b]
      BY <2>3, <2>5, <2>6, ZenonT(30)
  <2> QED BY <2>1, <2>4 DEF BlockIsData
<1> QED BY <1>9, <1>10 DEF DeflateIsFaithful, DeflateInv

-----------------------------------------------------------------------------
(* The first state *)

LEMMA Sizes ==
    /\ WindowSize \in Nat /\ MinMatch \in Nat /\ MaxMatch \in Nat /\ MaxBlockTokens \in Nat
    /\ MaxHashOffset \in Nat /\ TooFar \in Nat /\ HashSize \in Nat /\ NoBlockStart \in Nat
    /\ MinMatch >= 2 /\ MaxMatch >= MinMatch /\ WindowSize > MinMatch + MaxMatch
    /\ MaxBlockTokens >= 1 /\ MaxHashOffset >= 1
BY SizesAssumption

LEMMA NothingSpans ==
    ASSUME data \in Seq(ByteValues), NEW p \in 0 .. Len(data)
    PROVE  SpansTo(data, <<>>, p, p)
<1> DEFINE ends == [n \in 0 .. 0 |-> p]
<1>1. Len(<<>>) = 0 /\ 1 .. 0 = {} /\ Len(data) \in Nat
    OBVIOUS
<1>2. ends \in [0 .. 0 -> 0 .. Len(data)] /\ ends[0] = p
    OBVIOUS
<1> HIDE DEF ends
<1> QED BY <1>1, <1>2 DEF SpansTo, Spans

LEMMA DeflateInvInit == DeflateInit => DeflateInv
<1> SUFFICES ASSUME DeflateInit PROVE DeflateInv
    OBVIOUS
<1>1. DeflateTypeOK
  <2>1. data \in Seq(ByteValues) /\ params \in [good : Nat, lazy : Nat, nice : Nat, chain : Nat]
      BY InputsAssumption DEF DeflateInit
  <2>2. hash \in Tables
      BY DEF DeflateInit, Tables
  <2>3. window \in [0 .. 2 * WindowSize - 1 -> ByteValues \cup {0}]
      BY DEF DeflateInit
  <2>4. tokens \in Seq(Token) /\ blocks \in Seq(Block)
      BY DEF DeflateInit
  <2>5. length \in MinMatch - 1 .. MaxMatch /\ offset \in Nat
      BY Sizes DEF DeflateInit
  <2>6. byteAvailable \in BOOLEAN /\ sync \in BOOLEAN /\ step \in {"deflate", "fill", "closed"}
      BY Zenon DEF DeflateInit
  <2>7. /\ taken \in Nat /\ windowEnd \in Nat /\ index \in Nat /\ blockStart \in Int
        /\ chainHead \in Int /\ hashOffset \in Nat \ {0}
      BY DEF DeflateInit
  <2> QED BY <2>1, <2>2, <2>3, <2>4, <2>5, <2>6, <2>7 DEF DeflateTypeOK
<1>2. Ranges
  <2>1. Len(data) \in Nat
      BY <1>1 DEF DeflateTypeOK
  <2>2. sync => 0 = Len(data)
      BY <1>1 DEF DeflateInit, DeflateTypeOK
  <2> QED BY <2>1, <2>2, Sizes DEF DeflateInit, Ranges
<1>3. WindowIsData /\ HeldMatchIsOne
    BY Sizes DEF DeflateInit, WindowIsData, HeldMatchIsOne
<1>4. ChainsLeadBack /\ HeadsAreWhereTheyHash
    BY Sizes DEF DeflateInit, ChainsLeadBack, HeadsAreWhereTheyHash
<1>5. BlocksAreData
  <2> DEFINE starts == [n \in 0 .. 0 |-> 0]
  <2>1. Len(blocks) = 0 /\ 1 .. 0 = {} /\ Len(data) \in Nat /\ data \in Seq(ByteValues) /\ tokens = <<>>
      BY <1>1 DEF DeflateInit, DeflateTypeOK
  <2>2. starts \in [0 .. 0 -> 0 .. Len(data)] /\ starts[0] = 0
      BY <2>1
  <2>3. Passed = 0 /\ Gone = 0 /\ blockStart = 0
    <3>1. ~ byteAvailable
        BY Zenon DEF DeflateInit
    <3>2. Passed = Position(index) - 0
        BY <3>1, Zenon DEF Passed
    <3> QED BY <3>2 DEF DeflateInit, Position, Gone
  <2>4. SpansTo(data, tokens, 0, 0)
      BY <2>1, NothingSpans
  <2> HIDE DEF starts
  <2>5. BlocksReach(data, blocks, tokens, blockStart, Gone, Passed, starts)
    <3>1. StartIsKnown(blockStart, Gone, starts[Len(blocks)])
        BY <2>1, <2>2, <2>3 DEF StartIsKnown
    <3> QED BY <2>1, <2>2, <2>3, <2>4, <3>1 DEF BlocksReach
  <2> QED BY <2>1, <2>2, <2>5 DEF BlocksAreData
<1> QED BY <1>1, <1>2, <1>3, <1>4, <1>5 DEF DeflateInv

-----------------------------------------------------------------------------
(* The search *)

\* A byte of the window is one of the data.
LEMMA WindowHolds ==
    ASSUME DeflateTypeOK, Ranges, WindowIsData, NEW i \in Nat, i < windowEnd
    PROVE  /\ window[i] = data[Position(i) + 1] /\ window[i] \in ByteValues
           /\ Position(i) \in Nat /\ Position(i) + 1 <= taken /\ Position(i) + 1 <= Len(data)
<1>1. taken \in Nat /\ windowEnd \in Nat /\ Len(data) \in Nat /\ taken <= Len(data) /\ windowEnd <= taken
    BY DEF DeflateTypeOK, Ranges
<1>2. Position(i) \in Nat /\ Position(i) + 1 <= taken /\ Position(i) + 1 <= Len(data)
    BY <1>1 DEF Position
<1>3. i \in 0 .. windowEnd - 1
    BY <1>1
<1>4. window[i] = data[Position(i) + 1]
    BY <1>3 DEF WindowIsData
<1>5. PICK p \in Nat : p = Position(i)
    BY <1>2
<1>6. p + 1 \in 1 .. Len(data)
    BY <1>1, <1>2, <1>5
<1>7. data[p + 1] \in ByteValues
    BY <1>6 DEF DeflateTypeOK
<1> QED BY <1>2, <1>4, <1>5, <1>7

LEMMA HashIsOne ==
    ASSUME DeflateTypeOK, Ranges, WindowIsData, NEW i \in Nat, i < MaxInsertIndex
    PROVE  Hash4(i) \in 0 .. HashSize - 1
<1>1. windowEnd \in Nat
    BY DEF DeflateTypeOK
<1>2. ASSUME NEW k \in 1 .. MinMatch PROVE window[i + k - 1] \in ByteValues
  <2>1. i + k - 1 \in Nat /\ i + k - 1 < windowEnd
      BY <1>1, Sizes DEF MaxInsertIndex
  <2> QED BY <2>1, WindowHolds
<1>3. i + MinMatch - i = MinMatch
    BY Sizes
<1>4. Slice(i, i + MinMatch) \in [1 .. MinMatch -> ByteValues]
  <2>1. Slice(i, i + MinMatch) = [k \in 1 .. MinMatch |-> window[i + k - 1]]
    <3>1. Slice(i, i + MinMatch) = [k \in 1 .. ((i + MinMatch) - i) |-> window[i + k - 1]]
        BY DEF Slice, ByteAt
    <3>2. 1 .. ((i + MinMatch) - i) = 1 .. MinMatch
        BY Sizes
    <3> QED BY <3>1, <3>2, Zenon
  <2> QED BY <1>2, <2>1
<1> QED BY <1>4, InputsAssumption DEF Hash4

LEMMA MatchLenIs ==
    ASSUME DeflateTypeOK, Ranges, NEW i \in Nat
    PROVE  /\ MatchLen(i, index) \in Nat
           /\ MatchLen(i, index) <= MaxMatch /\ index + MatchLen(i, index) <= windowEnd
           /\ \A k \in 0 .. MatchLen(i, index) - 1 : window[index + k] = window[i + k]
<1> DEFINE most == IF Lookahead < MaxMatch THEN Lookahead ELSE MaxMatch
           M == {n \in Nat : n = most \/ ByteAt(i + n) # ByteAt(index + n)}
<1>1. /\ index \in Nat /\ windowEnd \in Nat /\ most \in Nat
      /\ most <= MaxMatch /\ index + most <= windowEnd
    BY Sizes DEF DeflateTypeOK, Ranges, Lookahead
<1> HIDE DEF most
<1>2. PICK n \in M : \A m \in M : n <= m
  <2>1. M \in SUBSET Nat /\ most \in M
      BY <1>1
  <2> QED BY <2>1, NatHasLeast
<1>3. n \in 0 .. most
  <2>1. most \in M
      BY <1>1
  <2> QED BY <1>1, <1>2, <2>1
<1>4. Agree(i, index, n)
  <2> SUFFICES ASSUME NEW k \in 1 .. n PROVE ByteAt(i + k - 1) = ByteAt(index + k - 1)
      BY DEF Agree
  <2>1. PICK m \in Nat : m = k - 1 /\ m < n
      BY <1>3
  <2>2. m \notin M
      BY <1>2, <1>3, <2>1
  <2>3. ByteAt(i + m) = ByteAt(index + m)
      BY <2>2
  <2>4. i + k - 1 = i + m /\ index + k - 1 = index + m
      BY <1>1, <2>1
  <2> QED BY <2>3, <2>4
<1>5. n = most \/ ByteAt(i + n) # ByteAt(index + n)
    BY <1>2
<1>6. PICK len : len = MatchLen(i, index)
    OBVIOUS
<1>7. len \in 0 .. most /\ Agree(i, index, len)
  <2>1. \E x \in 0 .. most : Agree(i, index, x) /\ (x = most \/ ByteAt(i + x) # ByteAt(index + x))
      BY <1>3, <1>4, <1>5
  <2> DEFINE c == CHOOSE x \in 0 .. most :
                    Agree(i, index, x) /\ (x = most \/ ByteAt(i + x) # ByteAt(index + x))
  <2>2. c \in 0 .. most /\ Agree(i, index, c)
      BY <2>1
  <2>3. len = c
      BY <1>6 DEF MatchLen, most
  <2> HIDE DEF c
  <2> QED BY <2>2, <2>3
<1>8. ASSUME NEW k \in 0 .. len - 1 PROVE window[index + k] = window[i + k]
  <2>1. PICK m \in Nat : m = k + 1 /\ m \in 1 .. len
      BY <1>1, <1>7
  <2>2. ByteAt(i + m - 1) = ByteAt(index + m - 1)
      BY <1>7, <2>1 DEF Agree
  <2>3. i + m - 1 = i + k /\ index + m - 1 = index + k
      BY <1>1, <2>1
  <2> QED BY <2>2, <2>3 DEF ByteAt
<1>9. len \in Nat /\ len <= MaxMatch /\ index + len <= windowEnd
    BY <1>1, <1>7, Sizes
<1>10. \A k \in 0 .. len - 1 : window[index + k] = window[i + k]
    BY <1>8
<1> QED BY <1>6, <1>9, <1>10, Zenon

\* The bytes from here on are the same so far back, in the window.
Recurs(size, back) ==
  /\ back \in 1 .. WindowSize /\ back <= index /\ index + size <= windowEnd
  /\ \A k \in 0 .. size - 1 : window[index + k] = window[index + k - back]
GoodMatch(m) ==
  /\ m \in [length : Nat, offset : Nat]
  /\ MinMatch - 1 <= m.length /\ m.length <= MaxMatch
  /\ m.length >= MinMatch => Recurs(m.length, m.offset)
Reached == {i \in Nat : i < index /\ index - i <= WindowSize}
Probes ==
  {s \in [at : Int, best : [length : Nat, offset : Nat], over : BOOLEAN] :
     GoodMatch(s.best) /\ (s.over \/ s.at \in Reached)}

LEMMA NoMatchIsGood == GoodMatch(NoMatch)
BY Sizes DEF GoodMatch, NoMatch

LEMMA ProbeIsGood ==
    ASSUME DeflateTypeOK, Ranges, NEW chains \in [0 .. WindowSize - 1 -> Nat],
           \A i \in 0 .. WindowSize - 1 : chains[i] - hashOffset < index, NEW s \in Probes
    PROVE  Probe(chains, s) \in Probes
<1>1. CASE s.over
    BY <1>1 DEF Probe
<1>2. CASE ~ s.over
  <2>1. PICK i \in Nat : i = s.at /\ i < index /\ index - i <= WindowSize
      BY <1>2 DEF Probes, Reached
  <2>2. index \in Nat /\ windowEnd \in Nat /\ hashOffset \in Nat
      BY DEF DeflateTypeOK
  <2>3. PICK len \in Nat :
          /\ len = IF ByteAt(index + s.best.length) = ByteAt(i + s.best.length) THEN MatchLen(i, index) ELSE 0
          /\ len > 0 => /\ len <= MaxMatch /\ index + len <= windowEnd
                        /\ \A k \in 0 .. len - 1 : window[index + k] = window[i + k]
      BY MatchLenIs
  <2>4. PICK next \in Int : next = chains[i % WindowSize] - hashOffset /\ next < index
    <3>1. i % WindowSize \in 0 .. WindowSize - 1
        BY Sizes
    <3> QED BY <2>2, <3>1
  <2> DEFINE better == len > s.best.length /\ (len > MinMatch \/ index - i <= TooFar)
             nice == len >= params.nice \/ len >= Lookahead \/ len >= MaxMatch
             best == IF better THEN [length |-> len, offset |-> index - i] ELSE s.best
             over == (better /\ nice) \/ i = index - WindowSize \/ next < index - WindowSize \/ next < 0
  <2>5. Probe(chains, s) = [at |-> next, best |-> best, over |-> over]
      BY <1>2, <2>1, <2>3, <2>4 DEF Probe
  <2>6. GoodMatch(s.best) /\ s.best \in [length : Nat, offset : Nat]
      BY DEF Probes
  <2>7. GoodMatch(best)
    <3>1. CASE better
      <4>1. best = [length |-> len, offset |-> index - i]
          BY <3>1
      <4>2. best \in [length : Nat, offset : Nat] /\ best.length = len /\ best.offset = index - i
          BY <2>1, <2>2, <4>1
      <4>3. s.best.length \in Nat /\ MinMatch - 1 <= s.best.length /\ len > s.best.length
          BY <2>6, <3>1 DEF GoodMatch
      <4>4. len > 0 /\ len >= MinMatch
        <5>1. MinMatch \in Nat
            BY Sizes
        <5> QED BY <2>3, <4>3, <5>1
      <4>5. \A k \in 0 .. len - 1 : window[index + k] = window[index + k - (index - i)]
        <5> TAKE k \in 0 .. len - 1
        <5>1. index + k - (index - i) = i + k
            BY <2>1, <2>2
        <5> QED BY <2>3, <4>4, <5>1
      <4>6. index - i \in 1 .. WindowSize /\ index - i <= index
          BY <2>1, <2>2, Sizes
      <4> HIDE DEF best
      <4>7. Recurs(len, index - i)
          BY <2>3, <4>4, <4>5, <4>6 DEF Recurs
      <4> QED BY <2>3, <4>2, <4>4, <4>7, Sizes DEF GoodMatch
    <3>2. CASE ~ better
        BY <2>6, <3>2
    <3> QED BY <3>1, <3>2
  <2>8. over \in BOOLEAN /\ (over \/ next \in Reached)
    <3>1. over \in BOOLEAN
        BY Zenon
    <3>2. ASSUME ~ over PROVE next \in Reached
      <4>1. next >= index - WindowSize /\ next >= 0
          BY <2>2, <3>2, Sizes
      <4> QED BY <2>2, <2>4, <4>1, Sizes DEF Reached
    <3> QED BY <3>1, <3>2
  <2> HIDE DEF best, over
  <2>9. best \in [length : Nat, offset : Nat]
      BY <2>7 DEF GoodMatch
  <2> QED BY <2>5, <2>7, <2>8, <2>9 DEF Probes
<1> QED BY <1>1, <1>2

LEMMA SearchIsGood ==
    ASSUME DeflateTypeOK, Ranges, NEW chains \in [0 .. WindowSize - 1 -> Nat],
           \A i \in 0 .. WindowSize - 1 : chains[i] - hashOffset < index,
           NEW head \in Reached, NEW tries \in Nat
    PROVE  GoodMatch(Search(chains, head, tries))
<1> DEFINE a == [at |-> head, best |-> NoMatch, over |-> FALSE]
           G == [p \in Nat \X Probes |-> Probe(chains, p[2])]
           e == CHOOSE g : g = [n \in 0 .. tries |-> IF n = 0 THEN a ELSE Probe(chains, g[n - 1])]
<1>1. a \in Probes
  <2>1. head \in Int /\ NoMatch \in [length : Nat, offset : Nat]
      BY Sizes DEF Reached, NoMatch
  <2> QED BY <2>1, NoMatchIsGood DEF Probes
<1>2. G \in [Nat \X Probes -> Probes]
    BY ProbeIsGood
<1>3. \A n \in Nat, s \in Probes : G[<<n, s>>] = Probe(chains, s)
    OBVIOUS
<1>4. Search(chains, head, tries) = e[tries].best
    BY DEF Search
<1> HIDE DEF a, G
<1>5. PICK f \in [0 .. tries -> Probes] : f[0] = a /\ Steps(f, G, tries)
    BY <1>1, <1>2, StepsExist
<1>6. ASSUME NEW n \in 1 .. tries PROVE f[n] = Probe(chains, f[n - 1])
  <2>1. n \in Nat /\ f[n - 1] \in Probes
      OBVIOUS
  <2>2. f[n] = G[<<n, f[n - 1]>>]
      BY <1>5 DEF Steps
  <2> QED BY <1>3, <2>1, <2>2
<1>7. f = [n \in 0 .. tries |-> IF n = 0 THEN a ELSE Probe(chains, f[n - 1])]
  <2>1. \A n \in 0 .. tries : n = 0 \/ n \in 1 .. tries
      OBVIOUS
  <2>2. \A n \in 0 .. tries : f[n] = IF n = 0 THEN a ELSE Probe(chains, f[n - 1])
      BY <1>5, <1>6, <2>1
  <2> QED BY <2>2
<1>8. e = [n \in 0 .. tries |-> IF n = 0 THEN a ELSE Probe(chains, e[n - 1])]
    BY <1>7
<1> HIDE DEF e
<1>9. e[0] = a /\ \A n \in 1 .. tries : e[n] = Probe(chains, e[n - 1])
    BY <1>8
<1>10. AgreeStepwise(e, f, tries)
    BY <1>5, <1>6, <1>9 DEF AgreeStepwise
<1>11. e[tries] = f[tries]
    BY <1>10, StepsAgree
<1>12. f[tries] \in Probes
    OBVIOUS
<1> QED BY <1>4, <1>11, <1>12 DEF Probes

-----------------------------------------------------------------------------
(* The tables *)

\* The heads are before n and where they hash; so is everything a chain leads to.
GoodHead(t, h, n) ==
  /\ t.head[h] - hashOffset < n
  /\ t.head[h] - hashOffset >= 0 =>
       t.head[h] - hashOffset < MaxInsertIndex /\ Hash4(t.head[h] - hashOffset) = h
GoodTables(t, n) ==
  /\ t \in Tables
  /\ \A h \in 0 .. HashSize - 1 : GoodHead(t, h, n)
  /\ \A k \in 0 .. WindowSize - 1 : t.prev[k] - hashOffset < n

LEMMA TablesAreGood == DeflateInv => GoodTables(hash, index)
<1> SUFFICES ASSUME DeflateInv PROVE GoodTables(hash, index)
    OBVIOUS
<1>1. hash \in Tables /\ ChainsLeadBack /\ HeadsAreWhereTheyHash
    BY DEF DeflateInv, DeflateTypeOK
<1>2. DOMAIN hash.head = 0 .. HashSize - 1
    BY <1>1 DEF Tables
<1>3. \A h \in 0 .. HashSize - 1 : GoodHead(hash, h, index)
    BY <1>1, <1>2 DEF ChainsLeadBack, HeadsAreWhereTheyHash, GoodHead
<1> QED BY <1>1, <1>3 DEF GoodTables, ChainsLeadBack

LEMMA InsertIsGood ==
    ASSUME DeflateTypeOK, Ranges, WindowIsData, NEW i \in Nat, i < MaxInsertIndex,
           NEW t, GoodTables(t, i)
    PROVE  /\ GoodTables(InsertHash(t, i), i + 1)
           /\ \A k \in 0 .. WindowSize - 1 : InsertHash(t, i).prev[k] - hashOffset < i
<1>1. PICK h \in 0 .. HashSize - 1 : h = Hash4(i)
    BY HashIsOne
<1>2. hashOffset \in Nat /\ t \in Tables
    BY DEF DeflateTypeOK, GoodTables
<1>3. PICK u : u = InsertHash(t, i)
    OBVIOUS
<1>4. u = [prev |-> [t.prev EXCEPT ![i % WindowSize] = t.head[h]],
           head |-> [t.head EXCEPT ![h] = i + hashOffset]]
    BY <1>1, <1>3 DEF InsertHash
<1>5. /\ t.head \in [0 .. HashSize - 1 -> Nat] /\ t.prev \in [0 .. WindowSize - 1 -> Nat]
    BY <1>2 DEF Tables
<1>6. /\ u.head \in [0 .. HashSize - 1 -> Nat] /\ u.prev \in [0 .. WindowSize - 1 -> Nat]
      /\ u.head = [t.head EXCEPT ![h] = i + hashOffset]
      /\ u.prev = [t.prev EXCEPT ![i % WindowSize] = t.head[h]]
  <2>0. t.head[h] \in Nat
      BY <1>5
  <2>1. t.head[h] \in Nat /\ i + hashOffset \in Nat
      BY <1>2, <2>0
  <2>2. u.head = [t.head EXCEPT ![h] = i + hashOffset]
      BY <1>4
  <2>3. u.prev = [t.prev EXCEPT ![i % WindowSize] = t.head[h]]
      BY <1>4
  <2> QED BY <1>5, <2>1, <2>2, <2>3
<1>7. u \in Tables
    BY <1>4, <1>6 DEF Tables
<1>8. t.head[h] \in Nat /\ t.head[h] - hashOffset < i
    BY <1>5 DEF GoodTables, GoodHead
<1>9. \A k \in 0 .. WindowSize - 1 : u.prev[k] \in Nat /\ u.prev[k] - hashOffset < i
  <2> TAKE k \in 0 .. WindowSize - 1
  <2>1. u.prev[k] = t.prev[k] \/ u.prev[k] = t.head[h]
      BY <1>5, <1>6
  <2>2. t.prev[k] \in Nat /\ t.prev[k] - hashOffset < i
      BY <1>5 DEF GoodTables
  <2> QED BY <1>8, <2>1, <2>2
<1>10. ASSUME NEW g \in 0 .. HashSize - 1 PROVE GoodHead(u, g, i + 1)
  <2>1. CASE g = h
    <3>1. u.head[g] = i + hashOffset
        BY <1>5, <1>6, <2>1
    <3>2. u.head[g] - hashOffset = i
        BY <1>2, <3>1
    <3> QED BY <1>1, <2>1, <3>2 DEF GoodHead
  <2>2. CASE g # h
    <3>1. u.head[g] = t.head[g] /\ t.head[g] \in Nat
        BY <1>5, <1>6, <2>2
    <3>2. GoodHead(t, g, i)
        BY DEF GoodTables
    <3> QED BY <1>2, <3>1, <3>2 DEF GoodHead
  <2> QED BY <2>1, <2>2
<1>11. \A k \in 0 .. WindowSize - 1 : u.prev[k] - hashOffset < i + 1
    BY <1>2, <1>9
<1>12. GoodTables(u, i + 1)
    BY <1>7, <1>10, <1>11 DEF GoodTables
<1>13. \A k \in 0 .. WindowSize - 1 : u.prev[k] - hashOffset < i
    BY <1>9
<1> QED BY <1>3, <1>12, <1>13, Zenon

LEMMA GoodTablesGrow ==
    ASSUME DeflateTypeOK, NEW n \in Int, NEW m \in Int, n <= m, NEW t, GoodTables(t, n)
    PROVE  GoodTables(t, m)
<1>1. hashOffset \in Nat /\ t \in Tables
    BY DEF DeflateTypeOK, GoodTables
<1>2. t.head \in [0 .. HashSize - 1 -> Nat] /\ t.prev \in [0 .. WindowSize - 1 -> Nat]
    BY <1>1 DEF Tables
<1>3. ASSUME NEW h \in 0 .. HashSize - 1 PROVE GoodHead(t, h, m)
  <2>1. GoodHead(t, h, n) /\ t.head[h] \in Nat
      BY <1>2 DEF GoodTables
  <2> QED BY <1>1, <2>1 DEF GoodHead
<1>4. ASSUME NEW k \in 0 .. WindowSize - 1 PROVE t.prev[k] - hashOffset < m
  <2>1. t.prev[k] \in Nat /\ t.prev[k] - hashOffset < n
      BY <1>2 DEF GoodTables
  <2> QED BY <1>1, <2>1
<1> QED BY <1>1, <1>3, <1>4 DEF GoodTables

LEMMA EnteredIsGood ==
    ASSUME DeflateInv
    PROVE  /\ GoodTables(Entered, index + 1)
           /\ \A k \in 0 .. WindowSize - 1 : Entered.prev[k] - hashOffset < index
           /\ Chain \in Int /\ Chain - hashOffset < index
<1>1. /\ DeflateTypeOK /\ Ranges /\ WindowIsData /\ GoodTables(hash, index)
      /\ index \in Nat /\ hashOffset \in Nat /\ chainHead \in Int /\ chainHead - hashOffset < index
    BY TablesAreGood DEF DeflateInv, DeflateTypeOK, ChainsLeadBack
<1>2. CASE index < MaxInsertIndex
  <2>1. Entered = InsertHash(hash, index) /\ Chain = hash.head[Hash4(index)]
      BY <1>2 DEF Entered, Chain
  <2>2. GoodTables(Entered, index + 1) /\ \A k \in 0 .. WindowSize - 1 : Entered.prev[k] - hashOffset < index
      BY <1>1, <1>2, <2>1, InsertIsGood
  <2>3. PICK h \in 0 .. HashSize - 1 : h = Hash4(index)
      BY <1>1, <1>2, HashIsOne
  <2>4. hash.head[h] \in Nat /\ hash.head[h] - hashOffset < index
      BY <1>1 DEF GoodTables, GoodHead, Tables
  <2>5. Chain = hash.head[h]
      BY <2>1, <2>3
  <2> QED BY <2>2, <2>4, <2>5
<1>3. CASE ~ (index < MaxInsertIndex)
  <2>1. Entered = hash /\ Chain = chainHead
      BY <1>3 DEF Entered, Chain
  <2>2. GoodTables(hash, index + 1)
      BY <1>1, GoodTablesGrow
  <2>3. \A k \in 0 .. WindowSize - 1 : hash.prev[k] - hashOffset < index
      BY <1>1 DEF GoodTables
  <2> QED BY <1>1, <2>1, <2>2, <2>3
<1> QED BY <1>2, <1>3

LEMMA FoundIsGood ==
    ASSUME DeflateInv
    PROVE  GoodMatch(Found)
<1>1. /\ DeflateTypeOK /\ Ranges /\ index \in Nat /\ hashOffset \in Nat
      /\ params \in [good : Nat, lazy : Nat, nice : Nat, chain : Nat]
    BY DEF DeflateInv, DeflateTypeOK
<1>2. PICK head \in Int : head = Chain - hashOffset /\ head < index
    BY <1>1, EnteredIsGood
<1>3. PICK chains : chains = Entered.prev
    OBVIOUS
<1>4. chains \in [0 .. WindowSize - 1 -> Nat] /\ \A k \in 0 .. WindowSize - 1 : chains[k] - hashOffset < index
    BY <1>3, EnteredIsGood DEF GoodTables, Tables
<1>5. Tries \in Nat
    BY <1>1, Sizes DEF Tries
<1>6. CASE /\ head >= (IF index < WindowSize THEN 0 ELSE index - WindowSize)
           /\ Lookahead > length /\ length < params.lazy
  <2>1. head \in Reached
      BY <1>1, <1>2, <1>6, Sizes DEF Reached
  <2>2. Found = Search(chains, head, Tries)
      BY <1>2, <1>3, <1>6 DEF Found, FindMatch
  <2>3. PICK tries \in Nat : tries = Tries
      BY <1>5
  <2>4. GoodMatch(Search(chains, head, tries))
      BY <1>1, <1>4, <2>1, SearchIsGood
  <2> QED BY <2>2, <2>3, <2>4
<1>7. CASE ~ (/\ head >= (IF index < WindowSize THEN 0 ELSE index - WindowSize)
              /\ Lookahead > length /\ length < params.lazy)
  <2>1. Found = NoMatch
      BY <1>2, <1>7 DEF Found
  <2> QED BY <2>1, NoMatchIsGood
<1> QED BY <1>6, <1>7

LEMMA EnteredUpToIsGood ==
    ASSUME DeflateInv, NEW n \in Nat
    PROVE  GoodTables(EnteredUpTo(n), index + n + 1)
<1> DEFINE After(k, t) == IF index + k < MaxInsertIndex THEN InsertHash(t, index + k) ELSE t
           G == [p \in Nat \X Tables |-> IF After(p[1], p[2]) \in Tables THEN After(p[1], p[2]) ELSE p[2]]
           e == CHOOSE g : g = [k \in 0 .. n |-> IF k = 0 THEN Entered ELSE After(k, g[k - 1])]
<1>1. /\ DeflateTypeOK /\ Ranges /\ WindowIsData /\ index \in Nat /\ windowEnd \in Nat
      /\ GoodTables(Entered, index + 1) /\ Entered \in Tables
    BY EnteredIsGood DEF DeflateInv, DeflateTypeOK, GoodTables
<1>2. ASSUME NEW k \in Nat \ {0}, NEW t, GoodTables(t, index + k)
      PROVE  GoodTables(After(k, t), index + k + 1)
  <2>1. CASE index + k < MaxInsertIndex
    <3>1. PICK i \in Nat : i = index + k
        BY <1>1
    <3>2. GoodTables(InsertHash(t, i), i + 1)
        BY <1>1, <1>2, <2>1, <3>1, InsertIsGood
    <3>3. After(k, t) = InsertHash(t, i)
        BY <2>1, <3>1
    <3> QED BY <3>1, <3>2, <3>3
  <2>2. CASE ~ (index + k < MaxInsertIndex)
    <3>1. After(k, t) = t
        BY <2>2
    <3> HIDE DEF After
    <3> QED BY <1>1, <1>2, <3>1, GoodTablesGrow
  <2> QED BY <2>1, <2>2
<1>3. EnteredUpTo(n) = e[n]
    BY DEF EnteredUpTo
<1> HIDE DEF After
<1>4. G \in [Nat \X Tables -> Tables]
  <2>1. \A p \in Nat \X Tables : p[2] \in Tables
      OBVIOUS
  <2> QED BY <2>1
<1>5. \A k \in Nat, t \in Tables : After(k, t) \in Tables => G[<<k, t>>] = After(k, t)
    OBVIOUS
<1> HIDE DEF G
<1>6. PICK f \in [0 .. n -> Tables] : f[0] = Entered /\ Steps(f, G, n)
    BY <1>1, <1>4, StepsExist
<1> DEFINE T == {k \in Nat : k <= n =>
                   GoodTables(f[k], index + k + 1) /\ (k # 0 => f[k] = After(k, f[k - 1]))}
<1>7. 0 \in T
    BY <1>1, <1>6
<1>8. ASSUME NEW k \in Nat, k \in T PROVE k + 1 \in T
  <2> SUFFICES ASSUME k + 1 <= n
               PROVE  GoodTables(f[k + 1], index + (k + 1) + 1) /\ f[k + 1] = After(k + 1, f[k])
      OBVIOUS
  <2>1. f[k] \in Tables /\ k \in 0 .. n /\ k + 1 \in 1 .. n /\ (k + 1) - 1 = k
      OBVIOUS
  <2>2. GoodTables(f[k], index + (k + 1))
      BY <1>1, <1>8
  <2>3. GoodTables(After(k + 1, f[k]), index + (k + 1) + 1)
      BY <1>2, <2>2
  <2>4. f[k + 1] = G[<<k + 1, f[k]>>]
      BY <1>6, <2>1 DEF Steps
  <2>5. After(k + 1, f[k]) \in Tables
      BY <2>3 DEF GoodTables
  <2>6. f[k + 1] = After(k + 1, f[k])
      BY <1>5, <2>1, <2>4, <2>5
  <2> QED BY <2>3, <2>6
<1>9. \A k \in 0 .. n : k \in T
  <2>1. T \in SUBSET Nat
      OBVIOUS
  <2> HIDE DEF T
  <2> QED BY <1>7, <1>8, <2>1, NatFromZero
<1>10. f = [k \in 0 .. n |-> IF k = 0 THEN Entered ELSE After(k, f[k - 1])]
  <2>1. \A k \in 0 .. n : f[k] = IF k = 0 THEN Entered ELSE After(k, f[k - 1])
      BY <1>6, <1>9
  <2> QED BY <2>1
<1>11. GoodTables(f[n], index + n + 1)
    BY <1>9
<1> HIDE DEF T
<1>12. e = [k \in 0 .. n |-> IF k = 0 THEN Entered ELSE After(k, e[k - 1])]
    BY <1>10
<1> HIDE DEF e
<1>13. e[0] = Entered /\ \A k \in 1 .. n : e[k] = After(k, e[k - 1])
    BY <1>12
<1>14. \A k \in 1 .. n : f[k] = After(k, f[k - 1])
    BY <1>10
<1>15. AgreeStepwise(e, f, n)
    BY <1>6, <1>13, <1>14 DEF AgreeStepwise
<1>16. e[n] = f[n]
    BY <1>15, StepsAgree
<1> QED BY <1>3, <1>11, <1>16

-----------------------------------------------------------------------------
(* What is emitted *)

\* What recurs in the window recurs in the data.
LEMMA RecursRepeats ==
    ASSUME DeflateTypeOK, Ranges, WindowIsData, NEW size \in Nat, NEW back, Recurs(size, back)
    PROVE  Repeats(data, taken, Position(index), size, back)
<1>1. /\ taken \in Nat /\ windowEnd \in Nat /\ index \in Nat /\ windowEnd <= taken /\ index <= windowEnd
      /\ back \in 1 .. WindowSize /\ back <= index /\ index + size <= windowEnd
    BY DEF DeflateTypeOK, Ranges, Recurs
<1>2. PICK p \in Nat : p = Position(index) /\ p = taken - windowEnd + index
    BY <1>1 DEF Position
<1>3. back <= p /\ p + size <= taken
    BY <1>1, <1>2
<1>4. ASSUME NEW k \in 1 .. size PROVE data[p + k] = data[p + k - back]
  <2>1. PICK m \in 0 .. size - 1 : k = m + 1
      BY <1>1
  <2>2. window[index + m] = window[index + m - back]
      BY <2>1 DEF Recurs
  <2>3. PICK i \in Nat, j \in Nat : /\ i = index + m /\ j = index + m - back
                                    /\ i < windowEnd /\ j < windowEnd
      BY <1>1, <2>1, Sizes
  <2>4. window[i] = data[Position(i) + 1] /\ window[j] = data[Position(j) + 1]
      BY <2>3, WindowHolds
  <2>5. Position(i) + 1 = p + k /\ Position(j) + 1 = p + k - back
      BY <1>1, <1>2, <2>1, <2>3 DEF Position
  <2>6. data[p + k] = window[index + m] /\ data[p + k - back] = window[index + m - back]
      BY <2>3, <2>4, <2>5
  <2> QED BY <2>2, <2>6
<1> QED BY <1>1, <1>2, <1>3, <1>4 DEF Repeats

\* A token more.
LEMMA PushSpans ==
    ASSUME NEW S, NEW d \in Seq(S), NEW toks \in Seq(Token), NEW p, NEW q, SpansTo(d, toks, p, q),
           NEW t \in Token, NEW r \in 0 .. Len(d), Covers(d, t, q, r)
    PROVE  SpansTo(d, Append(toks, t), p, r)
<1>1. PICK ends \in [0 .. Len(toks) -> 0 .. Len(d)] :
          ends[0] = p /\ ends[Len(toks)] = q /\ Spans(d, toks, ends)
    BY DEF SpansTo
<1> DEFINE N == Len(toks)
           more == [n \in 0 .. N + 1 |-> IF n <= N THEN ends[n] ELSE r]
           all == Append(toks, t)
<1>2. N \in Nat /\ Len(all) = N + 1 /\ Len(d) \in Nat /\ all[N + 1] = t
      /\ \A n \in 1 .. N : all[n] = toks[n]
    OBVIOUS
<1>3. p \in Nat /\ q \in Nat /\ r \in Nat /\ q <= p + N * MaxMatch
  <2>1. 0 \in 0 .. N /\ N \in 0 .. N
      BY <1>2
  <2>2. p \in Nat /\ q \in Nat /\ r \in Nat
      BY <1>1, <1>2, <2>1
  <2>3. CASE N = 0
    <3>1. q = p /\ 0 * MaxMatch = 0
        BY <1>1, <2>3, Sizes
    <3> QED BY <2>2, <2>3, <3>1
  <2>4. CASE N # 0
    <3>1. N \in 1 .. N
        BY <1>2, <2>4
    <3>2. ends[N] <= ends[0] + N * MaxMatch
        BY <1>1, <3>1 DEF Spans
    <3> QED BY <1>1, <2>2, <3>2
  <2> QED BY <2>2, <2>3, <2>4
<1>4. r <= p + (N + 1) * MaxMatch
  <2>1. r <= q + MaxMatch
      BY <1>3, Sizes DEF Covers, Token
  <2>2. PICK b \in Nat : b = N * MaxMatch
      BY <1>2, Sizes
  <2>3. (N + 1) * MaxMatch = b + MaxMatch
      BY <1>2, <2>2, Sizes
  <2>4. r <= p + (b + MaxMatch)
      BY <1>3, <2>1, <2>2, Sizes
  <2> QED BY <2>3, <2>4
<1>5. more \in [0 .. N + 1 -> 0 .. Len(d)]
    BY <1>1, <1>2
<1>6. more[0] = p /\ more[N + 1] = r /\ \A n \in 0 .. N : more[n] = ends[n]
    BY <1>1, <1>2
<1> HIDE DEF N, more, all
<1>7. ASSUME NEW n \in 1 .. N + 1
      PROVE  Covers(d, all[n], more[n - 1], more[n]) /\ more[n] <= more[0] + n * MaxMatch
  <2>1. CASE n = N + 1
    <3>1. n - 1 = N /\ N \in 0 .. N
        BY <1>2, <2>1
    <3>2. more[n - 1] = q
        BY <1>1, <1>6, <3>1 DEF N
    <3> QED BY <1>2, <1>4, <1>6, <2>1, <3>2
  <2>2. CASE n \in 1 .. N
    <3>1. n \in 0 .. N /\ n - 1 \in 0 .. N /\ 0 \in 0 .. N
        BY <1>2, <2>2
    <3>2. Covers(d, toks[n], ends[n - 1], ends[n]) /\ ends[n] <= ends[0] + n * MaxMatch
        BY <1>1, <2>2 DEF Spans, N
    <3>3. all[n] = toks[n] /\ more[n] = ends[n] /\ more[n - 1] = ends[n - 1] /\ more[0] = ends[0]
        BY <1>2, <1>6, <2>2, <3>1
    <3> QED BY <3>2, <3>3
  <2> QED BY <1>2, <2>1, <2>2
<1>8. Spans(d, all, more)
    BY <1>2, <1>5, <1>7 DEF Spans
<1>9. SpansTo(d, all, p, r)
    BY <1>2, <1>5, <1>6, <1>8 DEF SpansTo
<1> QED BY <1>9 DEF all

LEMMA SpanIsBounded ==
    ASSUME NEW S, NEW d \in Seq(S), NEW toks \in Seq(Token), NEW p, NEW q, SpansTo(d, toks, p, q)
    PROVE  /\ p \in 0 .. Len(d) /\ q \in 0 .. Len(d)
           /\ Len(toks) \in Nat /\ q <= p + Len(toks) * MaxMatch
<1>1. PICK ends \in [0 .. Len(toks) -> 0 .. Len(d)] :
          ends[0] = p /\ ends[Len(toks)] = q /\ Spans(d, toks, ends)
    BY DEF SpansTo
<1>2. Len(toks) \in Nat /\ Len(d) \in Nat /\ 0 \in 0 .. Len(toks) /\ Len(toks) \in 0 .. Len(toks)
    OBVIOUS
<1>3. p \in 0 .. Len(d) /\ q \in 0 .. Len(d)
    BY <1>1, <1>2
<1>4. CASE Len(toks) = 0
  <2>1. q = p /\ 0 * MaxMatch = 0
      BY <1>1, <1>4, Sizes
  <2> QED BY <1>2, <1>3, <1>4, <2>1
<1>5. CASE Len(toks) # 0
  <2>1. Len(toks) \in 1 .. Len(toks)
      BY <1>2, <1>5
  <2>2. ends[Len(toks)] <= ends[0] + Len(toks) * MaxMatch
      BY <1>1, <2>1 DEF Spans
  <2> QED BY <1>1, <1>2, <1>3, <2>2
<1> QED BY <1>4, <1>5

\* A block is not longer than what is further than a block reaches.
LEMMA BlockIsBounded ==
    ASSUME NEW n \in Nat, n <= MaxBlockTokens
    PROVE  n * MaxMatch \in Nat /\ n * MaxMatch < NoBlockStart
<1>1. PICK k \in Nat : MaxBlockTokens = n + k
    BY Sizes
<1>2. n * MaxMatch \in Nat /\ k * MaxMatch \in Nat
    BY Sizes
<1>3. (n + k) * MaxMatch = n * MaxMatch + k * MaxMatch
    BY Sizes
<1>4. MaxBlockTokens * MaxMatch < NoBlockStart /\ NoBlockStart \in Nat
    BY SizesAssumption
<1> QED BY <1>1, <1>2, <1>3, <1>4

\* The bytes kept for a block are the data its tokens stand for.
LEMMA KeptBytesAreData ==
    ASSUME DeflateTypeOK, Ranges, WindowIsData, NEW i \in Nat, i <= windowEnd, NEW p \in Nat,
           blockStart >= 0, Gone + blockStart = p, blockStart <= i
    PROVE  /\ Slice(blockStart, i) = SubSeq(data, p + 1, Position(i))
           /\ Slice(blockStart, i) \in Seq(ByteValues)
<1>1. /\ taken \in Nat /\ windowEnd \in Nat /\ blockStart \in Nat /\ windowEnd <= taken
      /\ taken <= Len(data) /\ data \in Seq(ByteValues) /\ Len(data) \in Nat
    BY DEF DeflateTypeOK, Ranges
<1>2. PICK q \in Nat, n \in Nat : /\ q = Position(i) /\ q <= Len(data)
                                  /\ n = i - blockStart /\ q = p + n
    BY <1>1 DEF Position, Gone
<1>3. ASSUME NEW k \in 1 .. n
      PROVE  window[blockStart + k - 1] = data[p + k] /\ data[p + k] \in ByteValues
  <2>1. PICK j \in Nat : j = blockStart + k - 1 /\ j < windowEnd
      BY <1>1, <1>2
  <2>2. window[j] = data[Position(j) + 1]
      BY <1>1, <2>1, WindowHolds
  <2>3. Position(j) + 1 = p + k
      BY <1>1, <1>2, <2>1 DEF Position, Gone
  <2>4. p + k \in 1 .. Len(data)
      BY <1>1, <1>2
  <2>5. data[p + k] \in ByteValues
      BY <1>1, <2>4
  <2> QED BY <2>1, <2>2, <2>3, <2>5
<1>4. Slice(blockStart, i) = [k \in 1 .. n |-> window[blockStart + k - 1]]
    BY <1>2 DEF Slice, ByteAt
<1>5. SubSeq(data, p + 1, q) = [k \in 1 .. n |-> data[p + k]]
  <2>1. SubSeq(data, p + 1, q) \in Seq(ByteValues) /\ Len(SubSeq(data, p + 1, q)) = n
      BY <1>1, <1>2
  <2>2. \A k \in 1 .. n : SubSeq(data, p + 1, q)[k] = data[p + k]
      BY <1>1, <1>2
  <2> QED BY <1>2, <2>1, <2>2
<1>6. [k \in 1 .. n |-> window[blockStart + k - 1]] = [k \in 1 .. n |-> data[p + k]]
    BY <1>3
<1>7. SubSeq(data, p + 1, q) \in Seq(ByteValues)
    BY <1>1, <1>2
<1> QED BY <1>2, <1>4, <1>5, <1>6, <1>7

LEMMA WriteBlockKeeps ==
    ASSUME DeflateTypeOK, Ranges, WindowIsData,
           NEW toks \in Seq(Token), Len(toks) \in 1 .. MaxBlockTokens,
           NEW i \in Nat \ {0}, i <= windowEnd,
           NEW starts \in [0 .. Len(blocks) -> 0 .. Len(data)],
           BlocksReach(data, blocks, toks, blockStart, Gone, Position(i), starts),
           WriteBlock(toks, i)
    PROVE  /\ blocks' \in Seq(Block) /\ blockStart' = i
           /\ \E more \in [0 .. Len(blocks') -> 0 .. Len(data)] :
                BlocksReach(data, blocks', <<>>, i, Gone, Position(i), more)
<1>1. /\ data \in Seq(ByteValues) /\ blocks \in Seq(Block) /\ Len(blocks) \in Nat /\ Len(data) \in Nat
      /\ blockStart \in Int /\ taken \in Nat /\ windowEnd \in Nat /\ windowEnd <= taken
    BY DEF DeflateTypeOK, Ranges
<1>2. PICK N \in Nat : N = Len(blocks)
    BY <1>1
<1>3. PICK p \in 0 .. Len(data) : p = starts[N]
  <2>1. N \in 0 .. Len(blocks)
      BY <1>2
  <2> QED BY <2>1
<1>4. PICK q : q = Position(i)
    OBVIOUS
<1>5. SpansTo(data, toks, p, q) /\ StartIsKnown(blockStart, Gone, p)
    BY <1>2, <1>3, <1>4, Zenon DEF BlocksReach
<1>6. q \in 0 .. Len(data) /\ q <= p + Len(toks) * MaxMatch
    BY <1>1, <1>5, SpanIsBounded
<1>7. PICK block : block = [tokens |-> toks, held |-> blockStart <= i,
                            input |-> IF blockStart <= i THEN Slice(blockStart, i) ELSE <<>>]
    OBVIOUS
<1>8. blocks' = Append(blocks, block) /\ blockStart' = i
    BY <1>7 DEF WriteBlock
<1>9. ASSUME blockStart <= i PROVE block \in Block /\ BlockIsData(data, block, p, q)
  <2>1. blockStart >= 0 /\ Gone + blockStart = p
    <3>1. Len(toks) * MaxMatch \in Nat /\ Len(toks) * MaxMatch < NoBlockStart /\ NoBlockStart \in Nat
        BY BlockIsBounded, Sizes
    <3>2. PICK b \in Nat : b = Len(toks) * MaxMatch
        BY <3>1
    <3>3. Gone \in Int /\ q = Gone + i
        BY <1>1, <1>4 DEF Gone, Position
    <3>4. ~ (Gone + blockStart >= p + NoBlockStart)
        BY <1>1, <1>6, <1>9, <3>1, <3>2, <3>3
    <3> QED BY <1>5, <3>4 DEF StartIsKnown
  <2>2. block.held = TRUE /\ block.input = Slice(blockStart, i) /\ block.tokens = toks
      BY <1>7, <1>9
  <2>3. block = [tokens |-> toks, held |-> TRUE, input |-> Slice(blockStart, i)]
      BY <1>7, <1>9
  <2>4. Slice(blockStart, i) = SubSeq(data, p + 1, q) /\ Slice(blockStart, i) \in Seq(ByteValues)
      BY <1>4, <1>9, <2>1, KeptBytesAreData
  <2>5. block \in Block
      BY <2>3, <2>4 DEF Block
  <2>6. BlockIsData(data, block, p, q)
      BY <1>5, <2>2, <2>4 DEF BlockIsData
  <2> QED BY <2>5, <2>6
<1>10. ASSUME ~ (blockStart <= i) PROVE block \in Block /\ BlockIsData(data, block, p, q)
  <2>0. (blockStart <= i) = FALSE
      BY <1>10
  <2>1. block = [tokens |-> toks, held |-> FALSE, input |-> <<>>]
      BY <1>7, <2>0
  <2>2. block \in Block
      BY <2>1 DEF Block
  <2>3. block.held = FALSE /\ block.tokens = toks
      BY <2>1
  <2>4. BlockIsData(data, block, p, q)
      BY <1>5, <2>3 DEF BlockIsData
  <2> QED BY <2>2, <2>4
<1>11. block \in Block /\ BlockIsData(data, block, p, q)
  <2>1. blockStart <= i \/ ~ (blockStart <= i)
      BY <1>1
  <2> QED BY <1>9, <1>10, <2>1
<1> DEFINE more == [n \in 0 .. N + 1 |-> IF n <= N THEN starts[n] ELSE q]
<1>12. more \in [0 .. N + 1 -> 0 .. Len(data)]
    BY <1>2, <1>6
<1>13. more[N + 1] = q /\ \A n \in 0 .. N : more[n] = starts[n]
    BY <1>2
<1>14. PICK bs : bs = blocks'
    OBVIOUS
<1>15. /\ bs \in Seq(Block) /\ Len(bs) = N + 1 /\ bs[N + 1] = block
       /\ \A b \in 1 .. N : bs[b] = blocks[b]
    BY <1>1, <1>2, <1>8, <1>11, <1>14
<1> HIDE DEF more
<1>16. ASSUME NEW b \in 1 .. N + 1
       PROVE  BlockIsData(data, bs[b], more[b - 1], more[b])
  <2>1. CASE b = N + 1
    <3>1. b - 1 = N /\ N \in 0 .. N
        BY <1>2, <2>1
    <3>2. more[b - 1] = p /\ more[b] = q /\ bs[b] = block
        BY <1>3, <1>13, <1>15, <2>1, <3>1
    <3> QED BY <1>11, <3>2
  <2>2. CASE b \in 1 .. N
    <3>1. b \in 0 .. N /\ b - 1 \in 0 .. N /\ b \in 1 .. Len(blocks)
        BY <1>2, <2>2
    <3>2. BlockIsData(data, blocks[b], starts[b - 1], starts[b])
        BY <3>1 DEF BlocksReach
    <3>3. more[b - 1] = starts[b - 1] /\ more[b] = starts[b] /\ bs[b] = blocks[b]
        BY <1>13, <1>15, <2>2, <3>1
    <3> QED BY <3>2, <3>3
  <2>3. b = N + 1 \/ b \in 1 .. N
      BY <1>2
  <2> QED BY <2>1, <2>2, <2>3, Zenon
<1>17. StartIsKnown(i, Gone, q)
  <2>1. Gone + i = q
      BY <1>1, <1>4 DEF Gone, Position
  <2> QED BY <2>1 DEF StartIsKnown
<1>18. SpansTo(data, <<>>, q, q)
    BY <1>1, <1>6, NothingSpans
<1>19. more[0] = 0
  <2>1. 0 \in 0 .. N /\ starts[0] = 0
      BY <1>2 DEF BlocksReach
  <2> QED BY <1>13, <2>1
<1>20. BlocksReach(data, bs, <<>>, i, Gone, q, more)
    BY <1>13, <1>15, <1>16, <1>17, <1>18, <1>19 DEF BlocksReach
<1>21. \E s \in [0 .. Len(bs) -> 0 .. Len(data)] : BlocksReach(data, bs, <<>>, i, Gone, q, s)
    BY <1>12, <1>15, <1>20
<1> QED BY <1>4, <1>8, <1>14, <1>15, <1>21, Zenon

LEMMA PushKeeps ==
    ASSUME DeflateInv, NEW t \in Token, NEW i \in Nat \ {0}, i <= windowEnd,
           Covers(data, t, Passed, Position(i)), Push(t, i)
    PROVE  /\ tokens' \in Seq(Token) /\ Len(tokens') < MaxBlockTokens
           /\ blocks' \in Seq(Block) /\ blockStart' \in Int
           /\ \E more \in [0 .. Len(blocks') -> 0 .. Len(data)] :
                BlocksReach(data, blocks', tokens', blockStart', Gone, Position(i), more)
<1>1. /\ DeflateTypeOK /\ Ranges /\ WindowIsData
      /\ data \in Seq(ByteValues) /\ tokens \in Seq(Token) /\ Len(tokens) \in Nat
      /\ blocks \in Seq(Block) /\ blockStart \in Int /\ Len(tokens) < MaxBlockTokens
      /\ taken \in Nat /\ windowEnd \in Nat /\ windowEnd <= taken /\ taken <= Len(data)
    BY DEF DeflateInv, DeflateTypeOK, Ranges
<1>2. PICK starts \in [0 .. Len(blocks) -> 0 .. Len(data)] :
          BlocksReach(data, blocks, tokens, blockStart, Gone, Passed, starts)
    BY DEF DeflateInv, BlocksAreData
<1>3. PICK toks : toks = Append(tokens, t)
    OBVIOUS
<1>4. toks \in Seq(Token) /\ Len(toks) = Len(tokens) + 1
    BY <1>1, <1>3
<1>5. PICK q \in 0 .. Len(data) : q = Position(i)
    BY <1>1 DEF Position
<1>6. SpansTo(data, toks, starts[Len(blocks)], q)
  <2>1. PICK p, m : p = starts[Len(blocks)] /\ m = Passed
      OBVIOUS
  <2>2. SpansTo(data, tokens, p, m)
      BY <1>2, <2>1, Zenon DEF BlocksReach
  <2>3. Covers(data, t, m, q)
      BY <1>5, <2>1, Zenon
  <2>4. SpansTo(data, Append(tokens, t), p, q)
      BY <1>1, <2>2, <2>3, PushSpans
  <2> QED BY <1>3, <2>1, <2>4, Zenon
<1>7. BlocksReach(data, blocks, toks, blockStart, Gone, q, starts)
    BY <1>2, <1>6, Zenon DEF BlocksReach
<1>8. ASSUME Len(toks) = MaxBlockTokens, WriteBlock(toks, i), tokens' = <<>>
      PROVE  /\ tokens' \in Seq(Token) /\ Len(tokens') < MaxBlockTokens
             /\ blocks' \in Seq(Block) /\ blockStart' \in Int
             /\ \E more \in [0 .. Len(blocks') -> 0 .. Len(data)] :
                  BlocksReach(data, blocks', tokens', blockStart', Gone, q, more)
  <2>1. Len(toks) \in 1 .. MaxBlockTokens
      BY <1>1, <1>4, <1>8, Sizes
  <2>2. /\ blocks' \in Seq(Block) /\ blockStart' = i
        /\ \E more \in [0 .. Len(blocks') -> 0 .. Len(data)] :
             BlocksReach(data, blocks', <<>>, i, Gone, Position(i), more)
      BY <1>1, <1>4, <1>5, <1>7, <1>8, <2>1, WriteBlockKeeps
  <2>3. \E more \in [0 .. Len(blocks') -> 0 .. Len(data)] :
             BlocksReach(data, blocks', tokens', blockStart', Gone, q, more)
      BY <1>5, <1>8, <2>2, Zenon
  <2>4. <<>> \in Seq(Token) /\ Len(<<>>) < MaxBlockTokens
      BY Sizes
  <2> QED BY <1>8, <2>2, <2>3, <2>4
<1>9. ASSUME Len(toks) # MaxBlockTokens, tokens' = toks, blocks' = blocks, blockStart' = blockStart
      PROVE  /\ tokens' \in Seq(Token) /\ Len(tokens') < MaxBlockTokens
             /\ blocks' \in Seq(Block) /\ blockStart' \in Int
             /\ \E more \in [0 .. Len(blocks') -> 0 .. Len(data)] :
                  BlocksReach(data, blocks', tokens', blockStart', Gone, q, more)
  <2>1. \E more \in [0 .. Len(blocks') -> 0 .. Len(data)] :
             BlocksReach(data, blocks', tokens', blockStart', Gone, q, more)
      BY <1>7, <1>9, Zenon
  <2>2. Len(toks) < MaxBlockTokens
      BY <1>1, <1>4, <1>9, Sizes
  <2> QED BY <1>1, <1>4, <1>9, <2>1, <2>2
<1>10. \/ Len(toks) = MaxBlockTokens /\ WriteBlock(toks, i) /\ tokens' = <<>>
       \/ Len(toks) # MaxBlockTokens /\ tokens' = toks /\ blocks' = blocks /\ blockStart' = blockStart
    BY <1>3, Zenon DEF Push
<1> HIDE DEF WriteBlock
<1> QED BY <1>5, <1>8, <1>9, <1>10, Zenon

-----------------------------------------------------------------------------
(* The parts of the invariant in a step *)

HashAt(w, i) == HashOf([k \in 1 .. MinMatch |-> w[i + k - 1]])
HeadIs(here, far, w, end, h) ==
  here - far >= 0 => here - far < end - (MinMatch - 1) /\ HashAt(w, here - far) = h
TablesHold(t, far, n, w, end) ==
  /\ t \in Tables
  /\ \A h \in 0 .. HashSize - 1 : t.head[h] - far < n /\ HeadIs(t.head[h], far, w, end, h)
  /\ \A k \in 0 .. WindowSize - 1 : t.prev[k] - far < n

LEMMA HashIsAt ==
    ASSUME NEW i \in Int
    PROVE  Hash4(i) = HashAt(window, i)
<1>1. 1 .. ((i + MinMatch) - i) = 1 .. MinMatch
    BY Sizes
<1>2. Slice(i, i + MinMatch) = [k \in 1 .. ((i + MinMatch) - i) |-> window[i + k - 1]]
    BY Zenon DEF Slice, ByteAt
<1>3. Slice(i, i + MinMatch) = [k \in 1 .. MinMatch |-> window[i + k - 1]]
    BY <1>1, <1>2, Zenon
<1> QED BY <1>3, Zenon DEF Hash4, HashAt

LEMMA GoodTablesHold ==
    ASSUME DeflateTypeOK, NEW t, NEW n
    PROVE  GoodTables(t, n) <=> TablesHold(t, hashOffset, n, window, windowEnd)
<1> SUFFICES ASSUME t \in Tables
             PROVE  \A h \in 0 .. HashSize - 1 :
                      GoodHead(t, h, n) <=>
                        t.head[h] - hashOffset < n /\ HeadIs(t.head[h], hashOffset, window, windowEnd, h)
    BY Zenon DEF GoodTables, TablesHold
<1> TAKE h \in 0 .. HashSize - 1
<1>0. t.head \in [0 .. HashSize - 1 -> Nat] /\ hashOffset \in Nat
    BY DEF DeflateTypeOK, Tables
<1>1. PICK i \in Int : i = t.head[h] - hashOffset
  <2>1. t.head[h] \in Nat
      BY <1>0, Sizes
  <2> QED BY <1>0, <2>1
<1>2. Hash4(i) = HashAt(window, i)
    BY HashIsAt
<1> QED BY <1>1, <1>2, Zenon DEF GoodHead, HeadIs, MaxInsertIndex

LEMMA HeldTablesAreRight ==
    /\ hash \in Tables /\ hashOffset \in Int /\ chainHead - hashOffset < index
    /\ TablesHold(hash, hashOffset, index, window, windowEnd)
    => ChainsLeadBack /\ HeadsAreWhereTheyHash
<1> SUFFICES ASSUME hash \in Tables, hashOffset \in Int, chainHead - hashOffset < index,
                    TablesHold(hash, hashOffset, index, window, windowEnd)
             PROVE  ChainsLeadBack /\ HeadsAreWhereTheyHash
    BY Zenon
<1>1. DOMAIN hash.head = 0 .. HashSize - 1
    BY DEF Tables
<1>2. ASSUME NEW h \in 0 .. HashSize - 1, hash.head[h] - hashOffset >= 0
      PROVE  hash.head[h] - hashOffset < MaxInsertIndex /\ Hash4(hash.head[h] - hashOffset) = h
  <2>0. hash.head \in [0 .. HashSize - 1 -> Nat]
      BY DEF Tables
  <2>1. PICK i \in Int : i = hash.head[h] - hashOffset
    <3>1. hash.head[h] \in Nat
        BY <2>0, Sizes
    <3> QED BY <3>1
  <2>2. Hash4(i) = HashAt(window, i)
      BY HashIsAt
  <2>3. HeadIs(hash.head[h], hashOffset, window, windowEnd, h)
      BY DEF TablesHold
  <2> QED BY <1>2, <2>1, <2>2, <2>3, Zenon DEF HeadIs, MaxInsertIndex
<1>3. HeadsAreWhereTheyHash
    BY <1>1, <1>2, Zenon DEF HeadsAreWhereTheyHash
<1>4. ChainsLeadBack
    BY Zenon DEF TablesHold, ChainsLeadBack
<1> QED BY <1>3, <1>4

\* What a step that leaves the window alone has to show.
SameWindow ==
  /\ data' = data /\ params' = params /\ taken' = taken /\ window' = window /\ windowEnd' = windowEnd
  /\ hashOffset' = hashOffset /\ sync' = sync
NextPlace ==
  /\ index' \in Nat /\ index' <= windowEnd /\ byteAvailable' \in BOOLEAN
  /\ index' = 0 => tokens' = <<>> /\ ~ byteAvailable'
  /\ step' \in {"deflate", "fill", "closed"}
  /\ step' = "closed" => sync /\ index' = windowEnd /\ ~ byteAvailable'
NextTables ==
  /\ chainHead' \in Int /\ chainHead' - hashOffset < index'
  /\ TablesHold(hash', hashOffset, index', window, windowEnd)
NextMatch ==
  /\ length' \in MinMatch - 1 .. MaxMatch /\ offset' \in Nat
  /\ length' >= MinMatch =>
       byteAvailable' /\ Repeats(data, taken, (taken - windowEnd + index') - 1, length', offset')
NextBlocks ==
  /\ tokens' \in Seq(Token) /\ Len(tokens') < MaxBlockTokens
  /\ blocks' \in Seq(Block) /\ blockStart' \in Int
  /\ \E more \in [0 .. Len(blocks') -> 0 .. Len(data)] :
       BlocksReach(data, blocks', tokens', blockStart', Gone,
                   (taken - windowEnd + index') - (IF byteAvailable' THEN 1 ELSE 0), more)

LEMMA SameWindowKeeps ==
    ASSUME DeflateInv, SameWindow, NextPlace, NextTables, NextMatch, NextBlocks
    PROVE  DeflateInv'
<1>1. DeflateTypeOK /\ Ranges /\ WindowIsData
    BY DEF DeflateInv
<1>2. DeflateTypeOK'
  <2>1. hash' \in Tables
      BY DEF NextTables, TablesHold
  <2>2. /\ data' \in Seq(ByteValues) /\ params' \in [good : Nat, lazy : Nat, nice : Nat, chain : Nat]
        /\ taken' \in Nat /\ windowEnd' \in Nat /\ window' \in [0 .. 2 * WindowSize - 1 -> ByteValues \cup {0}]
        /\ hashOffset' \in Nat \ {0} /\ sync' \in BOOLEAN
      BY <1>1, Zenon DEF DeflateTypeOK, SameWindow
  <2>3. index' \in Nat /\ byteAvailable' \in BOOLEAN /\ step' \in {"deflate", "fill", "closed"}
      BY DEF NextPlace
  <2>4. /\ length' \in MinMatch - 1 .. MaxMatch /\ offset' \in Nat /\ chainHead' \in Int
        /\ tokens' \in Seq(Token) /\ blocks' \in Seq(Block) /\ blockStart' \in Int
      BY DEF NextMatch, NextTables, NextBlocks
  <2> QED BY <2>1, <2>2, <2>3, <2>4, Zenon DEF DeflateTypeOK
<1>3. Ranges'
    BY <1>1, Zenon DEF Ranges, SameWindow, NextPlace, NextBlocks
<1>4. WindowIsData'
    BY <1>1, Zenon DEF WindowIsData, Position, SameWindow
<1>5. HeldMatchIsOne'
    BY Zenon DEF HeldMatchIsOne, Position, SameWindow, NextMatch
<1>6. ChainsLeadBack' /\ HeadsAreWhereTheyHash'
  <2>1. /\ hash' \in Tables /\ hashOffset' \in Int /\ chainHead' - hashOffset' < index'
        /\ TablesHold(hash', hashOffset', index', window', windowEnd')
    <3>1. hashOffset \in Int /\ hash' \in Tables
        BY <1>1 DEF DeflateTypeOK, NextTables, TablesHold
    <3> QED BY <3>1, Zenon DEF SameWindow, NextTables
  <2>2. (/\ hash \in Tables /\ hashOffset \in Int /\ chainHead - hashOffset < index
         /\ TablesHold(hash, hashOffset, index, window, windowEnd)
         => ChainsLeadBack /\ HeadsAreWhereTheyHash)'
      BY HeldTablesAreRight, PTL
  <2> QED BY <2>1, <2>2, Zenon
<1>7. BlocksAreData'
    BY Zenon DEF BlocksAreData, NextBlocks, SameWindow, Gone, Passed, Position
<1> QED BY <1>2, <1>3, <1>4, <1>5, <1>6, <1>7 DEF DeflateInv

LEMMA EmitMatchStep ==
    ASSUME DeflateInv, EmitMatch
    PROVE  DeflateInv'
<1>1. /\ DeflateTypeOK /\ Ranges /\ WindowIsData
      /\ taken \in Nat /\ windowEnd \in Nat /\ index \in Nat /\ windowEnd <= taken /\ index <= windowEnd
      /\ hashOffset \in Nat /\ taken <= Len(data) /\ Len(data) \in Nat
      /\ length \in MinMatch .. MaxMatch /\ offset \in Nat
    BY Sizes DEF DeflateInv, DeflateTypeOK, Ranges, EmitMatch, HeldMatchStands
<1>2. byteAvailable /\ Repeats(data, taken, Position(index) - 1, length, offset)
    BY <1>1, Sizes DEF DeflateInv, HeldMatchIsOne
<1>3. PICK next \in Nat \ {0} : next = index + length - 1 /\ next > index
    BY <1>1, Sizes
<1>4. PICK p \in Int : p = Passed /\ p = taken - windowEnd + index - 1
  <2>1. Passed = Position(index) - 1
      BY <1>2, Zenon DEF Passed
  <2> QED BY <1>1, <2>1 DEF Position
<1>5. Repeats(data, taken, p, length, offset)
  <2>1. p = Position(index) - 1
      BY <1>1, <1>4 DEF Position
  <2> QED BY <1>2, <2>1, Zenon
<1>6. PICK q \in Int : q = Position(next) /\ q = p + length /\ q = taken - windowEnd + next
    BY <1>1, <1>3, <1>4 DEF Position
<1>7. q <= taken /\ next <= windowEnd
    BY <1>1, <1>5, <1>6 DEF Repeats
<1>8. MatchOf(length, offset) \in Token
    BY <1>1, Sizes DEF MatchOf, Token
<1>9. Covers(data, MatchOf(length, offset), p, q)
  <2>1. MatchOf(length, offset).length = length /\ MatchOf(length, offset).offset = offset
      BY DEF MatchOf
  <2>2. length # 0
      BY <1>1, Sizes
  <2> QED BY <1>1, <1>5, <1>6, <2>1, <2>2 DEF Repeats, Covers
<1>10. Push(MatchOf(length, offset), next)
    BY <1>3 DEF EmitMatch
<1>11. /\ tokens' \in Seq(Token) /\ Len(tokens') < MaxBlockTokens
       /\ blocks' \in Seq(Block) /\ blockStart' \in Int
       /\ \E more \in [0 .. Len(blocks') -> 0 .. Len(data)] :
            BlocksReach(data, blocks', tokens', blockStart', Gone, q, more)
  <2>1. Covers(data, MatchOf(length, offset), Passed, Position(next))
      BY <1>4, <1>6, <1>9, Zenon
  <2>2. PICK t \in Token : t = MatchOf(length, offset)
      BY <1>8
  <2>3. Covers(data, t, Passed, Position(next)) /\ Push(t, next)
      BY <1>10, <2>1, <2>2, Zenon
  <2> HIDE DEF Push
  <2>4. /\ tokens' \in Seq(Token) /\ Len(tokens') < MaxBlockTokens
        /\ blocks' \in Seq(Block) /\ blockStart' \in Int
        /\ \E more \in [0 .. Len(blocks') -> 0 .. Len(data)] :
             BlocksReach(data, blocks', tokens', blockStart', Gone, Position(next), more)
      BY <1>7, <2>3, PushKeeps
  <2> QED BY <1>6, <2>4, Zenon
<1>12. index' = next /\ byteAvailable' = FALSE /\ length' = MinMatch - 1 /\ step' = step /\ step = "deflate"
    BY <1>3, Zenon DEF EmitMatch, Active
<1>13. SameWindow
    BY DEF EmitMatch, SameWindow, fixed, windowVars
<1>14. NextPlace
    BY <1>7, <1>12 DEF NextPlace
<1>15. NextMatch
  <2>1. offset' \in Nat
      BY FoundIsGood DEF EmitMatch, GoodMatch
  <2>2. length' \in MinMatch - 1 .. MaxMatch /\ ~ (length' >= MinMatch)
      BY <1>12, Sizes
  <2> QED BY <2>1, <2>2 DEF NextMatch
<1>16. NextTables
  <2>1. PICK n \in Nat : n = next - index - 1 /\ index + n + 1 = next
      BY <1>1, <1>3
  <2>2. PICK t : t = hash' /\ t = EnteredUpTo(n)
      BY <1>3, <2>1 DEF EmitMatch
  <2>3. GoodTables(t, next)
      BY <2>1, <2>2, EnteredUpToIsGood
  <2>4. TablesHold(t, hashOffset, next, window, windowEnd)
      BY <1>1, <2>3, GoodTablesHold
  <2>5. chainHead' = Chain
      BY DEF EmitMatch
  <2>6. Chain \in Int /\ Chain - hashOffset < index
      BY EnteredIsGood
  <2>7. chainHead' \in Int /\ chainHead' - hashOffset < next
      BY <1>1, <1>3, <2>5, <2>6
  <2> QED BY <1>12, <2>2, <2>4, <2>7, Zenon DEF NextTables
<1>17. NextBlocks
  <2>1. (taken - windowEnd + index') - (IF byteAvailable' THEN 1 ELSE 0) = q - 0
      BY <1>6, <1>12, Zenon
  <2>2. q - 0 = q
      BY <1>6
  <2> QED BY <1>11, <2>1, <2>2, Zenon DEF NextBlocks
<1> QED BY <1>13, <1>14, <1>15, <1>16, <1>17, SameWindowKeeps

LEMMA AdvanceStep ==
    ASSUME DeflateInv, Advance
    PROVE  DeflateInv'
<1>1. /\ DeflateTypeOK /\ Ranges /\ WindowIsData
      /\ taken \in Nat /\ windowEnd \in Nat /\ index \in Nat /\ windowEnd <= taken
      /\ index < windowEnd
      /\ hashOffset \in Nat /\ taken <= Len(data) /\ Len(data) \in Nat
  <2>1. Lookahead > 0
      BY DEF Advance, Active
  <2> QED BY <2>1 DEF DeflateInv, DeflateTypeOK, Ranges, Lookahead
<1>2. PICK q \in Nat : q = Position(index) /\ q = taken - windowEnd + index /\ q < taken
    BY <1>1 DEF Position
<1>3. /\ tokens' \in Seq(Token) /\ Len(tokens') < MaxBlockTokens
      /\ blocks' \in Seq(Block) /\ blockStart' \in Int
      /\ \E more \in [0 .. Len(blocks') -> 0 .. Len(data)] :
           BlocksReach(data, blocks', tokens', blockStart', Gone, q, more)
  <2>1. CASE byteAvailable
    <3>1. index # 0
        BY <1>1, <2>1 DEF Ranges
    <3>2. PICK i \in Nat : i = index - 1 /\ i < windowEnd
        BY <1>1, <3>1
    <3>3. window[i] = data[Position(i) + 1] /\ window[i] \in ByteValues
        BY <1>1, <3>2, WindowHolds
    <3>4. Position(i) + 1 = q
        BY <1>1, <1>2, <3>2 DEF Position
    <3>5. PICK t : t = Literal(ByteAt(index - 1))
        OBVIOUS
    <3>6. t = [length |-> 0, offset |-> 0, byte |-> window[i]]
        BY <3>2, <3>5 DEF Literal, ByteAt
    <3>7. t \in Token /\ t.length = 0 /\ t.byte = data[q]
        BY <3>3, <3>4, <3>6 DEF Token
    <3>8. Passed = q - 1
        BY <1>2, <2>1, Zenon DEF Passed
    <3>9. Covers(data, t, q - 1, q)
      <4>1. q = (q - 1) + 1
          BY <1>2
      <4> QED BY <3>7, <4>1 DEF Covers
    <3>10. Push(t, index)
        BY <2>1, <3>5, Zenon DEF Advance
    <3>11. Covers(data, t, Passed, Position(index)) /\ index \in Nat \ {0} /\ index <= windowEnd
      <4>1. Covers(data, t, Passed, Position(index))
          BY <1>2, <3>8, <3>9, Zenon
      <4> QED BY <1>1, <3>1, <4>1
    <3> HIDE DEF Push
    <3>12. PICK m \in Nat \ {0} : m = index /\ m <= windowEnd
        BY <3>11
    <3>13. Covers(data, t, Passed, Position(m)) /\ Push(t, m)
        BY <3>10, <3>11, <3>12, Zenon
    <3>14. /\ tokens' \in Seq(Token) /\ Len(tokens') < MaxBlockTokens
           /\ blocks' \in Seq(Block) /\ blockStart' \in Int
           /\ \E more \in [0 .. Len(blocks') -> 0 .. Len(data)] :
                BlocksReach(data, blocks', tokens', blockStart', Gone, Position(m), more)
        BY <3>7, <3>12, <3>13, PushKeeps
    <3> QED BY <1>2, <3>12, <3>14, Zenon
  <2>2. CASE ~ byteAvailable
    <3>1. tokens' = tokens /\ blocks' = blocks /\ blockStart' = blockStart
        BY <2>2, Zenon DEF Advance
    <3>2. Passed = q - 0
        BY <1>2, <2>2, Zenon DEF Passed
    <3>3. q - 0 = q
        BY <1>2
    <3>4. \E more \in [0 .. Len(blocks) -> 0 .. Len(data)] :
            BlocksReach(data, blocks, tokens, blockStart, Gone, q, more)
        BY <3>2, <3>3, Zenon DEF DeflateInv, BlocksAreData
    <3>5. tokens \in Seq(Token) /\ Len(tokens) < MaxBlockTokens /\ blocks \in Seq(Block) /\ blockStart \in Int
        BY <1>1, Zenon DEF DeflateTypeOK, Ranges
    <3> QED BY <3>1, <3>4, <3>5, Zenon
  <2> QED BY <2>1, <2>2
<1>4. index' = index + 1 /\ byteAvailable' = TRUE /\ step' = step /\ step = "deflate"
    BY Zenon DEF Advance, Active
<1>5. SameWindow
    BY DEF Advance, SameWindow, fixed, windowVars
<1>6. NextPlace
  <2>1. index' \in Nat /\ index' <= windowEnd /\ index' # 0
      BY <1>1, <1>4
  <2> QED BY <1>4, <2>1 DEF NextPlace
<1>7. (taken - windowEnd + index') - 1 = q
    BY <1>1, <1>2, <1>4
<1>8. NextMatch
  <2>1. PICK m : m = Found
      OBVIOUS
  <2>2. GoodMatch(m)
      BY <2>1, FoundIsGood
  <2>3. length' = m.length /\ offset' = m.offset
      BY <2>1 DEF Advance
  <2>4. m.length \in MinMatch - 1 .. MaxMatch /\ m.offset \in Nat /\ m.length \in Nat
      BY <2>2, Sizes DEF GoodMatch
  <2>5. m.length >= MinMatch => Repeats(data, taken, q, m.length, m.offset)
    <3> SUFFICES ASSUME m.length >= MinMatch PROVE Repeats(data, taken, q, m.length, m.offset)
        OBVIOUS
    <3>1. Recurs(m.length, m.offset)
        BY <2>2 DEF GoodMatch
    <3>2. Repeats(data, taken, Position(index), m.length, m.offset)
        BY <1>1, <2>4, <3>1, RecursRepeats
    <3> QED BY <1>2, <3>2, Zenon
  <2> QED BY <1>4, <1>7, <2>3, <2>4, <2>5, Zenon DEF NextMatch
<1>9. NextTables
  <2>1. PICK t : t = hash' /\ t = Entered
      BY DEF Advance
  <2>2. PICK n \in Nat : n = index + 1
      BY <1>1
  <2>3. GoodTables(t, n)
      BY <2>1, <2>2, EnteredIsGood, Zenon
  <2>4. TablesHold(t, hashOffset, n, window, windowEnd)
      BY <1>1, <2>3, GoodTablesHold
  <2>5. chainHead' = Chain /\ Chain \in Int /\ Chain - hashOffset < index
      BY EnteredIsGood DEF Advance
  <2>6. chainHead' \in Int /\ chainHead' - hashOffset < n
      BY <1>1, <2>2, <2>5
  <2> QED BY <1>4, <2>1, <2>2, <2>4, <2>6, Zenon DEF NextTables
<1>10. NextBlocks
  <2>1. (taken - windowEnd + index') - (IF byteAvailable' THEN 1 ELSE 0) = q
      BY <1>4, <1>7, Zenon
  <2> QED BY <1>3, <2>1, Zenon DEF NextBlocks
<1> QED BY <1>5, <1>6, <1>8, <1>9, <1>10, SameWindowKeeps

\* At the end of the data nothing is held: the match would reach past it.
LEMMA NoMatchAtTheEnd ==
    ASSUME DeflateInv, Lookahead = 0
    PROVE  length < MinMatch
<1> SUFFICES ASSUME length >= MinMatch PROVE FALSE
    BY Sizes DEF DeflateInv, DeflateTypeOK
<1>1. taken \in Nat /\ windowEnd \in Nat /\ index \in Nat /\ length \in Nat /\ index = windowEnd
    BY Sizes DEF DeflateInv, DeflateTypeOK, Lookahead
<1>2. Repeats(data, taken, Position(index) - 1, length, offset)
    BY DEF DeflateInv, HeldMatchIsOne
<1>3. Position(index) - 1 + length <= taken
    BY <1>2, Zenon DEF Repeats
<1> QED BY <1>1, <1>3, Sizes DEF Position

LEMMA FlushTailStep ==
    ASSUME DeflateInv, FlushTail
    PROVE  DeflateInv'
<1>1. /\ DeflateTypeOK /\ Ranges /\ WindowIsData
      /\ taken \in Nat /\ windowEnd \in Nat /\ index \in Nat /\ windowEnd <= taken
      /\ index = windowEnd /\ sync /\ Lookahead = 0
      /\ hashOffset \in Nat /\ taken <= Len(data) /\ Len(data) \in Nat /\ data \in Seq(ByteValues)
      /\ tokens \in Seq(Token) /\ Len(tokens) \in Nat /\ Len(tokens) < MaxBlockTokens
      /\ blocks \in Seq(Block) /\ blockStart \in Int
  <2>1. Lookahead = 0 /\ sync
      BY DEF FlushTail
  <2> QED BY <2>1 DEF DeflateInv, DeflateTypeOK, Ranges, Lookahead
<1>2. PICK q \in 0 .. Len(data) : q = Position(index) /\ q = taken - windowEnd + index
    BY <1>1 DEF Position
<1>3. PICK starts \in [0 .. Len(blocks) -> 0 .. Len(data)] :
          BlocksReach(data, blocks, tokens, blockStart, Gone, Passed, starts)
    BY DEF DeflateInv, BlocksAreData
<1>4. PICK toks : toks = IF byteAvailable THEN Append(tokens, Literal(ByteAt(index - 1))) ELSE tokens
    OBVIOUS
<1>5. toks \in Seq(Token) /\ Len(toks) <= MaxBlockTokens /\ (index = 0 => toks = <<>>)
      /\ BlocksReach(data, blocks, toks, blockStart, Gone, q, starts)
  <2>1. ASSUME byteAvailable
        PROVE  toks \in Seq(Token) /\ Len(toks) <= MaxBlockTokens /\ (index = 0 => toks = <<>>)
               /\ BlocksReach(data, blocks, toks, blockStart, Gone, q, starts)
    <3>1. index # 0
        BY <1>1, <2>1 DEF Ranges
    <3>2. PICK i \in Nat : i = index - 1 /\ i < windowEnd
        BY <1>1, <3>1
    <3>3. window[i] = data[Position(i) + 1] /\ window[i] \in ByteValues
        BY <1>1, <3>2, WindowHolds
    <3>4. Position(i) + 1 = q
        BY <1>1, <1>2, <3>2 DEF Position
    <3>5. PICK t : t = Literal(ByteAt(index - 1))
        OBVIOUS
    <3>6. t = [length |-> 0, offset |-> 0, byte |-> window[i]]
        BY <3>2, <3>5 DEF Literal, ByteAt
    <3>7. t \in Token /\ t.length = 0 /\ t.byte = data[q]
        BY <3>3, <3>4, <3>6 DEF Token
    <3>8. Passed = q - 1
        BY <1>2, <2>1, Zenon DEF Passed
    <3>9. Covers(data, t, q - 1, q)
      <4>1. q = (q - 1) + 1
          BY <1>2
      <4> QED BY <3>7, <4>1 DEF Covers
    <3>10. toks = Append(tokens, t)
        BY <1>4, <2>1, <3>5, Zenon
    <3>11. PICK p, m : p = starts[Len(blocks)] /\ m = q - 1
        OBVIOUS
    <3>12. SpansTo(data, tokens, p, m) /\ Covers(data, t, m, q)
        BY <1>3, <3>8, <3>9, <3>11, Zenon DEF BlocksReach
    <3>13. SpansTo(data, Append(tokens, t), p, q)
        BY <1>1, <3>7, <3>12, PushSpans
    <3>14. BlocksReach(data, blocks, toks, blockStart, Gone, q, starts)
        BY <1>3, <3>10, <3>11, <3>13, Zenon DEF BlocksReach
    <3>15. toks \in Seq(Token) /\ Len(toks) = Len(tokens) + 1
        BY <1>1, <3>7, <3>10
    <3>16. Len(toks) <= MaxBlockTokens
        BY <1>1, <3>15, Sizes
    <3> QED BY <3>1, <3>14, <3>15, <3>16
  <2>2. ASSUME ~ byteAvailable
        PROVE  toks \in Seq(Token) /\ Len(toks) <= MaxBlockTokens /\ (index = 0 => toks = <<>>)
               /\ BlocksReach(data, blocks, toks, blockStart, Gone, q, starts)
    <3>1. toks = tokens
        BY <1>4, <2>2, Zenon
    <3>2. Passed = q - 0
        BY <1>2, <2>2, Zenon DEF Passed
    <3>3. q - 0 = q
        BY <1>2
    <3>4. BlocksReach(data, blocks, toks, blockStart, Gone, q, starts)
        BY <1>3, <3>1, <3>2, <3>3, Zenon
    <3>5. index = 0 => toks = <<>>
        BY <1>1, <3>1, Zenon DEF Ranges
    <3>6. Len(toks) <= MaxBlockTokens
        BY <1>1, <3>1, Sizes
    <3> QED BY <1>1, <3>1, <3>4, <3>5, <3>6
  <2> QED BY <2>1, <2>2, Zenon
<1>6. /\ blocks' \in Seq(Block) /\ blockStart' \in Int
      /\ \E more \in [0 .. Len(blocks') -> 0 .. Len(data)] :
           BlocksReach(data, blocks', <<>>, blockStart', Gone, q, more)
  <2>1. CASE toks = <<>>
    <3>1. blocks' = blocks /\ blockStart' = blockStart
        BY <1>4, <2>1, Zenon DEF FlushTail
    <3> QED BY <1>1, <1>3, <1>5, <2>1, <3>1, Zenon
  <2>2. CASE toks # <<>>
    <3>1. WriteBlock(toks, index)
        BY <1>4, <2>2, Zenon DEF FlushTail
    <3>2. Len(toks) \in 1 .. MaxBlockTokens
        BY <1>5, <2>2, Sizes
    <3>3. PICK i \in Nat \ {0} : i = index /\ i <= windowEnd
        BY <1>1, <1>5, <2>2
    <3>4. WriteBlock(toks, i) /\ q = Position(i)
        BY <1>2, <3>1, <3>3, Zenon
    <3> HIDE DEF WriteBlock
    <3>5. BlocksReach(data, blocks, toks, blockStart, Gone, Position(i), starts)
        BY <1>5, <3>4, Zenon
    <3>6. /\ blocks' \in Seq(Block) /\ blockStart' = i
          /\ \E more \in [0 .. Len(blocks') -> 0 .. Len(data)] :
               BlocksReach(data, blocks', <<>>, i, Gone, Position(i), more)
        BY <1>1, <1>5, <3>2, <3>3, <3>4, <3>5, WriteBlockKeeps
    <3>7. blockStart' \in Int
        BY <3>6
    <3> QED BY <3>4, <3>6, <3>7, Zenon
  <2> QED BY <2>1, <2>2
<1>7. /\ index' = index /\ byteAvailable' = FALSE /\ tokens' = <<>> /\ step' = "closed"
      /\ length' = length /\ offset' = offset /\ chainHead' = chainHead /\ hash' = hash
    BY Zenon DEF FlushTail
<1>8. SameWindow
    BY DEF FlushTail, SameWindow, fixed, windowVars
<1>9. NextPlace
  <2>1. index \in Nat /\ index <= windowEnd
      BY <1>1
  <2>2. step' \in {"deflate", "fill", "closed"} /\ byteAvailable' \in BOOLEAN /\ ~ byteAvailable'
      BY <1>7
  <2> QED BY <1>1, <1>7, <2>1, <2>2, Zenon DEF NextPlace
<1>10. NextMatch
  <2>1. length < MinMatch
      BY <1>1, NoMatchAtTheEnd
  <2>2. length \in MinMatch - 1 .. MaxMatch /\ offset \in Nat
      BY <1>1 DEF DeflateTypeOK
  <2>3. ~ (length >= MinMatch)
      BY <2>1, <2>2, Sizes
  <2> QED BY <1>7, <2>2, <2>3, Zenon DEF NextMatch
<1>11. NextTables
  <2>1. TablesHold(hash, hashOffset, index, window, windowEnd)
      BY <1>1, TablesAreGood, GoodTablesHold
  <2>2. chainHead \in Int /\ chainHead - hashOffset < index
      BY DEF DeflateInv, DeflateTypeOK, ChainsLeadBack
  <2> QED BY <1>7, <2>1, <2>2, Zenon DEF NextTables
<1>12. NextBlocks
  <2>1. (taken - windowEnd + index') - (IF byteAvailable' THEN 1 ELSE 0) = q - 0
      BY <1>2, <1>7, Zenon
  <2>2. q - 0 = q
      BY <1>2
  <2>3. <<>> \in Seq(Token) /\ Len(<<>>) < MaxBlockTokens
      BY Sizes
  <2> QED BY <1>6, <1>7, <2>1, <2>2, <2>3, Zenon DEF NextBlocks
<1> QED BY <1>8, <1>9, <1>10, <1>11, <1>12, SameWindowKeeps

LEMMA AwaitInputStep ==
    ASSUME DeflateInv, AwaitInput
    PROVE  DeflateInv'
<1>1. /\ UNCHANGED <<data, params, taken, window, windowEnd, index, blockStart, byteAvailable, length,
                     offset, chainHead, hashOffset, hash, tokens, blocks, sync>>
      /\ step' = "fill"
    BY DEF AwaitInput, fixed, windowVars
<1>2. DeflateTypeOK'
    BY <1>1, Zenon DEF DeflateInv, DeflateTypeOK
<1>3. Ranges'
  <2>1. step' # "closed"
      BY <1>1
  <2> QED BY <1>1, <2>1, Zenon DEF DeflateInv, Ranges
<1>4. WindowIsData' /\ HeldMatchIsOne' /\ ChainsLeadBack' /\ BlocksAreData'
    BY <1>1, Zenon DEF DeflateInv, WindowIsData, HeldMatchIsOne, ChainsLeadBack, BlocksAreData,
                       Position, Gone, Passed
<1>5. HeadsAreWhereTheyHash'
    BY <1>1, Zenon DEF DeflateInv, HeadsAreWhereTheyHash, Hash4, Slice, ByteAt, MaxInsertIndex
<1> QED BY <1>2, <1>3, <1>4, <1>5 DEF DeflateInv

-----------------------------------------------------------------------------
(* The window is filled, and before that perhaps shifted *)

LEMMA RepeatsInMore ==
    ASSUME NEW d, NEW n \in Int, NEW m \in Int, n <= m, NEW p \in Int, NEW size \in Int, NEW back,
           Repeats(d, n, p, size, back)
    PROVE  Repeats(d, m, p, size, back)
BY DEF Repeats

\* The start of the block is known after the shift as well, or still too far.
LEMMA ShiftedStartIsKnown ==
    ASSUME NEW start \in Int, NEW gone \in Int, NEW p \in Int, StartIsKnown(start, gone, p)
    PROVE  StartIsKnown(IF start >= WindowSize THEN start - WindowSize ELSE NoBlockStart,
                        gone + WindowSize, p)
<1>1. NoBlockStart \in Nat /\ WindowSize \in Nat
    BY Sizes
<1>2. CASE start >= WindowSize
  <2>1. PICK s \in Nat : s = start - WindowSize /\ gone + WindowSize + s = gone + start
      BY <1>1, <1>2
  <2> QED BY <1>1, <1>2, <2>1 DEF StartIsKnown
<1>3. CASE ~ (start >= WindowSize)
  <2>1. gone + WindowSize + NoBlockStart >= p + NoBlockStart
      BY <1>1, <1>3 DEF StartIsKnown
  <2> QED BY <1>3, <2>1 DEF StartIsKnown
<1> QED BY <1>1, <1>2, <1>3

\* A head that is counted anew, in a window that has moved on.
Recounted(v, delta) == IF delta = 0 THEN v ELSE IF v > delta THEN v - delta ELSE 0
LEMMA RecountedIs ==
    ASSUME NEW v \in Nat, NEW far \in Nat \ {0}, NEW delta, delta = 0 \/ delta = far - 1
    PROVE  /\ Recounted(v, delta) \in Nat
           /\ far - delta \in Nat \ {0}
           /\ \/ Recounted(v, delta) - (far - delta) = v - far
              \/ Recounted(v, delta) - (far - delta) = -1
BY DEF Recounted

LEMMA RebasedIs ==
    ASSUME NEW D, NEW f \in [D -> Nat], NEW delta \in Nat \ {0}
    PROVE  /\ Rebased(f, delta) \in [D -> Nat]
           /\ \A x \in D : Rebased(f, delta)[x] = Recounted(f[x], delta)
<1>1. \A x \in D : f[x] \in Nat /\ Recounted(f[x], delta) \in Nat
    BY DEF Recounted
<1>2. Rebased(f, delta) = [x \in D |-> IF f[x] > delta THEN f[x] - delta ELSE 0]
    BY DEF Rebased
<1>3. \A x \in D : Recounted(f[x], delta) = IF f[x] > delta THEN f[x] - delta ELSE 0
    BY DEF Recounted
<1> QED BY <1>1, <1>2, <1>3

LEMMA HeadMoves ==
    ASSUME NEW w, NEW w2, NEW by \in Nat, NEW end \in Nat, NEW n \in Nat,
           \A j \in 0 .. end - by - 1 : w2[j] = w[j + by],
           NEW v \in Nat, NEW far \in Nat \ {0}, NEW h, NEW delta, delta = 0 \/ delta = far + by - 1,
           HeadIs(v, far, w, end, h)
    PROVE  HeadIs(Recounted(v, delta), far + by - delta, w2, end - by + n, h)
<1>1. PICK c \in Nat, f \in Nat \ {0} : c = Recounted(v, delta) /\ f = far + by - delta
                                       /\ (c - f = v - (far + by) \/ c - f = -1)
  <2>1. PICK g \in Nat \ {0} : g = far + by
      OBVIOUS
  <2>2. delta = 0 \/ delta = g - 1
      BY <2>1
  <2>3. /\ Recounted(v, delta) \in Nat /\ g - delta \in Nat \ {0}
        /\ (Recounted(v, delta) - (g - delta) = v - g \/ Recounted(v, delta) - (g - delta) = -1)
      BY <2>2, RecountedIs
  <2> QED BY <2>1, <2>3
<1> SUFFICES HeadIs(c, f, w2, end - by + n, h)
    BY <1>1, Zenon
<1> SUFFICES ASSUME NEW x \in Nat, x = c - f
             PROVE  x < end - by + n - (MinMatch - 1) /\ HashAt(w2, x) = h
    BY Sizes DEF HeadIs
<1>2. PICK i \in Nat : i = v - far /\ i >= by /\ x = i - by
    BY <1>1
<1>3. i < end - (MinMatch - 1) /\ HashAt(w, i) = h
    BY <1>2 DEF HeadIs
<1>4. ASSUME NEW k \in 1 .. MinMatch
      PROVE  w2[i - by + k - 1] = w[i + k - 1]
  <2>1. PICK j \in 0 .. end - by - 1 : j = i - by + k - 1 /\ j + by = i + k - 1
      BY <1>2, <1>3, Sizes
  <2> QED BY <2>1
<1>5. [k \in 1 .. MinMatch |-> w2[i - by + k - 1]] = [k \in 1 .. MinMatch |-> w[i + k - 1]]
    BY <1>4
<1>6. HashAt(w2, i - by) = h
    BY <1>3, <1>5, Zenon DEF HashAt
<1>7. x < end - by + n - (MinMatch - 1)
    BY <1>2, <1>3, Sizes
<1> QED BY <1>2, <1>6, <1>7

\* What filling does, with a name for each number of it.
FillsAs(by, end, n, delta) ==
  /\ window' = [i \in DOMAIN window |->
                  IF i \in end .. end + n - 1 THEN data[taken + i - end + 1]
                  ELSE IF i + by \in DOMAIN window THEN window[i + by]
                  ELSE window[i]]
  /\ windowEnd' = end + n /\ taken' = taken + n /\ index' = index - by
  /\ sync' = (taken + n = Len(data))
  /\ blockStart' = IF by = 0 THEN blockStart
                   ELSE IF blockStart >= WindowSize THEN blockStart - WindowSize ELSE NoBlockStart
  /\ hashOffset' = (hashOffset + by) - delta /\ chainHead' = chainHead - delta
  /\ hash' = IF delta = 0 THEN hash
             ELSE [head |-> Rebased(hash.head, delta), prev |-> Rebased(hash.prev, delta)]
  /\ step' = "deflate" /\ data' = data /\ params' = params /\ byteAvailable' = byteAvailable
  /\ length' = length /\ offset' = offset /\ tokens' = tokens /\ blocks' = blocks

LEMMA FillHasNumbers ==
    ASSUME DeflateInv, FillDeflate
    PROVE  \E by \in {0, WindowSize}, end \in Nat, n \in Nat, delta \in Nat :
             /\ by <= index /\ (by # 0 => by < index)
             /\ end = windowEnd - by /\ end + n <= 2 * WindowSize /\ taken + n <= Len(data)
             /\ (delta = 0 \/ delta = (hashOffset + by) - 1)
             /\ FillsAs(by, end, n, delta)
<1>1. /\ taken \in Nat /\ windowEnd \in Nat /\ index \in Nat /\ windowEnd <= taken /\ index <= windowEnd
      /\ windowEnd <= 2 * WindowSize /\ taken <= Len(data) /\ Len(data) \in Nat /\ hashOffset \in Nat \ {0}
    BY DEF DeflateInv, DeflateTypeOK, Ranges
<1>2. PICK by : by = IF ShiftNeeded THEN WindowSize ELSE 0
    OBVIOUS
<1>3. /\ by \in {0, WindowSize} /\ by \in Nat /\ (by = 0 <=> ~ ShiftNeeded)
      /\ by <= index /\ (by # 0 => by < index)
    BY <1>1, <1>2, Sizes DEF ShiftNeeded
<1>4. PICK end \in Nat : end = windowEnd - by
    BY <1>1, <1>3
<1>5. PICK room, left : room = 2 * WindowSize - (windowEnd - by) /\ left = Len(data) - taken
    OBVIOUS
<1>6. PICK n : n = IF room < left THEN room ELSE left
    OBVIOUS
<1>7. n \in Nat /\ end + n <= 2 * WindowSize /\ taken + n <= Len(data)
    BY <1>1, <1>3, <1>4, <1>5, <1>6, Sizes
<1>8. PICK far : far = IF ShiftNeeded THEN ShiftedOffset ELSE hashOffset
    OBVIOUS
<1>9. far = hashOffset + by
    BY <1>1, <1>2, <1>8 DEF ShiftedOffset
<1>10. PICK delta : delta = IF far > MaxHashOffset THEN far - 1 ELSE 0
    OBVIOUS
<1>11. delta \in Nat /\ (delta = 0 \/ delta = (hashOffset + by) - 1)
    BY <1>1, <1>3, <1>9, <1>10, Sizes
<1>12. /\ window' = [i \in DOMAIN window |->
                       IF i \in end .. end + n - 1 THEN data[taken + i - end + 1]
                       ELSE IF i + by \in DOMAIN window THEN window[i + by]
                       ELSE window[i]]
       /\ windowEnd' = end + n /\ taken' = taken + n /\ index' = index - by
       /\ sync' = (taken + n = Len(data))
    BY <1>2, <1>4, <1>5, <1>6, Zenon DEF FillDeflate
<1>13. /\ hashOffset' = far - delta /\ chainHead' = chainHead - delta
       /\ hash' = IF delta = 0 THEN hash
                  ELSE [head |-> Rebased(hash.head, delta), prev |-> Rebased(hash.prev, delta)]
    BY <1>8, <1>10, Zenon DEF FillDeflate
<1>14. blockStart' = IF by = 0 THEN blockStart
                     ELSE IF blockStart >= WindowSize THEN blockStart - WindowSize ELSE NoBlockStart
    BY <1>3, Zenon DEF FillDeflate, ShiftedStart
<1>15. /\ step' = "deflate" /\ data' = data /\ params' = params /\ byteAvailable' = byteAvailable
       /\ length' = length /\ offset' = offset /\ tokens' = tokens /\ blocks' = blocks
    BY DEF FillDeflate, fixed
<1>16. hashOffset' = (hashOffset + by) - delta
    BY <1>9, <1>13, Zenon
<1>17. FillsAs(by, end, n, delta)
    BY <1>12, <1>13, <1>14, <1>15, <1>16, Zenon DEF FillsAs
<1> QED BY <1>3, <1>4, <1>7, <1>11, <1>17, Zenon

\* The window after that: what was kept of it, further to the left, and what has come.
LEMMA FilledWindow ==
    ASSUME DeflateInv, NEW by \in {0, WindowSize}, NEW end \in Nat, NEW n \in Nat, NEW delta,
           by <= index, end = windowEnd - by, end + n <= 2 * WindowSize, taken + n <= Len(data),
           FillsAs(by, end, n, delta)
    PROVE  /\ window' \in [0 .. 2 * WindowSize - 1 -> ByteValues \cup {0}]
           /\ \A i \in 0 .. end - 1 : window'[i] = window[i + by]
           /\ \A i \in 0 .. end + n - 1 : window'[i] = data[((taken - windowEnd) + by) + i + 1]
<1>1. /\ taken \in Nat /\ windowEnd \in Nat /\ windowEnd <= taken /\ windowEnd <= 2 * WindowSize
      /\ taken <= Len(data) /\ Len(data) \in Nat /\ data \in Seq(ByteValues)
      /\ window \in [0 .. 2 * WindowSize - 1 -> ByteValues \cup {0}]
      /\ by \in Nat /\ WindowSize \in Nat
      /\ DeflateTypeOK /\ Ranges /\ WindowIsData
    BY Sizes DEF DeflateInv, DeflateTypeOK, Ranges
<1>2. PICK w : w = window'
    OBVIOUS
<1>3. w = [i \in 0 .. 2 * WindowSize - 1 |->
             IF i \in end .. end + n - 1 THEN data[taken + i - end + 1]
             ELSE IF i + by \in 0 .. 2 * WindowSize - 1 THEN window[i + by]
             ELSE window[i]]
  <2>1. DOMAIN window = 0 .. 2 * WindowSize - 1
      BY <1>1
  <2> QED BY <1>2, <2>1, Zenon DEF FillsAs
<1>4. ASSUME NEW i \in end .. end + n - 1
      PROVE  w[i] = data[taken + i - end + 1] /\ data[taken + i - end + 1] \in ByteValues
  <2>1. i \in 0 .. 2 * WindowSize - 1 /\ taken + i - end + 1 \in 1 .. Len(data)
      BY <1>1
  <2>2. w[i] = data[taken + i - end + 1]
      BY <1>3, <2>1
  <2>3. data[taken + i - end + 1] \in ByteValues
      BY <1>1, <2>1
  <2> QED BY <2>2, <2>3
<1>5. ASSUME NEW i \in 0 .. 2 * WindowSize - 1, i \notin end .. end + n - 1
      PROVE  w[i] \in ByteValues \cup {0}
  <2>1. CASE i + by \in 0 .. 2 * WindowSize - 1
    <3>1. w[i] = window[i + by]
        BY <1>3, <1>5, <2>1
    <3> QED BY <1>1, <2>1, <3>1
  <2>2. CASE i + by \notin 0 .. 2 * WindowSize - 1
    <3>1. w[i] = window[i]
        BY <1>3, <1>5, <2>2
    <3> QED BY <1>1, <3>1
  <2> QED BY <2>1, <2>2
<1>6. w \in [0 .. 2 * WindowSize - 1 -> ByteValues \cup {0}]
  <2>1. \A i \in 0 .. 2 * WindowSize - 1 : w[i] \in ByteValues \cup {0}
      BY <1>4, <1>5
  <2> QED BY <1>3, <2>1
<1>7. ASSUME NEW i \in 0 .. end - 1
      PROVE  w[i] = window[i + by] /\ i + by \in Nat /\ i + by < windowEnd
  <2>1. /\ i \in 0 .. 2 * WindowSize - 1 /\ i \notin end .. end + n - 1
        /\ i + by \in 0 .. 2 * WindowSize - 1 /\ i + by < windowEnd /\ i + by \in Nat
      BY <1>1
  <2>2. w[i] = window[i + by]
      BY <1>3, <2>1
  <2> QED BY <2>1, <2>2
<1>8. ASSUME NEW i \in 0 .. end + n - 1
      PROVE  w[i] = data[((taken - windowEnd) + by) + i + 1]
  <2>1. CASE i < end
    <3>1. i \in 0 .. end - 1
        BY <2>1
    <3>2. PICK j \in Nat : j = i + by /\ j < windowEnd /\ w[i] = window[j]
        BY <1>7, <3>1
    <3>3. window[j] = data[Position(j) + 1]
        BY <1>1, <3>2, WindowHolds
    <3>4. Position(j) + 1 = ((taken - windowEnd) + by) + i + 1
        BY <1>1, <3>2 DEF Position
    <3> QED BY <3>2, <3>3, <3>4
  <2>2. CASE ~ (i < end)
    <3>1. i \in end .. end + n - 1
        BY <2>2
    <3>2. taken + i - end + 1 = ((taken - windowEnd) + by) + i + 1
        BY <1>1
    <3> QED BY <1>4, <3>1, <3>2
  <2> QED BY <2>1, <2>2
<1>9. \A i \in 0 .. end - 1 : w[i] = window[i + by]
    BY <1>7
<1>10. \A i \in 0 .. end + n - 1 : w[i] = data[((taken - windowEnd) + by) + i + 1]
    BY <1>8
<1> QED BY <1>2, <1>6, <1>9, <1>10, Zenon

LEMMA FilledTables ==
    ASSUME DeflateInv, NEW by \in Nat, NEW end \in Nat, NEW n \in Nat, NEW delta \in Nat,
           by <= index, end = windowEnd - by,
           delta = 0 \/ delta = (hashOffset + by) - 1, FillsAs(by, end, n, delta),
           \A i \in 0 .. end - 1 : window'[i] = window[i + by]
    PROVE  /\ hashOffset' \in Nat \ {0} /\ chainHead' \in Int /\ chainHead' - hashOffset' < index - by
           /\ TablesHold(hash', hashOffset', index - by, window', end + n)
<1>1. /\ hashOffset \in Nat \ {0} /\ chainHead \in Int /\ chainHead - hashOffset < index
      /\ index \in Nat /\ windowEnd \in Nat /\ DeflateTypeOK /\ hash \in Tables
    BY DEF DeflateInv, DeflateTypeOK, ChainsLeadBack
<1>2. PICK w, t : w = window' /\ t = hash'
    OBVIOUS
<1>3. PICK far \in Nat \ {0} : far = hashOffset' /\ far = (hashOffset + by) - delta
    BY <1>1 DEF FillsAs
<1>4. chainHead' \in Int /\ chainHead' - far < index - by
  <2>1. chainHead' = chainHead - delta
      BY DEF FillsAs
  <2> QED BY <1>1, <1>3, <2>1
<1>5. TablesHold(hash, hashOffset, index, window, windowEnd)
    BY <1>1, TablesAreGood, GoodTablesHold
<1>6. hash.head \in [0 .. HashSize - 1 -> Nat] /\ hash.prev \in [0 .. WindowSize - 1 -> Nat]
    BY <1>1 DEF Tables
<1>7. /\ t \in Tables
      /\ \A h \in 0 .. HashSize - 1 : t.head[h] = Recounted(hash.head[h], delta)
      /\ \A k \in 0 .. WindowSize - 1 : t.prev[k] = Recounted(hash.prev[k], delta)
  <2>1. CASE delta = 0
    <3>1. t = hash
        BY <1>2, <2>1 DEF FillsAs
    <3> QED BY <1>1, <2>1, <3>1 DEF Recounted
  <2>2. CASE delta # 0
    <3>1. t = [head |-> Rebased(hash.head, delta), prev |-> Rebased(hash.prev, delta)]
        BY <1>2, <2>2 DEF FillsAs
    <3>2. delta \in Nat \ {0}
        BY <2>2
    <3>3. ASSUME NEW D, NEW f \in [D -> Nat]
          PROVE  Rebased(f, delta) \in [D -> Nat] /\ \A x \in D : Rebased(f, delta)[x] = Recounted(f[x], delta)
        BY <3>2, RebasedIs
    <3>4. /\ Rebased(hash.head, delta) \in [0 .. HashSize - 1 -> Nat]
          /\ \A h \in 0 .. HashSize - 1 : Rebased(hash.head, delta)[h] = Recounted(hash.head[h], delta)
      <4>1. PICK f, D : f = hash.head /\ D = 0 .. HashSize - 1
          OBVIOUS
      <4>2. f \in [D -> Nat]
          BY <1>6, <4>1, Zenon
      <4>3. Rebased(f, delta) \in [D -> Nat] /\ \A x \in D : Rebased(f, delta)[x] = Recounted(f[x], delta)
          BY ONLY <4>2, <3>3
      <4> QED BY <4>1, <4>3, Zenon
    <3>5. /\ Rebased(hash.prev, delta) \in [0 .. WindowSize - 1 -> Nat]
          /\ \A k \in 0 .. WindowSize - 1 : Rebased(hash.prev, delta)[k] = Recounted(hash.prev[k], delta)
      <4>1. PICK f, D : f = hash.prev /\ D = 0 .. WindowSize - 1
          OBVIOUS
      <4>2. f \in [D -> Nat]
          BY <1>6, <4>1, Zenon
      <4>3. Rebased(f, delta) \in [D -> Nat] /\ \A x \in D : Rebased(f, delta)[x] = Recounted(f[x], delta)
          BY ONLY <4>2, <3>3
      <4> QED BY <4>1, <4>3, Zenon
    <3> QED BY <3>1, <3>4, <3>5 DEF Tables
  <2> QED BY <2>1, <2>2
<1>8. ASSUME NEW v \in Nat, v - hashOffset < index
      PROVE  Recounted(v, delta) \in Nat /\ Recounted(v, delta) - far < index - by
  <2>1. PICK g \in Nat \ {0} : g = hashOffset + by
      BY <1>1
  <2>2. delta = 0 \/ delta = g - 1
      BY <2>1
  <2>3. /\ Recounted(v, delta) \in Nat
        /\ (Recounted(v, delta) - (g - delta) = v - g \/ Recounted(v, delta) - (g - delta) = -1)
      BY <2>2, RecountedIs
  <2>4. PICK c \in Nat : c = Recounted(v, delta)
      BY <2>3
  <2>5. c - far = v - g \/ c - far = -1
      BY <1>3, <2>1, <2>3, <2>4
  <2>6. v - g < index - by
      BY <1>1, <1>8, <2>1
  <2>7. c - far < index - by
      BY <1>1, <1>3, <2>1, <2>5, <2>6
  <2> QED BY <2>4, <2>7
<1>9. ASSUME NEW h \in 0 .. HashSize - 1
      PROVE  t.head[h] - far < index - by /\ HeadIs(t.head[h], far, w, end + n, h)
  <2>1. PICK v \in Nat : v = hash.head[h] /\ v - hashOffset < index
    <3>1. hash.head[h] \in Nat
        BY <1>6, Sizes
    <3> QED BY <1>5, <3>1 DEF TablesHold
  <2>2. t.head[h] = Recounted(v, delta)
      BY <1>7, <2>1
  <2>3. HeadIs(v, hashOffset, window, windowEnd, h)
      BY <1>5, <2>1 DEF TablesHold
  <2>4. PICK o \in Nat \ {0}, e \in Nat : o = hashOffset /\ e = windowEnd /\ end = e - by
      BY <1>1
  <2>5. /\ HeadIs(v, o, window, e, h) /\ (delta = 0 \/ delta = o + by - 1)
        /\ \A j \in 0 .. e - by - 1 : w[j] = window[j + by]
    <3>1. HeadIs(v, o, window, e, h)
        BY <2>3, <2>4, Zenon
    <3>2. delta = 0 \/ delta = o + by - 1
        BY <2>4
    <3>3. \A j \in 0 .. e - by - 1 : w[j] = window[j + by]
        BY <1>2, <2>4, Zenon
    <3> QED BY <3>1, <3>2, <3>3
  <2>6. HeadIs(Recounted(v, delta), o + by - delta, w, e - by + n, h)
      BY <2>5, HeadMoves
  <2>7. HeadIs(t.head[h], far, w, end + n, h)
    <3>1. far = o + by - delta
        BY <1>3, <2>4
    <3> QED BY <2>2, <2>4, <2>6, <3>1, Zenon
  <2>8. Recounted(v, delta) - far < index - by
      BY <1>8, <2>1
  <2> QED BY <2>2, <2>7, <2>8
<1>10. ASSUME NEW k \in 0 .. WindowSize - 1
       PROVE  t.prev[k] - far < index - by
  <2>1. PICK v \in Nat : v = hash.prev[k] /\ v - hashOffset < index
    <3>1. hash.prev[k] \in Nat
        BY <1>6, Sizes
    <3> QED BY <1>5, <3>1 DEF TablesHold
  <2>2. t.prev[k] = Recounted(v, delta)
      BY <1>7, <2>1
  <2> QED BY <1>8, <2>1, <2>2
<1>11. TablesHold(t, far, index - by, w, end + n)
    BY <1>7, <1>9, <1>10, Zenon DEF TablesHold
<1>12. far \in Nat \ {0}
    OBVIOUS
<1> QED BY <1>2, <1>3, <1>4, <1>11, <1>12, Zenon

LEMMA FillStep ==
    ASSUME DeflateInv, FillDeflate
    PROVE  DeflateInv'
<1>1. PICK by \in {0, WindowSize}, end \in Nat, n \in Nat, delta \in Nat :
        /\ by <= index /\ (by # 0 => by < index)
        /\ end = windowEnd - by /\ end + n <= 2 * WindowSize /\ taken + n <= Len(data)
        /\ (delta = 0 \/ delta = (hashOffset + by) - 1)
        /\ FillsAs(by, end, n, delta)
    BY FillHasNumbers
<1>2. /\ DeflateTypeOK /\ Ranges /\ WindowIsData
      /\ taken \in Nat /\ windowEnd \in Nat /\ index \in Nat /\ windowEnd <= taken /\ index <= windowEnd
      /\ taken <= Len(data) /\ Len(data) \in Nat /\ blockStart \in Int
      /\ by \in Nat /\ WindowSize \in Nat
    BY <1>1, Sizes DEF DeflateInv, DeflateTypeOK, Ranges
<1>3. /\ windowEnd' = end + n /\ taken' = taken + n /\ index' = index - by
      /\ sync' = (taken + n = Len(data)) /\ step' = "deflate"
      /\ data' = data /\ params' = params /\ byteAvailable' = byteAvailable
      /\ length' = length /\ offset' = offset /\ tokens' = tokens /\ blocks' = blocks
    BY <1>1, Zenon DEF FillsAs
<1>4. /\ window' \in [0 .. 2 * WindowSize - 1 -> ByteValues \cup {0}]
      /\ \A i \in 0 .. end - 1 : window'[i] = window[i + by]
      /\ \A i \in 0 .. end + n - 1 : window'[i] = data[((taken - windowEnd) + by) + i + 1]
    BY <1>1, FilledWindow
<1>5. /\ hashOffset' \in Nat \ {0} /\ chainHead' \in Int /\ chainHead' - hashOffset' < index - by
      /\ TablesHold(hash', hashOffset', index - by, window', end + n)
    BY <1>1, <1>2, <1>4, FilledTables
<1>6. DeflateTypeOK'
  <2>1. hash' \in Tables
      BY <1>5, Zenon DEF TablesHold
  <2>2. taken' \in Nat /\ windowEnd' \in Nat /\ index' \in Nat
      BY <1>1, <1>2, <1>3
  <2>3. blockStart' \in Int
    <3>1. CASE by = 0
        BY <1>1, <1>2, <3>1 DEF FillsAs
    <3>2. CASE by # 0
      <4>1. blockStart' = IF blockStart >= WindowSize THEN blockStart - WindowSize ELSE NoBlockStart
          BY <1>1, <3>2 DEF FillsAs
      <4> QED BY <1>2, <4>1, Sizes
    <3> QED BY <3>1, <3>2
  <2>4. sync' \in BOOLEAN
      BY <1>3, Zenon
  <2>5. step' \in {"deflate", "fill", "closed"}
      BY <1>3
  <2>6. /\ data' \in Seq(ByteValues) /\ params' \in [good : Nat, lazy : Nat, nice : Nat, chain : Nat]
        /\ byteAvailable' \in BOOLEAN /\ length' \in MinMatch - 1 .. MaxMatch /\ offset' \in Nat
        /\ tokens' \in Seq(Token) /\ blocks' \in Seq(Block)
      BY <1>2, <1>3, Zenon DEF DeflateTypeOK
  <2> QED BY <1>4, <1>5, <2>1, <2>2, <2>3, <2>4, <2>5, <2>6, Zenon DEF DeflateTypeOK
<1>7. Ranges'
  <2>1. taken' <= Len(data') /\ windowEnd' <= taken' /\ windowEnd' <= 2 * WindowSize /\ index' <= windowEnd'
    <3>1. taken + n <= Len(data) /\ end + n <= taken + n /\ end + n <= 2 * WindowSize /\ index - by <= end + n
        BY <1>1, <1>2
    <3> QED BY <1>3, <3>1, Zenon
  <2>2. sync' => taken' = Len(data')
      BY <1>3, Zenon
  <2>3. step' # "closed"
      BY <1>3
  <2>4. index' = 0 => tokens' = <<>> /\ ~ byteAvailable'
    <3>1. index' = 0 => index = 0
        BY <1>1, <1>2, <1>3
    <3>2. index = 0 => tokens = <<>> /\ ~ byteAvailable
        BY <1>2, Zenon DEF Ranges
    <3> QED BY <1>3, <3>1, <3>2, Zenon
  <2>5. Len(tokens') < MaxBlockTokens
      BY <1>2, <1>3, Zenon DEF Ranges
  <2> QED BY <2>1, <2>2, <2>3, <2>4, <2>5, Zenon DEF Ranges
<1>8. Gone' = (taken - windowEnd) + by
    BY <1>1, <1>2, <1>3 DEF Gone
<1>9. PICK q \in Int : /\ q = Position(index) /\ q = taken - windowEnd + index
                       /\ q = taken' - windowEnd' + index'
    BY <1>1, <1>2, <1>3 DEF Position
<1>10. WindowIsData'
  <2>1. ASSUME NEW i \in 0 .. end + n - 1
        PROVE  window'[i] = data[(taken' - windowEnd') + i + 1]
    <3>1. (taken' - windowEnd') + i + 1 = ((taken - windowEnd) + by) + i + 1
        BY <1>1, <1>2, <1>3
    <3> QED BY <1>4, <3>1, Zenon
  <2>2. ASSUME NEW i \in 0 .. windowEnd' - 1
        PROVE  window'[i] = data'[(taken' - windowEnd') + i + 1]
    <3>1. i \in 0 .. end + n - 1
        BY <1>3
    <3> QED BY <1>3, <2>1, <3>1, Zenon
  <2> QED BY <2>2, Zenon DEF WindowIsData, Position
<1>11. HeldMatchIsOne'
  <2>1. length >= MinMatch => byteAvailable /\ Repeats(data, taken, q - 1, length, offset)
      BY <1>9, Zenon DEF DeflateInv, HeldMatchIsOne
  <2>2. length >= MinMatch => byteAvailable /\ Repeats(data, taken + n, q - 1, length, offset)
    <3> SUFFICES ASSUME length >= MinMatch
                 PROVE  byteAvailable /\ Repeats(data, taken + n, q - 1, length, offset)
        BY Zenon
    <3>1. length \in Int /\ taken <= taken + n /\ taken + n \in Int /\ q - 1 \in Int /\ taken \in Int
        BY <1>2, Sizes DEF DeflateTypeOK
    <3>2. PICK a \in Int, b \in Int, p \in Int, l \in Int :
            a = taken /\ b = taken + n /\ p = q - 1 /\ l = length /\ a <= b
        BY <3>1
    <3>3. byteAvailable /\ Repeats(data, a, p, l, offset)
        BY <2>1, <3>2, Zenon
    <3>4. Repeats(data, b, p, l, offset)
        BY <3>2, <3>3, RepeatsInMore
    <3> QED BY <3>2, <3>3, <3>4, Zenon
  <2> QED BY <1>3, <1>9, <2>2, Zenon DEF HeldMatchIsOne, Position
<1>12. ChainsLeadBack' /\ HeadsAreWhereTheyHash'
  <2>1. /\ hash' \in Tables /\ hashOffset' \in Int /\ chainHead' - hashOffset' < index'
        /\ TablesHold(hash', hashOffset', index', window', windowEnd')
    <3>1. hashOffset' \in Int
        BY <1>5
    <3> QED BY <1>3, <1>5, <3>1, Zenon DEF TablesHold
  <2>2. (/\ hash \in Tables /\ hashOffset \in Int /\ chainHead - hashOffset < index
         /\ TablesHold(hash, hashOffset, index, window, windowEnd)
         => ChainsLeadBack /\ HeadsAreWhereTheyHash)'
      BY HeldTablesAreRight, PTL
  <2> QED BY <2>1, <2>2, Zenon
<1>13. BlocksAreData'
  <2>1. PICK starts \in [0 .. Len(blocks) -> 0 .. Len(data)] :
            BlocksReach(data, blocks, tokens, blockStart, Gone, Passed, starts)
      BY DEF DeflateInv, BlocksAreData
  <2>2. Passed' = Passed
      BY <1>3, <1>9, Zenon DEF Passed, Position
  <2>3. PICK p \in Int : p = starts[Len(blocks)]
    <3>1. Len(blocks) \in Nat
        BY <1>2 DEF DeflateTypeOK
    <3>2. Len(blocks) \in 0 .. Len(blocks)
        BY <3>1
    <3> QED BY <1>2, <3>2
  <2>4. StartIsKnown(blockStart, Gone, p)
      BY <2>1, <2>3, Zenon DEF BlocksReach
  <2>5. StartIsKnown(blockStart', Gone', p)
    <3>1. CASE by = 0
      <4>1. blockStart' = blockStart /\ Gone' = Gone
          BY <1>1, <1>2, <1>8, <3>1 DEF FillsAs, Gone
      <4> QED BY <2>4, <4>1, Zenon
    <3>2. CASE by # 0
      <4>1. blockStart' = IF blockStart >= WindowSize THEN blockStart - WindowSize ELSE NoBlockStart
          BY <1>1, <3>2 DEF FillsAs
      <4>2. PICK s \in Int, g \in Int : s = blockStart /\ g = Gone /\ Gone' = g + WindowSize
          BY <1>1, <1>2, <1>8, <3>2 DEF Gone
      <4>3. StartIsKnown(s, g, p)
          BY <2>4, <4>2, Zenon
      <4>4. StartIsKnown(IF s >= WindowSize THEN s - WindowSize ELSE NoBlockStart, g + WindowSize, p)
          BY <4>3, ShiftedStartIsKnown
      <4> QED BY <4>1, <4>2, <4>4, Zenon
    <3> QED BY <3>1, <3>2
  <2>6. BlocksReach(data', blocks', tokens', blockStart', Gone', Passed', starts)
      BY <1>3, <2>1, <2>2, <2>3, <2>5, Zenon DEF BlocksReach
  <2>7. starts \in [0 .. Len(blocks') -> 0 .. Len(data')]
      BY <1>3, Zenon
  <2> QED BY <2>6, <2>7, Zenon DEF BlocksAreData
<1> QED BY <1>6, <1>7, <1>10, <1>11, <1>12, <1>13 DEF DeflateInv

LEMMA DeflateInvStep == DeflateInv /\ [DeflateNext]_deflateVars => DeflateInv'
<1> SUFFICES ASSUME DeflateInv, [DeflateNext]_deflateVars
             PROVE  DeflateInv'
    OBVIOUS
<1>1. CASE AwaitInput
    BY <1>1, AwaitInputStep
<1>2. CASE FillDeflate
    BY <1>2, FillStep
<1>3. CASE EmitMatch
    BY <1>3, EmitMatchStep
<1>4. CASE Advance
    BY <1>4, AdvanceStep
<1>5. CASE FlushTail
    BY <1>5, FlushTailStep
<1>6. CASE UNCHANGED deflateVars
    BY <1>6, Zenon
       DEF deflateVars, fixed, windowVars, DeflateInv, DeflateTypeOK, Ranges, WindowIsData, HeldMatchIsOne,
           ChainsLeadBack, HeadsAreWhereTheyHash, BlocksAreData, Position, Gone, Passed, Hash4, Slice,
           ByteAt, MaxInsertIndex
<1> QED BY <1>1, <1>2, <1>3, <1>4, <1>5, <1>6 DEF DeflateNext

\* The matcher's invariant.
LEMMA DeflateInvHolds == DeflateSpec => []DeflateInv
BY DeflateInvInit, DeflateInvStep, PTL DEF DeflateSpec

\* However the window is filled and shifted and the hash offset counted anew, for
\* any data, any level, any hash and any sizes that satisfy the assumptions: what
\* has been emitted expands to what has been passed, in the end to all the data;
\* the bytes kept for a block that may be stored are those its tokens stand for;
\* the chains start where they hash.
THEOREM DeflateAlwaysFaithful == DeflateSpec => []DeflateIsFaithful
BY DeflateInvHolds, InvIsFaithful, PTL

-----------------------------------------------------------------------------
(* What is read of a line *)

LEMMA DigestIsOne == \A token : DigestOf(token) \in Digests
<1> TAKE token
<1>1. \E d \in Digests : IsDigest(token) => token = DigestToken(d)
    BY LinesAssumption DEF IsDigest
<1> QED BY <1>1 DEF DigestOf

\* Each field adds to what has been found; the digest stays.
Shaped(r) == "s" \in DOMAIN r /\ "digest" \in DOMAIN r.s /\ r.s["digest"] \in Digests
LEMMA FieldsKeepShape ==
    ASSUME NEW line, NEW r, Shaped(r)
    PROVE  /\ Shaped(WithExpected(line, r)) /\ Shaped(WithTimestamp(line, r))
           /\ Shaped(WithUrl(line, r)) /\ Shaped(WithFormat(line, r))
<1>1. ASSUME NEW j PROVE Shaped([r EXCEPT !.at = j])
    BY DEF Shaped
<1>2. ASSUME NEW j, NEW x
      PROVE  /\ Shaped([at |-> j, s |-> [r.s EXCEPT !.expected = x]])
             /\ Shaped([at |-> j, s |-> [r.s EXCEPT !.timestamp = x]])
             /\ Shaped([at |-> j, s |-> [r.s EXCEPT !.url = x]])
             /\ Shaped([at |-> j, s |-> [r.s EXCEPT !.format = x]])
    BY DEF Shaped
<1>3. Shaped(WithExpected(line, r))
    BY <1>1, <1>2, Zenon DEF WithExpected, Expected, Refused
<1>4. Shaped(WithTimestamp(line, r))
    BY <1>1, <1>2, Zenon DEF WithTimestamp, Timestamp, Refused
<1>5. Shaped(WithUrl(line, r))
    BY <1>2, Zenon DEF WithUrl, Url
<1>6. Shaped(WithFormat(line, r))
  <2>1. ASSUME NEW a, NEW b PROVE Shaped(FormatAt(line, r, a, b))
      BY <1>1, <1>2, Zenon DEF FormatAt, Refused
  <2> QED BY <2>1, Zenon DEF WithFormat
<1> QED BY <1>3, <1>4, <1>5, <1>6

LEMMA ParsedDigest == \A line : Parsed(line) => Snapshot(line).digest \in Digests
<1> TAKE line
<1> DEFINE first == WithDigest(line, Expect(line, 1, Start \o Opening("digest")))
           r == WithFormat(line, WithUrl(line, WithTimestamp(line, WithExpected(line, first))))
<1>1. Shaped(first)
  <2>1. ASSUME NEW k PROVE Shaped(WithDigest(line, k))
      BY DigestIsOne DEF WithDigest, Blank, Shaped
  <2> QED BY <2>1
<1>2. Shaped(r)
    BY <1>1, FieldsKeepShape, Zenon
<1>3. Parse(line) = Completed(line, r)
    BY DEF Parse
<1> HIDE DEF r
<1>5. ASSUME NEW j, WithContent(line, r, j).ok PROVE WithContent(line, r, j).snapshot.digest \in Digests
    BY <1>2, <1>5 DEF WithContent, Shaped
<1> QED BY <1>3, <1>5 DEF Parsed, Snapshot, Completed

LEMMA NothingIsNoLine == ~ Parsed(<<>>)
<1> SUFFICES ASSUME NEW line, line = <<>> PROVE ~ Parsed(line)
    OBVIOUS
<1>1. Len(line) = 0 /\ DOMAIN line = {}
    OBVIOUS
<1>2. \A i : At(line, i) = <<>>
    BY <1>1 DEF At
<1>3. \A r, w : ~ Has(line, r, w)
    BY <1>2 DEF Has, Char
<1>4. ASSUME NEW w PROVE Expect(line, 1, Key(w)) = 1
    BY <1>1 DEF Expect, Key
<1>5. Expect(line, 1, Start \o Opening("digest")) = 1
    BY <1>1 DEF Expect, Start, Opening
<1>6. ~ IsDigest(At(line, 1))
    BY <1>2, LinesAssumption DEF IsDigest, DigestToken
<1>7. WithDigest(line, 1).at = 1
    BY <1>6, <1>1 DEF WithDigest
<1>8. Parse(line) = Completed(line, WithDigest(line, 1))
  <2>1. ASSUME NEW r PROVE WithExpected(line, r) = r
      BY <1>3 DEF WithExpected
  <2>2. ASSUME NEW r PROVE WithTimestamp(line, r) = r
      BY <1>3 DEF WithTimestamp
  <2>3. ASSUME NEW r PROVE WithUrl(line, r) = r
      BY <1>3 DEF WithUrl
  <2>4. ASSUME NEW r PROVE WithFormat(line, r) = r
      BY <1>3 DEF WithFormat
  <2> DEFINE d == WithDigest(line, Expect(line, 1, Start \o Opening("digest")))
  <2>5. Parse(line) = Completed(line, WithFormat(line, WithUrl(line, WithTimestamp(line, WithExpected(line, d)))))
      BY DEF Parse
  <2>6. d = WithDigest(line, 1)
      BY <1>5
  <2> HIDE DEF d
  <2>7. WithExpected(line, d) = d /\ WithTimestamp(line, d) = d /\ WithUrl(line, d) = d /\ WithFormat(line, d) = d
      BY <2>1, <2>2, <2>3, <2>4
  <2>8. Parse(line) = Completed(line, d)
      BY <2>5, <2>7
  <2> QED BY <2>6, <2>8
<1>9. Parse(line) = [ok |-> FALSE]
  <2>1. Expect(line, WithDigest(line, 1).at, Key("content")) = 1
      BY <1>7, <1>4
  <2>2. \A r : WithContent(line, r, 1) = [ok |-> FALSE]
      BY <1>1 DEF WithContent
  <2> QED BY <2>1, <2>2, <1>8 DEF Completed
<1> QED BY <1>9 DEF Parsed

-----------------------------------------------------------------------------
(* The readers and the export of lines *)

Digest(i) == Snapshot(lines[i]).digest
Good(i) == Parsed(lines[i]) /\ Verifies(Snapshot(lines[i]), context)
CleanTo(n) == \A i \in 1 .. n : Good(i) /\ (i > 1 => Before(Digest(i - 1), Digest(i)))
Clean == CleanTo(Len(lines))
NoProblems == counts.invalid + counts.outOfOrder = 0
DigestBefore == IF at = 1 THEN {} ELSE {Digest(at - 1)}
ExportedNames == {exported[i].name : i \in DOMAIN exported}
Counts == [verified : Nat, invalid : Nat, outOfOrder : Nat]
Outcomes == {"none", "stopped", "problems", "clean"}
Preparing == pc \in {"pack", "resolve"}
NoneTooLong == \A i \in DOMAIN lines : ~ TooLong(lines[i])

ReadersType ==
    /\ lines \in Seq(Line) /\ at \in 1 .. Len(lines) + 1 /\ counts \in Counts
    /\ asked \subseteq Digests /\ requested \subseteq asked
    /\ exported \in Seq({OnDisk(Snapshot(lines[i])) : i \in DOMAIN lines})
    /\ outcome \in [verify : Outcomes, validate : Outcomes]
    /\ pc \in {"pack", "resolve", "verify", "validate", "ask", "export", "done", "failed"}
VerifyInv ==
    /\ Preparing => at = 1 /\ last = {} /\ counts = NoCounts
    /\ Preparing \/ pc \in {"verify", "validate", "ask"} => exported = <<>>
    /\ pc = "ask" => at = 1
    /\ pc = "verify" => last = DigestBefore /\ (NoProblems <=> CleanTo(at - 1))
ValidateInv ==
    pc = "validate" =>
        /\ NoProblems <=> CleanTo(at - 1)
        /\ CleanTo(at - 1) => last = DigestBefore
        /\ \A i \in 1 .. at - 1 : ~ TooLong(lines[i])
OutcomeInv ==
    /\ Preparing \/ pc = "verify" <=> outcome.verify = "none" /\ pc # "failed"
    /\ Preparing \/ pc \in {"verify", "validate"} <=> outcome.validate = "none" /\ pc # "failed"
    /\ outcome.verify # "none" => (outcome.verify = "clean" <=> Clean)
    /\ outcome.validate # "none" =>
          outcome.verify # "none" /\ (outcome.validate = "clean" <=> Clean /\ NoneTooLong)
ExportInv ==
    /\ \A i \in DOMAIN exported :
          /\ exported[i].name \in asked
          /\ exported[i].bytes # exported[i].name => i = Len(exported) /\ pc = "failed"
    /\ pc = "export" /\ Clean =>
          /\ requested = {d \in asked : \A i \in 1 .. at - 1 : Before(Digest(i), d)}
          /\ ExportedNames = asked \cap {Digest(i) : i \in 1 .. at - 1}
    /\ pc = "done" /\ Clean => ExportedNames = asked \cap {Digest(i) : i \in DOMAIN lines}
    /\ pc = "failed" /\ outcome.validate = "clean" =>
          /\ exportAs.whitespace # context.whitespace
          /\ \E i \in DOMAIN exported : exported[i].bytes # exported[i].name
ReadersInv == ReadersType /\ VerifyInv /\ ValidateInv /\ OutcomeInv /\ ExportInv

LEMMA CleanGrows ==
    ASSUME NEW n \in Nat
    PROVE  CleanTo(n + 1) <=> CleanTo(n) /\ Good(n + 1) /\ (n > 0 => Before(Digest(n), Digest(n + 1)))
<1> DEFINE Fine(i) == Good(i) /\ (i > 1 => Before(Digest(i - 1), Digest(i)))
<1>1. 1 .. n + 1 = (1 .. n) \cup {n + 1}
    OBVIOUS
<1>2. CleanTo(n) <=> \A i \in 1 .. n : Fine(i)
    BY DEF CleanTo
<1>3. CleanTo(n + 1) <=> \A i \in 1 .. n + 1 : Fine(i)
    BY DEF CleanTo
<1>4. Fine(n + 1) <=> Good(n + 1) /\ (n > 0 => Before(Digest(n), Digest(n + 1)))
  <2>1. (n + 1) - 1 = n /\ (n + 1 > 1 <=> n > 0)
      OBVIOUS
  <2> QED BY <2>1
<1> HIDE DEF Fine
<1> QED BY <1>1, <1>2, <1>3, <1>4

LEMMA OnlyWhitespaceCounts ==
    ASSUME NEW s, NEW c, NEW d, c.whitespace = d.whitespace
    PROVE  Verifies(s, c) <=> Verifies(s, d)
BY DEF Verifies, Encode, Effective

LEMMA CleanStays ==
    ASSUME UNCHANGED <<lines, context>>
    PROVE  /\ \A i : Digest(i)' = Digest(i) /\ (Good(i)' <=> Good(i))
           /\ \A n : CleanTo(n)' <=> CleanTo(n)
           /\ (Clean' <=> Clean) /\ (NoneTooLong' <=> NoneTooLong)
           /\ {Digest(i) : i \in DOMAIN lines}' = {Digest(i) : i \in DOMAIN lines}
<1>1. ASSUME NEW i PROVE Digest(i)' = Digest(i) /\ (Good(i)' <=> Good(i))
    BY DEF Digest, Good
<1>2. ASSUME NEW n PROVE CleanTo(n)' <=> CleanTo(n)
    BY DEF CleanTo, Good, Digest
<1>3. (Clean' <=> Clean) /\ (NoneTooLong' <=> NoneTooLong)
    BY DEF Clean, CleanTo, Good, Digest, NoneTooLong
<1>4. {Digest(i) : i \in DOMAIN lines}' = {Digest(i) : i \in DOMAIN lines}
    BY DEF Digest
<1> QED BY <1>1, <1>2, <1>3, <1>4

LEMMA ReadersInvInit == SnapshotInit => ReadersInv
<1> SUFFICES ASSUME SnapshotInit PROVE ReadersInv
    OBVIOUS
<1>1. lines = <<>> /\ exported = <<>> /\ pc = "pack" /\ at = 1 /\ last = {} /\ counts = NoCounts /\ asked = {} /\ requested = {}
      /\ outcome = [verify |-> "none", validate |-> "none"]
    BY DEF SnapshotInit
<1>2. ReadersType
    BY <1>1 DEF ReadersType, NoCounts, Counts, Outcomes
<1>3. VerifyInv /\ ValidateInv /\ OutcomeInv
    BY <1>1 DEF VerifyInv, ValidateInv, OutcomeInv, Preparing
<1>4. ExportInv
    BY <1>1 DEF ExportInv
<1> QED BY <1>2, <1>3, <1>4 DEF ReadersInv

\* Before the lines are read, nothing is known of them.
LEMMA PreparingKeeps ==
    ASSUME ReadersInv, Preparing, lines' \in Seq(Line), UNCHANGED <<at, last, counts, exporting, outcome>>,
           pc' \in {"pack", "resolve", "verify", "failed"}
    PROVE  ReadersInv'
<1> USE DEF exporting
<1>1. /\ at = 1 /\ last = {} /\ counts = NoCounts /\ exported = <<>> /\ outcome.verify = "none" /\ outcome.validate = "none"
      /\ asked \subseteq Digests /\ requested \subseteq asked /\ outcome \in [verify : Outcomes, validate : Outcomes]
    BY DEF ReadersInv, ReadersType, VerifyInv, OutcomeInv
<1>2. ReadersType'
  <2>1. 1 \in 1 .. Len(lines') + 1 /\ counts' \in Counts
      BY <1>1 DEF Counts, NoCounts
  <2>2. <<>> \in Seq({OnDisk(Snapshot(lines[i]))' : i \in DOMAIN lines'})
      OBVIOUS
  <2> QED BY <1>1, <2>1, <2>2 DEF ReadersType
<1>3. VerifyInv'
  <2>1. NoProblems' /\ CleanTo(0)' /\ at' - 1 = 0
      BY <1>1 DEF NoProblems, NoCounts, CleanTo
  <2>2. DigestBefore' = {}
      BY <1>1 DEF DigestBefore
  <2> QED BY <1>1, <2>1, <2>2 DEF VerifyInv
<1>4. ValidateInv' /\ OutcomeInv'
    BY <1>1 DEF ValidateInv, OutcomeInv, Preparing
<1>5. ExportInv'
    BY <1>1 DEF ExportInv
<1> QED BY <1>2, <1>3, <1>4, <1>5 DEF ReadersInv

LEMMA HandOverStep == ReadersInv /\ HandOver => ReadersInv'
<1> SUFFICES ASSUME ReadersInv, HandOver PROVE ReadersInv'
    OBVIOUS
<1>1. lines' \in Seq(Line)
    BY DEF HandOver, ReadersInv, ReadersType
<1> QED BY <1>1, PreparingKeeps DEF HandOver, Preparing

LEMMA ContextStep == ReadersInv /\ ResolveContext => ReadersInv'
<1> SUFFICES ASSUME ReadersInv, ResolveContext PROVE ReadersInv'
    OBVIOUS
<1>1. lines \in Seq(Line)
    BY DEF ReadersInv, ReadersType
<1>2. Preparing /\ UNCHANGED <<lines, at, last, counts, exporting, outcome>> /\ pc' \in {"verify", "failed"}
    BY DEF ResolveContext, Preparing, source
<1> QED BY <1>1, <1>2, PreparingKeeps

\* One line further, the problems that are found are those there are.
LEMMA CountsAdd ==
    ASSUME ReadersType, NEW bad \in {0, 1}, NEW odd \in {0, 1}, NEW good,
           counts' = [verified |-> good, invalid |-> counts.invalid + bad, outOfOrder |-> counts.outOfOrder + odd]
    PROVE  NoProblems' <=> NoProblems /\ bad = 0 /\ odd = 0
BY DEF ReadersType, Counts, NoProblems

LEMMA VerifyStops ==
    ASSUME ReadersInv, VerifyLine, at > Len(lines) \/ ~ Parsed(lines[at])
    PROVE  ReadersInv'
<1>1. /\ pc = "verify" /\ pc' = "validate" /\ at' = 1 /\ last' = {} /\ counts' = NoCounts
      /\ outcome' = [outcome EXCEPT !.verify = IF at <= Len(lines) THEN "stopped"
                       ELSE IF counts.invalid + counts.outOfOrder > 0 THEN "problems" ELSE "clean"]
      /\ UNCHANGED <<lines, context, asked, exportAs, requested, exported>>
    BY DEF VerifyLine, source, exporting
<1>2. ReadersType /\ VerifyInv /\ OutcomeInv
    BY DEF ReadersInv
<1>3. outcome'.verify = "clean" <=> Clean
  <2>1. CASE at <= Len(lines)
    <3>1. ~ Good(at)
        BY <2>1, <1>2 DEF Good, ReadersType
    <3>2. ~ Clean
        BY <3>1, <2>1, <1>2 DEF Clean, CleanTo, ReadersType
    <3> QED BY <3>2, <2>1, <1>1, <1>2 DEF ReadersType
  <2>2. CASE at > Len(lines)
    <3>1. at - 1 = Len(lines)
        BY <2>2, <1>2 DEF ReadersType
    <3>2. outcome'.verify = "clean" <=> NoProblems
        BY <2>2, <1>1, <1>2 DEF ReadersType, NoProblems, Counts
    <3> QED BY <3>1, <3>2, <1>1, <1>2 DEF Clean, VerifyInv
  <2> QED BY <2>1, <2>2, <1>2 DEF ReadersType
<1>4. exported = <<>>
    BY <1>1, <1>2 DEF VerifyInv
<1>5. ReadersType'
  <2>1. outcome' \in [verify : Outcomes, validate : Outcomes]
      BY <1>1, <1>2 DEF ReadersType, Outcomes
  <2>2. 1 \in 1 .. Len(lines') + 1 /\ NoCounts \in Counts
      BY <1>1, <1>2 DEF ReadersType, NoCounts, Counts
  <2>3. <<>> \in Seq({OnDisk(Snapshot(lines[i]))' : i \in DOMAIN lines'})
      OBVIOUS
  <2> QED BY <1>1, <1>2, <1>4, <2>1, <2>2, <2>3 DEF ReadersType
<1>6. VerifyInv' /\ ExportInv'
    BY <1>1, <1>4 DEF VerifyInv, ExportInv, Preparing
<1>7. ValidateInv'
  <2>1. NoProblems' /\ DigestBefore' = {}
      BY <1>1 DEF NoProblems, NoCounts, DigestBefore
  <2>2. CleanTo(0)' /\ at' - 1 = 0 /\ 1 .. 0 = {}
      BY <1>1 DEF CleanTo
  <2> QED BY <1>1, <2>1, <2>2 DEF ValidateInv
<1>8. OutcomeInv'
  <2>1. outcome'.verify # "none" /\ outcome'.validate = outcome.validate /\ outcome.validate = "none"
      BY <1>1, <1>2 DEF ReadersType, OutcomeInv, Preparing
  <2> QED BY <1>1, <1>3, <2>1, CleanStays DEF OutcomeInv, Preparing
<1> QED BY <1>5, <1>6, <1>7, <1>8 DEF ReadersInv

\* The digest of the line before this one.
LEMMA OrderedIsAfter ==
    ASSUME ReadersType, last = DigestBefore
    PROVE  InOrder(Digest(at)) <=> (at - 1 > 0 => Before(Digest(at - 1), Digest(at)))
BY DEF ReadersType, DigestBefore, InOrder

LEMMA VerifyGoesOn ==
    ASSUME ReadersInv, VerifyLine, ~ (at > Len(lines) \/ ~ Parsed(lines[at]))
    PROVE  ReadersInv'
<1> DEFINE snapshot == Snapshot(lines[at])
           ok == Verifies(snapshot, context)
           ordered == InOrder(snapshot.digest)
<1>1. /\ pc = "verify" /\ at <= Len(lines) /\ Parsed(lines[at])
      /\ counts' = [verified |-> counts.verified + (IF ok THEN 1 ELSE 0),
                    invalid |-> counts.invalid + (IF ok THEN 0 ELSE 1),
                    outOfOrder |-> counts.outOfOrder + (IF ordered THEN 0 ELSE 1)]
      /\ last' = {Digest(at)} /\ at' = at + 1
      /\ UNCHANGED <<lines, context, asked, exportAs, requested, exported, outcome, pc>>
    BY DEF VerifyLine, source, exporting, ReadersInv, ReadersType, Digest
<1>2. ReadersType /\ VerifyInv /\ OutcomeInv
    BY DEF ReadersInv
<1>3. at \in Nat /\ at - 1 \in Nat /\ (at - 1) + 1 = at /\ at + 1 \in 1 .. Len(lines) + 1 /\ (at + 1) - 1 = at /\ at + 1 # 1
    BY <1>1, <1>2 DEF ReadersType
<1>4. NoProblems' <=> NoProblems /\ ok /\ ordered
  <2>1. PICK bad \in {0, 1}, odd \in {0, 1} : (bad = 0 <=> ok) /\ (odd = 0 <=> ordered)
          /\ counts.invalid + bad = counts.invalid + (IF ok THEN 0 ELSE 1)
          /\ counts.outOfOrder + odd = counts.outOfOrder + (IF ordered THEN 0 ELSE 1)
    <3> HIDE DEF ok, ordered
    <3> WITNESS (IF ok THEN 0 ELSE 1) \in {0, 1}, (IF ordered THEN 0 ELSE 1) \in {0, 1}
    <3> QED OBVIOUS
  <2> HIDE DEF ok, ordered
  <2> QED BY <2>1, <1>1, <1>2, CountsAdd
<1>5. CleanTo(at) <=> CleanTo(at - 1) /\ ok /\ ordered
  <2>1. Good(at) <=> ok
      BY <1>1 DEF Good
  <2>2. ordered <=> (at - 1 > 0 => Before(Digest(at - 1), Digest(at)))
      BY <1>1, <1>2, OrderedIsAfter DEF VerifyInv, Digest
  <2> HIDE DEF ok, ordered
  <2> QED BY <2>1, <2>2, <1>3, CleanGrows
<1>6. NoProblems' <=> CleanTo(at)
  <2>1. NoProblems <=> CleanTo(at - 1)
      BY <1>1, <1>2 DEF VerifyInv
  <2> HIDE DEF ok, ordered
  <2> QED BY <2>1, <1>4, <1>5
<1>7. exported = <<>> /\ outcome.verify = "none" /\ outcome.validate = "none"
    BY <1>1, <1>2 DEF VerifyInv, OutcomeInv
<1>8. ReadersType'
  <2>1. counts' \in Counts
    <3> HIDE DEF ok, ordered
    <3> QED BY <1>1, <1>2 DEF ReadersType, Counts
  <2>2. <<>> \in Seq({OnDisk(Snapshot(lines[i]))' : i \in DOMAIN lines'})
      OBVIOUS
  <2> QED BY <1>1, <1>2, <1>3, <1>7, <2>1, <2>2 DEF ReadersType
<1>9. VerifyInv'
  <2>1. DigestBefore' = {Digest(at)}
      BY <1>1, <1>3, CleanStays DEF DigestBefore
  <2>2. CleanTo(at - 1)' <=> CleanTo(at)
    <3>1. at' - 1 = at
        BY <1>1, <1>3
    <3> QED BY <3>1, <1>1 DEF CleanTo, Good, Digest
  <2> HIDE DEF ok, ordered
  <2> QED BY <1>1, <1>6, <1>7, <2>1, <2>2 DEF VerifyInv, Preparing
<1>10. ValidateInv' /\ OutcomeInv' /\ ExportInv'
    BY <1>1, <1>7 DEF ValidateInv, OutcomeInv, ExportInv, Preparing
<1> QED BY <1>8, <1>9, <1>10 DEF ReadersInv

LEMMA VerifyStep == ReadersInv /\ VerifyLine => ReadersInv'
BY VerifyStops, VerifyGoesOn

LEMMA ValidateStops ==
    ASSUME ReadersInv, ValidateLine, at > Len(lines) \/ lines[at] = <<>> \/ TooLong(lines[at])
    PROVE  ReadersInv'
<1>1. /\ pc = "validate" /\ pc' = "ask" /\ at' = 1 /\ counts' = NoCounts
      /\ outcome' = [outcome EXCEPT !.validate = IF at <= Len(lines) THEN "stopped"
                       ELSE IF counts.invalid + counts.outOfOrder > 0 THEN "problems" ELSE "clean"]
      /\ UNCHANGED <<lines, context, asked, exportAs, requested, exported>>
    BY DEF ValidateLine, source, exporting
<1>2. ReadersType /\ VerifyInv /\ ValidateInv /\ OutcomeInv
    BY DEF ReadersInv
<1>3. outcome'.validate = "clean" <=> Clean /\ NoneTooLong
  <2>1. CASE at <= Len(lines)
    <3>0. at \in 1 .. Len(lines) /\ DOMAIN lines = 1 .. Len(lines) /\ (lines[at] = <<>> \/ TooLong(lines[at]))
        BY <2>1, <1>2 DEF ReadersType
    <3>1. lines[at] = <<>> => ~ Good(at)
        BY NothingIsNoLine DEF Good
    <3>2. ~ (Clean /\ NoneTooLong)
        BY <3>0, <3>1 DEF Clean, CleanTo, NoneTooLong
    <3> QED BY <3>2, <2>1, <1>1, <1>2 DEF ReadersType
  <2>2. CASE at > Len(lines)
    <3>1. at - 1 = Len(lines) /\ DOMAIN lines = 1 .. Len(lines)
        BY <2>2, <1>2 DEF ReadersType
    <3>2. outcome'.validate = "clean" <=> NoProblems
        BY <2>2, <1>1, <1>2 DEF ReadersType, NoProblems, Counts
    <3> QED BY <3>1, <3>2, <1>1, <1>2 DEF Clean, ValidateInv, NoneTooLong
  <2> QED BY <2>1, <2>2, <1>2 DEF ReadersType
<1>4. exported = <<>>
    BY <1>1, <1>2 DEF VerifyInv
<1>5. outcome'.verify = outcome.verify
    BY <1>1, <1>2 DEF ReadersType
<1>6. ReadersType'
  <2>1. outcome' \in [verify : Outcomes, validate : Outcomes]
      BY <1>1, <1>2 DEF ReadersType, Outcomes
  <2>2. 1 \in 1 .. Len(lines') + 1 /\ NoCounts \in Counts
      BY <1>1, <1>2 DEF ReadersType, NoCounts, Counts
  <2>3. <<>> \in Seq({OnDisk(Snapshot(lines[i]))' : i \in DOMAIN lines'})
      OBVIOUS
  <2> QED BY <1>1, <1>2, <1>4, <2>1, <2>2, <2>3 DEF ReadersType
<1>7. VerifyInv' /\ ValidateInv'
    BY <1>1, <1>4 DEF VerifyInv, ValidateInv, Preparing
<1>8. OutcomeInv'
  <2>1. outcome'.validate # "none" /\ outcome.verify # "none"
      BY <1>1, <1>2 DEF ReadersType, OutcomeInv, Preparing
  <2> QED BY <1>1, <1>2, <1>3, <1>5, <2>1, CleanStays DEF OutcomeInv, Preparing
<1>9. ExportInv'
  <2>1. exported' = <<>> /\ DOMAIN <<>> = {}
      BY <1>1, <1>4
  <2> QED BY <2>1, <1>1 DEF ExportInv
<1> QED BY <1>6, <1>7, <1>8, <1>9 DEF ReadersInv

LEMMA ValidateGoesOn ==
    ASSUME ReadersInv, ValidateLine, ~ (at > Len(lines) \/ lines[at] = <<>> \/ TooLong(lines[at]))
    PROVE  ReadersInv'
<1> DEFINE ok == Parsed(lines[at]) /\ Verifies(Snapshot(lines[at]), context)
           ordered == InOrder(Snapshot(lines[at]).digest)
<1>1. /\ pc = "validate" /\ at <= Len(lines)
      /\ counts' = [verified |-> counts.verified + (IF ok /\ ordered THEN 1 ELSE 0),
                    invalid |-> counts.invalid + (IF ok THEN 0 ELSE 1),
                    outOfOrder |-> counts.outOfOrder + (IF ok /\ ~ordered THEN 1 ELSE 0)]
      /\ last' = (IF ok /\ ordered THEN {Digest(at)} ELSE last) /\ at' = at + 1
      /\ UNCHANGED <<lines, context, asked, exportAs, requested, exported, outcome, pc>>
    BY DEF ValidateLine, source, exporting, ReadersInv, ReadersType, Digest
<1>2. ReadersType /\ VerifyInv /\ ValidateInv /\ OutcomeInv
    BY DEF ReadersInv
<1>3. at \in Nat /\ at - 1 \in Nat /\ (at - 1) + 1 = at /\ at + 1 \in 1 .. Len(lines) + 1 /\ (at + 1) - 1 = at /\ at + 1 # 1
    BY <1>1, <1>2 DEF ReadersType
<1>4. NoProblems' <=> NoProblems /\ ok /\ ordered
  <2>1. PICK bad \in {0, 1}, odd \in {0, 1} : (bad = 0 <=> ok) /\ (odd = 0 <=> ~ ok \/ ordered)
          /\ counts.invalid + bad = counts.invalid + (IF ok THEN 0 ELSE 1)
          /\ counts.outOfOrder + odd = counts.outOfOrder + (IF ok /\ ~ordered THEN 1 ELSE 0)
    <3> HIDE DEF ok, ordered
    <3> WITNESS (IF ok THEN 0 ELSE 1) \in {0, 1}, (IF ok /\ ~ordered THEN 1 ELSE 0) \in {0, 1}
    <3> QED OBVIOUS
  <2> HIDE DEF ok, ordered
  <2> QED BY <2>1, <1>1, <1>2, CountsAdd
<1>5. CleanTo(at) <=> CleanTo(at - 1) /\ ok /\ ordered
  <2>1. Good(at) <=> ok
      BY DEF Good
  <2>2. CleanTo(at - 1) => (ordered <=> (at - 1 > 0 => Before(Digest(at - 1), Digest(at))))
      BY <1>1, <1>2, OrderedIsAfter DEF ValidateInv, Digest
  <2> HIDE DEF ok, ordered
  <2> QED BY <2>1, <2>2, <1>3, CleanGrows
<1>6. NoProblems' <=> CleanTo(at)
  <2>1. NoProblems <=> CleanTo(at - 1)
      BY <1>1, <1>2 DEF ValidateInv
  <2> HIDE DEF ok, ordered
  <2> QED BY <2>1, <1>4, <1>5
<1>7. exported = <<>>
    BY <1>1, <1>2 DEF VerifyInv
<1>8. ReadersType'
  <2>1. counts' \in Counts
    <3> HIDE DEF ok, ordered
    <3> QED BY <1>1, <1>2 DEF ReadersType, Counts
  <2>2. <<>> \in Seq({OnDisk(Snapshot(lines[i]))' : i \in DOMAIN lines'})
      OBVIOUS
  <2> QED BY <1>1, <1>2, <1>3, <1>7, <2>1, <2>2 DEF ReadersType
<1>9. ValidateInv'
  <2>1. DigestBefore' = {Digest(at)}
      BY <1>1, <1>3, CleanStays DEF DigestBefore
  <2>2. CleanTo(at - 1)' <=> CleanTo(at)
    <3>1. at' - 1 = at
        BY <1>1, <1>3
    <3> QED BY <3>1, <1>1 DEF CleanTo, Good, Digest
  <2>3. \A i \in 1 .. at' - 1 : ~ TooLong(lines'[i])
    <3>1. at' - 1 = at /\ \A i \in 1 .. at : i \in 1 .. at - 1 \/ i = at
        BY <1>1, <1>3
    <3> HIDE DEF ok, ordered
    <3> QED BY <3>1, <1>1, <1>2 DEF ValidateInv
  <2> HIDE DEF ok, ordered
  <2> QED BY <1>1, <1>5, <1>6, <2>1, <2>2, <2>3 DEF ValidateInv
<1>10. VerifyInv' /\ ExportInv'
    BY <1>1, <1>7 DEF VerifyInv, ExportInv, Preparing
<1>11. OutcomeInv'
    BY <1>1, <1>2, CleanStays DEF OutcomeInv, Preparing
<1> QED BY <1>8, <1>9, <1>10, <1>11 DEF ReadersInv

LEMMA ValidateStep == ReadersInv /\ ValidateLine => ReadersInv'
BY ValidateStops, ValidateGoesOn

\* Nothing has been passed yet, and what is asked for is still to come.
LEMMA StartExportStep == ReadersInv /\ StartExport => ReadersInv'
<1> SUFFICES ASSUME ReadersInv, StartExport PROVE ReadersInv'
    OBVIOUS
<1>1. /\ pc = "ask" /\ asked' \in Requests /\ requested' = asked'
      /\ UNCHANGED <<lines, context, at, last, counts, outcome, exported>>
      /\ pc' = "export" \/ (pc' = "failed" /\ ~ CanInfer(lines))
    BY DEF StartExport, source
<1>2. ReadersType /\ VerifyInv /\ OutcomeInv
    BY DEF ReadersInv
<1>3. exported = <<>> /\ at = 1
    BY <1>1, <1>2 DEF VerifyInv
<1>4. ReadersType'
  <2>1. <<>> \in Seq({OnDisk(Snapshot(lines[i]))' : i \in DOMAIN lines'})
      OBVIOUS
  <2>2. asked' \subseteq Digests /\ requested' \subseteq asked'
      BY <1>1, LinesAssumption
  <2> QED BY <1>1, <1>2, <1>3, <2>1, <2>2 DEF ReadersType
<1>5. VerifyInv' /\ ValidateInv'
    BY <1>1 DEF VerifyInv, ValidateInv, Preparing
<1>6. OutcomeInv'
    BY <1>1, <1>2, CleanStays DEF OutcomeInv, Preparing
<1>7. pc' = "failed" => outcome'.validate # "clean"
  <2>1. pc' = "failed" => ~ NoneTooLong
      BY <1>1 DEF CanInfer, NoneTooLong
  <2> QED BY <2>1, <1>1, <1>2 DEF OutcomeInv
<1>8. ExportInv'
  <2>1. exported' = <<>> /\ at' - 1 = 0 /\ DOMAIN <<>> = {} /\ 1 .. 0 = {}
      BY <1>1, <1>3
  <2>2. ExportedNames' = {} /\ {Digest(i) : i \in 1 .. at - 1}' = {}
      BY <2>1 DEF ExportedNames
  <2>3. requested' = {d \in asked : \A i \in 1 .. at - 1 : Before(Digest(i), d)}'
      BY <1>1, <2>1
  <2> QED BY <2>1, <2>2, <2>3, <1>1, <1>7 DEF ExportInv
<1> QED BY <1>4, <1>5, <1>6, <1>8 DEF ReadersInv

\* In a clean file each digest comes before all that follow.
LEMMA CleanAscends ==
    ASSUME ReadersType, Clean
    PROVE  /\ \A i \in 1 .. Len(lines) : Good(i) /\ Digest(i) \in Digests
           /\ \A i, j \in 1 .. Len(lines) : i < j => Before(Digest(i), Digest(j))
<1>1. \A i \in 1 .. Len(lines) : Good(i) /\ Digest(i) \in Digests
    BY ParsedDigest DEF Clean, CleanTo, Good, Digest
<1>2. ASSUME NEW i \in 1 .. Len(lines), NEW j \in 1 .. Len(lines), i < j
      PROVE  Before(Digest(i), Digest(j))
  <2> DEFINE T == {n \in Nat : i + 1 + n <= Len(lines) => Before(Digest(i), Digest(i + 1 + n))}
  <2>1. \A k \in 1 .. Len(lines) : k > 1 => Before(Digest(k - 1), Digest(k))
      BY DEF Clean, CleanTo
  <2>2. i \in Nat /\ j \in Nat /\ Len(lines) \in Nat
      BY DEF ReadersType
  <2>3. 0 \in T
    <3>1. i + 1 + 0 = i + 1 /\ (i + 1) - 1 = i
        BY <2>2
    <3> QED BY <2>1, <2>2, <3>1
  <2>4. ASSUME NEW n \in Nat, n \in T PROVE n + 1 \in T
    <3> SUFFICES ASSUME i + 1 + (n + 1) <= Len(lines) PROVE Before(Digest(i), Digest(i + 1 + (n + 1)))
        OBVIOUS
    <3>1. PICK k \in 1 .. Len(lines) : k = i + 1 + (n + 1) /\ k - 1 = i + 1 + n /\ k - 1 \in 1 .. Len(lines) /\ k > 1
        BY <2>2
    <3>2. Before(Digest(i), Digest(k - 1)) /\ Before(Digest(k - 1), Digest(k))
        BY <3>1, <2>1, <2>4
    <3> QED BY <3>1, <3>2, <1>1, OrderAssumption
  <2>5. Nat \subseteq T
    <3> HIDE DEF T
    <3> QED BY <2>3, <2>4, NatFromZero
  <2>6. PICK n \in Nat : i + 1 + n = j
    <3>1. j - i - 1 \in Nat /\ i + 1 + (j - i - 1) = j
        BY <2>2, <1>2
    <3> QED BY <3>1
  <2>7. n \in T
      BY <2>5, <2>6
  <2> QED BY <2>6, <2>7
<1> QED BY <1>1, <1>2

LEMMA ExportEnds ==
    ASSUME ReadersInv, ExportLine, requested = {} \/ at > Len(lines)
    PROVE  ReadersInv'
<1>1. pc = "export" /\ pc' = "done" /\ UNCHANGED <<lines, context, at, last, counts, asked, exportAs, requested, exported, outcome>>
    BY DEF ExportLine, source
<1>2. ReadersType /\ VerifyInv /\ OutcomeInv /\ ExportInv
    BY DEF ReadersInv
<1>3. ReadersType'
    BY <1>1, <1>2 DEF ReadersType, OnDisk
<1>4. VerifyInv' /\ ValidateInv'
    BY <1>1 DEF VerifyInv, ValidateInv, Preparing
<1>5. OutcomeInv'
    BY <1>1, <1>2, CleanStays DEF OutcomeInv, Preparing
<1>6. ASSUME Clean PROVE ExportedNames = asked \cap {Digest(i) : i \in DOMAIN lines}
  <2>1. /\ requested = {d \in asked : \A i \in 1 .. at - 1 : Before(Digest(i), d)}
        /\ ExportedNames = asked \cap {Digest(i) : i \in 1 .. at - 1}
      BY <1>1, <1>2, <1>6 DEF ExportInv
  <2>2. DOMAIN lines = 1 .. Len(lines) /\ at \in Nat /\ Len(lines) \in Nat /\ at - 1 <= Len(lines)
      BY <1>2 DEF ReadersType
  <2>3. ASSUME NEW j \in 1 .. Len(lines), Digest(j) \in asked PROVE \E i \in 1 .. at - 1 : Digest(j) = Digest(i)
    <3>1. CASE j \in 1 .. at - 1
        BY <3>1
    <3>2. CASE j \notin 1 .. at - 1
      <4>1. \A i \in 1 .. at - 1 : i \in 1 .. Len(lines) /\ i < j
          BY <3>2, <2>2
      <4>2. Digest(j) \in requested
          BY <4>1, <2>1, <2>3, <1>2, <1>6, CleanAscends
      <4>3. j <= Len(lines) /\ j >= at
          BY <3>2, <2>2
      <4> QED BY <4>2, <4>3, <2>2
    <3> QED BY <3>1, <3>2
  <2>4. 1 .. at - 1 \subseteq 1 .. Len(lines)
      BY <2>2
  <2> QED BY <2>1, <2>2, <2>3, <2>4
<1>7. ExportInv'
  <2>1. \A i \in DOMAIN exported : exported[i].name \in asked /\ exported[i].bytes = exported[i].name
      BY <1>1, <1>2 DEF ExportInv
  <2>2. ExportedNames' = ExportedNames
      BY <1>1 DEF ExportedNames
  <2> QED BY <2>1, <2>2, <1>1, <1>6, CleanStays DEF ExportInv
<1> QED BY <1>3, <1>4, <1>5, <1>7 DEF ReadersInv

LEMMA ExportStops ==
    ASSUME ReadersInv, ExportLine, requested # {}, at <= Len(lines), ~ Parsed(lines[at]) \/ TooLong(lines[at])
    PROVE  ReadersInv'
<1>0. ~ (at > Len(lines))
    BY DEF ReadersInv, ReadersType
<1>1. pc = "export" /\ pc' = "failed" /\ UNCHANGED <<lines, context, at, last, counts, asked, exportAs, requested, exported, outcome>>
    BY <1>0 DEF ExportLine, source
<1>2. ReadersType /\ VerifyInv /\ OutcomeInv /\ ExportInv
    BY DEF ReadersInv
<1>3. ReadersType'
    BY <1>1, <1>2 DEF ReadersType, OnDisk
<1>4. VerifyInv' /\ ValidateInv'
    BY <1>1, <1>2 DEF VerifyInv, ValidateInv, Preparing
<1>5. outcome.validate # "clean"
  <2>1. at \in 1 .. Len(lines) /\ DOMAIN lines = 1 .. Len(lines)
      BY <1>2 DEF ReadersType
  <2>2. ~ (Clean /\ NoneTooLong)
      BY <2>1 DEF Clean, CleanTo, Good, NoneTooLong
  <2> QED BY <1>2, <2>2 DEF OutcomeInv
<1>6. OutcomeInv'
    BY <1>1, <1>2, CleanStays DEF OutcomeInv, Preparing
<1>7. ExportInv'
    BY <1>1, <1>2, <1>5 DEF ExportInv
<1> QED BY <1>3, <1>4, <1>6, <1>7 DEF ReadersInv

\* What is still to come, after a line of a clean file.
LEMMA RequestsPass ==
    ASSUME ReadersType, Clean, at <= Len(lines),
           requested = {d \in asked : \A i \in 1 .. at - 1 : Before(Digest(i), d)}
    PROVE  /\ SkipTo(Digest(at)) \ {Digest(at)} = {d \in asked : \A i \in 1 .. at : Before(Digest(i), d)}
           /\ Digest(at) \in SkipTo(Digest(at)) <=> Digest(at) \in asked
<1>1. at \in 1 .. Len(lines) /\ 1 .. at = (1 .. at - 1) \cup {at} /\ \A i \in 1 .. at - 1 : i \in 1 .. Len(lines) /\ i < at
    BY DEF ReadersType
<1>2. asked \subseteq Digests /\ Digest(at) \in Digests
    BY <1>1, CleanAscends DEF ReadersType
<1>3. \A i \in 1 .. at - 1 : Before(Digest(i), Digest(at))
    BY <1>1, CleanAscends
<1>4. ~ Before(Digest(at), Digest(at))
    BY <1>2, OrderAssumption
<1>5. \A d \in asked : ~ Before(d, Digest(at)) /\ d # Digest(at) <=> Before(Digest(at), d)
    BY <1>2, OrderAssumption
<1>6. SkipTo(Digest(at)) = {d \in asked : (\A i \in 1 .. at - 1 : Before(Digest(i), d)) /\ ~ Before(d, Digest(at))}
    BY DEF SkipTo
<1>7. SkipTo(Digest(at)) \ {Digest(at)} = {d \in asked : \A i \in 1 .. at : Before(Digest(i), d)}
    BY <1>1, <1>5, <1>6
<1> QED BY <1>3, <1>4, <1>6, <1>7

LEMMA ExportGoesOn ==
    ASSUME ReadersInv, ExportLine, requested # {}, at <= Len(lines), Parsed(lines[at]), ~ TooLong(lines[at])
    PROVE  ReadersInv'
<1> DEFINE snapshot == Snapshot(lines[at])
           left == SkipTo(snapshot.digest)
           copy == OnDisk(snapshot)
<1>0. ~ (at > Len(lines))
    BY DEF ReadersInv, ReadersType
<1>1. /\ pc = "export" /\ at' = at + 1 /\ UNCHANGED <<lines, context, last, counts, asked, exportAs, outcome>>
      /\ \/ Digest(at) \notin left /\ requested' = left /\ UNCHANGED <<exported, pc>>
         \/ Digest(at) \in left /\ ~ Supported(snapshot) /\ pc' = "failed" /\ UNCHANGED <<requested, exported>>
         \/ /\ Digest(at) \in left /\ Supported(snapshot)
            /\ requested' = left \ {Digest(at)} /\ exported' = Append(exported, copy)
            /\ pc' = IF Verifies(snapshot, exportAs) THEN pc ELSE "failed"
    BY <1>0 DEF ExportLine, source, Digest
<1>2. ReadersType /\ VerifyInv /\ OutcomeInv /\ ExportInv
    BY DEF ReadersInv
<1>3. at \in 1 .. Len(lines) /\ at + 1 \in 1 .. Len(lines) + 1 /\ (at + 1) - 1 = at
    BY <1>2 DEF ReadersType
<1>4. left \subseteq requested
    BY DEF SkipTo
<1>5. copy.name = Digest(at) /\ (Supported(snapshot) => (Verifies(snapshot, exportAs) <=> copy.bytes = copy.name))
    BY DEF OnDisk, Digest, Verifies
<1> DEFINE Copies == {OnDisk(Snapshot(lines[i])) : i \in DOMAIN lines}
<1>6. exported \in Seq(Copies) /\ copy \in Copies
    BY <1>2, <1>3 DEF ReadersType
<1> HIDE DEF copy, left, Copies
<1>7. ReadersType'
  <2>1. requested' \subseteq asked'
      BY <1>1, <1>2, <1>4 DEF ReadersType
  <2>2. exported' \in Seq(Copies)
      BY <1>1, <1>6, SMTT(30)
  <2>3. Copies = {OnDisk(Snapshot(lines[i])) : i \in DOMAIN lines}'
      BY <1>1 DEF Copies, OnDisk
  <2>4. pc' \in {"export", "failed"}
      BY <1>1
  <2> QED BY <1>1, <1>2, <1>3, <2>1, <2>2, <2>3, <2>4 DEF ReadersType
<1>8. pc' \in {"export", "failed"}
    BY <1>1
<1>9. VerifyInv' /\ ValidateInv'
    BY <1>8, <1>1, <1>2 DEF VerifyInv, ValidateInv, Preparing
<1>10. OutcomeInv'
    BY <1>1, <1>2, <1>8, CleanStays DEF OutcomeInv, Preparing
<1>11. \A i \in DOMAIN exported' :
          /\ exported'[i].name \in asked'
          /\ exported'[i].bytes # exported'[i].name => i = Len(exported') /\ pc' = "failed"
  <2>1. \A i \in DOMAIN exported : exported[i].name \in asked /\ exported[i].bytes = exported[i].name
      BY <1>1, <1>2 DEF ExportInv
  <2>2. CASE UNCHANGED exported
      BY <2>1, <2>2, <1>1
  <2>3. CASE exported' = Append(exported, copy) /\ Digest(at) \in left /\ Supported(snapshot)
                  /\ pc' = (IF Verifies(snapshot, exportAs) THEN pc ELSE "failed")
    <3>1. /\ Len(exported') = Len(exported) + 1 /\ exported'[Len(exported) + 1] = copy
          /\ DOMAIN exported' = DOMAIN exported \cup {Len(exported) + 1}
          /\ \A i \in DOMAIN exported : exported'[i] = exported[i]
        BY <2>3, <1>6
    <3>2. copy.name \in asked
        BY <2>3, <1>4, <1>5, <1>2 DEF ReadersType
    <3>3. copy.bytes # copy.name => pc' = "failed"
        BY <2>3, <1>5
    <3> QED BY <3>1, <3>2, <3>3, <2>1, <1>1
  <2> QED BY <1>1, <2>2, <2>3
<1>12. ASSUME Clean
       PROVE  /\ requested' = {d \in asked : \A i \in 1 .. at : Before(Digest(i), d)}
              /\ ExportedNames' = asked \cap {Digest(i) : i \in 1 .. at}
  <2>1. /\ requested = {d \in asked : \A i \in 1 .. at - 1 : Before(Digest(i), d)}
        /\ ExportedNames = asked \cap {Digest(i) : i \in 1 .. at - 1}
      BY <1>1, <1>2, <1>12 DEF ExportInv
  <2>2. /\ left \ {Digest(at)} = {d \in asked : \A i \in 1 .. at : Before(Digest(i), d)}
        /\ Digest(at) \in left <=> Digest(at) \in asked
      BY <2>1, <1>2, <1>12, RequestsPass DEF left, Digest
  <2>3. 1 .. at = (1 .. at - 1) \cup {at}
      BY <1>3
  <2>4. {Digest(i) : i \in 1 .. at} = {Digest(i) : i \in 1 .. at - 1} \cup {Digest(at)}
      BY <2>3
  <2>5. CASE Digest(at) \notin left
    <3>1. requested' = left /\ exported' = exported
        BY <1>1, <2>5
    <3>2. ExportedNames' = ExportedNames
        BY <3>1, Zenon DEF ExportedNames
    <3>3. Digest(at) \notin asked /\ left \ {Digest(at)} = left
        BY <2>2, <2>5
    <3> QED BY <3>1, <3>2, <3>3, <2>1, <2>2, <2>4
  <2>6. CASE Digest(at) \in left
    <3>1. Supported(snapshot)
        BY <1>3, <1>12 DEF Clean, CleanTo, Good, Verifies
    <3>2. requested' = left \ {Digest(at)} /\ exported' = Append(exported, copy)
        BY <1>1, <2>6, <3>1
    <3>3. ExportedNames' = ExportedNames \cup {copy.name}
      <4>1. /\ exported'[Len(exported) + 1] = copy /\ DOMAIN exported' = DOMAIN exported \cup {Len(exported) + 1}
            /\ \A i \in DOMAIN exported : exported'[i] = exported[i]
          BY <3>2, <1>6
      <4> QED BY <4>1 DEF ExportedNames
    <3> QED BY <3>2, <3>3, <2>1, <2>2, <2>4, <2>6, <1>5
  <2> QED BY <2>5, <2>6
<1>13. ASSUME pc' = "failed", outcome'.validate = "clean"
       PROVE  /\ exportAs'.whitespace # context'.whitespace
              /\ \E i \in DOMAIN exported' : exported'[i].bytes # exported'[i].name
  <2>1. Clean
      BY <1>1, <1>2, <1>13 DEF OutcomeInv
  <2>2. Verifies(snapshot, context) /\ Supported(snapshot)
      BY <1>3, <2>1 DEF Clean, CleanTo, Good, Verifies
  <2>3. exported' = Append(exported, copy) /\ ~ Verifies(snapshot, exportAs)
      BY <1>1, <1>13, <2>2
  <2>4. Len(exported) + 1 \in DOMAIN exported' /\ exported'[Len(exported) + 1] = copy
      BY <2>3, <1>6
  <2> QED BY <1>1, <1>5, <2>2, <2>3, <2>4, OnlyWhitespaceCounts
<1>14. ExportInv'
  <2>1. {d \in asked : \A i \in 1 .. at - 1 : Before(Digest(i), d)}' = {d \in asked : \A i \in 1 .. at : Before(Digest(i), d)}
    <3>1. at' - 1 = at /\ asked' = asked
        BY <1>1, <1>3
    <3> QED BY <3>1, <1>1 DEF Digest
  <2>2. {Digest(i) : i \in 1 .. at - 1}' = {Digest(i) : i \in 1 .. at}
    <3>1. at' - 1 = at
        BY <1>1, <1>3
    <3> QED BY <3>1, <1>1 DEF Digest
  <2>3. Clean' <=> Clean
      BY <1>1, CleanStays
  <2>4. asked' = asked /\ pc' # "done"
      BY <1>1, <1>8
  <2> QED BY <1>11, <1>12, <1>13, <2>1, <2>2, <2>3, <2>4 DEF ExportInv
<1> QED BY <1>7, <1>9, <1>10, <1>14 DEF ReadersInv

LEMMA ExportStep == ReadersInv /\ ExportLine => ReadersInv'
<1> SUFFICES ASSUME ReadersInv, ExportLine PROVE ReadersInv'
    OBVIOUS
<1>1. at > Len(lines) \/ at <= Len(lines)
    BY DEF ReadersInv, ReadersType
<1> QED BY <1>1, ExportEnds, ExportStops, ExportGoesOn

-----------------------------------------------------------------------------
(* What is written *)

LEMMA EscapedIs ==
    ASSUME NEW c \in Symbols
    PROVE  /\ Escaped(c) \in Seq(Symbols)
           /\ \/ Escaped(c) = <<c>> /\ c # Quote /\ c # Escape
              \/ \E e \in Symbols : Escaped(c) = <<Escape, e>> /\ Unescaped(e) = c
<1>1. {Quote, Escape, "n", "r", "t"} \subseteq Symbols
    BY SymbolsAssumption
<1>2. \A a, b \in Symbols : <<a>> \in Seq(Symbols) /\ <<a, b>> \in Seq(Symbols)
    OBVIOUS
<1>3. CASE c \in {Quote, Escape, "\n", "\r", "\t"}
  <2> DEFINE e == CASE c = "\n" -> "n" [] c = "\r" -> "r" [] c = "\t" -> "t" [] OTHER -> c
  <2>1. Escaped(c) = <<Escape, e>>
      BY <1>3 DEF Escaped, Quote, Escape
  <2>2. Unescaped(e) = c /\ e \in Symbols
      BY <1>1, <1>3 DEF Unescaped, Quote, Escape
  <2> HIDE DEF e
  <2> QED BY <1>1, <1>2, <2>1, <2>2
<1>4. CASE c \notin {Quote, Escape, "\n", "\r", "\t"}
  <2>1. Escaped(c) = <<c>> /\ c # Quote /\ c # Escape
      BY <1>4 DEF Escaped
  <2> QED BY <1>2, <2>1
<1> QED BY <1>3, <1>4

\* The characters of a text are escaped one by one.
LEMMA EscapedStepwise ==
    ASSUME NEW s \in Seq(Symbols)
    PROVE  \E f \in [0 .. Len(s) -> Seq(Symbols)] :
              /\ f[0] = <<>> /\ \A n \in 1 .. Len(s) : f[n] = f[n - 1] \o Escaped(s[n])
              /\ EscapedText(s) = f[Len(s)]
<1> DEFINE N == Len(s)
           S == Seq(Symbols)
           More(t, n) == t \o Escaped(s[n])
           GoOn(p) == IF p[1] \in 1 .. N THEN More(p[2], p[1]) ELSE p[2]
           G == [p \in Nat \X S |-> GoOn(p)]
           e == CHOOSE g : g = [n \in 0 .. N |-> IF n = 0 THEN <<>> ELSE More(g[n - 1], n)]
<1>1. EscapedText(s) = e[N]
    BY DEF EscapedText
<1>2. N \in Nat /\ <<>> \in S /\ \A n \in 1 .. N : s[n] \in Symbols
    OBVIOUS
<1>3. ASSUME NEW n \in 1 .. N, NEW t \in S PROVE More(t, n) \in S
    BY <1>2, EscapedIs
<1> SUFFICES \E f \in [0 .. N -> S] : f[0] = <<>> /\ (\A n \in 1 .. N : f[n] = More(f[n - 1], n)) /\ e[N] = f[N]
    BY <1>1
<1> HIDE DEF More, S, N
<1>4. ASSUME NEW p \in Nat \X S PROVE GoOn(p) \in S
    BY <1>3
<1>5. \A n \in 1 .. N, t \in S : G[<<n, t>>] = More(t, n)
    BY <1>2
<1> HIDE DEF GoOn
<1>6. G \in [Nat \X S -> S]
    BY <1>4
<1> HIDE DEF G
<1>7. PICK f \in [0 .. N -> S] : f[0] = <<>> /\ Steps(f, G, N)
    BY <1>2, <1>6, StepsExist
<1>8. \A n \in 1 .. N : f[n] = More(f[n - 1], n)
  <2>1. \A n \in 1 .. N : f[n - 1] \in S
      BY <1>2, <1>7
  <2> QED BY <1>5, <1>7, <2>1 DEF Steps
<1>9. f = [n \in 0 .. N |-> IF n = 0 THEN <<>> ELSE More(f[n - 1], n)]
  <2>1. \A n \in 0 .. N : n = 0 \/ n \in 1 .. N
      BY <1>2
  <2>2. f = [n \in 0 .. N |-> f[n]]
      BY <1>7
  <2> QED BY <1>7, <1>8, <2>1, <2>2
<1>10. e = [n \in 0 .. N |-> IF n = 0 THEN <<>> ELSE More(e[n - 1], n)]
    BY <1>9
<1> HIDE DEF e
<1>11. e[0] = <<>> /\ \A n \in 1 .. N : e[n] = More(e[n - 1], n)
    BY <1>2, <1>10
<1>12. e[N] = f[N]
  <2>1. AgreeStepwise(e, f, N)
      BY <1>7, <1>8, <1>11 DEF AgreeStepwise
  <2> QED BY <1>2, <2>1, StepsAgree
<1> QED BY <1>7, <1>8, <1>12

LEMMA TextsAreTexts ==
    /\ \A s \in Seq(Symbols) : EscapedText(s) \in Seq(Symbols)
    /\ \A s \in Seq(Symbols) : Chars(s) \in Line /\ Len(Chars(s)) = Len(s) /\ \A i \in 1 .. Len(s) : Chars(s)[i] = Char(s[i])
<1>1. ASSUME NEW s \in Seq(Symbols) PROVE EscapedText(s) \in Seq(Symbols)
  <2>1. PICK f \in [0 .. Len(s) -> Seq(Symbols)] : EscapedText(s) = f[Len(s)]
      BY EscapedStepwise
  <2>2. Len(s) \in 0 .. Len(s)
      OBVIOUS
  <2> QED BY <2>1, <2>2
<1>2. ASSUME NEW s \in Seq(Symbols)
      PROVE  Chars(s) \in Line /\ Len(Chars(s)) = Len(s) /\ \A i \in 1 .. Len(s) : Chars(s)[i] = Char(s[i])
  <2>1. \A i \in 1 .. Len(s) : Char(s[i]) \in LineToken
      BY DEF Char, LineToken
  <2> QED BY <2>1 DEF Chars, Line
<1> QED BY <1>1, <1>2

LEMMA MaxIs ==
    ASSUME NEW n \in Nat, NEW S \in SUBSET (0 .. n), S # {}
    PROVE  Max(S) \in S /\ \A y \in S : Max(S) >= y
<1> DEFINE T == {n - x : x \in S}
<1>1. T \in SUBSET Nat /\ T # {}
  <2>1. \A x \in S : n - x \in Nat
      OBVIOUS
  <2> QED BY <2>1
<1>2. PICK k \in T : \A j \in T : k <= j
    BY <1>1, NatHasLeast
<1>3. PICK m \in S : k = n - m
    BY <1>2
<1>4. \A y \in S : m >= y
    BY <1>2, <1>3
<1> QED BY <1>3, <1>4 DEF Max

LEMMA SmallerIs ==
    ASSUME NEW a \in Nat, NEW b \in Nat
    PROVE  Min({a, b}) \in {a, b} /\ Min({a, b}) <= a /\ Min({a, b}) <= b
<1>1. \E x \in {a, b} : \A y \in {a, b} : x <= y
    OBVIOUS
<1> QED BY <1>1 DEF Min

\* What closes a text is whitespace, and the rest is before it.
Closes(w, text) ==
    /\ w \in Seq(Symbols) /\ Len(w) <= Len(text)
    /\ \A i \in 1 .. Len(w) : w[i] \in Whitespace
    /\ text = SubSeq(text, 1, Len(text) - Len(w)) \o w
LEMMA WhitespaceCloses ==
    ASSUME NEW text \in Seq(Symbols), NEW default \in Seq(Whitespace)
    PROVE  /\ NonDefaultWhitespace(text, default) \in SUBSET Seq(Symbols)
           /\ \/ NonDefaultWhitespace(text, default) = {} /\ Closes(default, text)
              \/ \E w : NonDefaultWhitespace(text, default) = {w} /\ Closes(w, text)
<1> DEFINE L == Len(text)
           D == Len(default)
           M == {k \in 0 .. Min({L, D}) : \A j \in 1 .. k : Agrees(text, default, j)}
           m == Matched(text, default)
           C == {n \in m .. L : \A j \in m + 1 .. n : Back(text, j) \in Whitespace}
           n == CharsRead(text, default)
<1>0. Whitespace \subseteq Symbols
    BY SymbolsAssumption DEF Whitespace
<1>1. L \in Nat /\ D \in Nat
    OBVIOUS
<1>2. m = Max(M) /\ n = Max(C)
    BY DEF Matched, CharsRead
<1>3. m \in 0 .. L /\ m <= D /\ \A j \in 1 .. m : Back(text, j) = Back(default, j)
  <2>1. Min({L, D}) \in Nat /\ Min({L, D}) <= L /\ Min({L, D}) <= D
      BY <1>1, SmallerIs
  <2>2. 0 \in M
      BY <2>1
  <2>3. M \in SUBSET (0 .. Min({L, D})) /\ M # {}
      BY <2>2
  <2> HIDE DEF L, D, m
  <2>4. Max(M) \in M
    <3>1. PICK least \in Nat : least = Min({L, D})
        BY <2>1
    <3>2. M \in SUBSET (0 .. least)
        BY <2>3, <3>1
    <3> HIDE DEF M
    <3> QED BY <2>3, <3>1, <3>2, MaxIs
  <2>5. m \in M
    <3> HIDE DEF M
    <3> QED BY <1>2, <2>4
  <2> QED BY <1>1, <2>1, <2>5 DEF Agrees
<1>4. n \in m .. L /\ \A j \in m + 1 .. n : Back(text, j) \in Whitespace
  <2> HIDE DEF L, D, m, n
  <2>1. m \in C
      BY <1>1, <1>3
  <2>2. C \in SUBSET (0 .. L) /\ C # {}
      BY <2>1, <1>3
  <2>3. Max(C) \in C
      BY <1>1, <2>2, MaxIs
  <2> QED BY <1>2, <2>3
<1> DEFINE w == SubSeq(text, L - n + 1, L)
<1>5. NonDefaultWhitespace(text, default) = (IF m = D /\ n = D THEN {} ELSE {w})
    BY DEF NonDefaultWhitespace
<1>6. default \in Seq(Symbols) /\ \A i \in 1 .. D : default[i] \in Whitespace
    BY <1>0
<1> HIDE DEF n, m, M, C, L, D
<1>7. CASE m = D /\ n = D
  <2>1. \A i \in 1 .. D : text[L - D + i] = default[i]
    <3> TAKE i \in 1 .. D
    <3>1. PICK j \in 1 .. m : j = D + 1 - i /\ L + 1 - j = L - D + i /\ D + 1 - j = i
        BY <1>1, <1>7
    <3>2. Back(text, j) = Back(default, j)
        BY <3>1, <1>3
    <3> QED BY <3>1, <3>2 DEF Back, L, D
  <2>2. D <= L
      BY <1>1, <1>3, <1>7
  <2>3. text = SubSeq(text, 1, L - D) \o default
    <3>1. ASSUME NEW u \in Seq(Symbols), NEW v \in Seq(Symbols), NEW before, before = SubSeq(u, 1, Len(u) - Len(v)),
                 Len(v) <= Len(u), \A i \in 1 .. Len(v) : u[Len(u) - Len(v) + i] = v[i]
          PROVE  u = before \o v
      <4>1. /\ before \in Seq(Symbols) /\ Len(before) = Len(u) - Len(v) /\ Len(before) \in Nat
            /\ \A i \in 1 .. Len(before) : before[i] = u[i]
          BY <3>1
      <4>2. before \o v \in Seq(Symbols) /\ Len(before \o v) = Len(u)
          BY <4>1
      <4>3. ASSUME NEW i \in 1 .. Len(u) PROVE (before \o v)[i] = u[i]
        <5>1. CASE i <= Len(before)
            BY <4>1, <5>1
        <5>2. CASE i > Len(before)
          <6>1. PICK k \in 1 .. Len(v) : i = Len(before) + k
            <7>1. i - Len(before) \in 1 .. Len(v) /\ i = Len(before) + (i - Len(before))
                BY <4>1, <5>2
            <7> QED BY <7>1
          <6>2. (before \o v)[Len(before) + k] = v[k]
              BY <4>1
          <6> QED BY <3>1, <4>1, <6>1, <6>2
        <5> QED BY <4>1, <5>1, <5>2
      <4>4. ASSUME NEW p \in Seq(Symbols), NEW q \in Seq(Symbols), Len(p) = Len(q), \A i \in 1 .. Len(q) : p[i] = q[i]
            PROVE  p = q
          BY <4>4
      <4>5. before \o v = u
          BY <4>2, <4>3, <4>4, Zenon
      <4> QED BY <4>5
    <3>2. \A i \in 1 .. Len(default) : text[Len(text) - Len(default) + i] = default[i]
        BY <2>1 DEF L, D
    <3>3. Len(default) <= Len(text)
        BY <2>2 DEF L, D
    <3> QED BY <3>1, <3>2, <3>3, <1>6, Zenon DEF L, D
  <2>4. Closes(default, text)
      BY <2>2, <2>3, <1>6 DEF Closes, L, D
  <2> QED BY <1>5, <1>7, <2>4
<1>8. CASE ~ (m = D /\ n = D)
  <2>0. n \in Nat /\ n <= L
      BY <1>1, <1>3, <1>4
  <2>1. w \in Seq(Symbols) /\ Len(w) = n /\ \A i \in 1 .. n : w[i] = text[L - n + i]
      BY <2>0 DEF L
  <2>2. \A i \in 1 .. n : w[i] \in Whitespace
    <3> TAKE i \in 1 .. n
    <3>1. PICK j \in 1 .. n : j = n + 1 - i /\ L + 1 - j = L - n + i
        BY <1>1, <2>0
    <3>2. Back(text, j) = w[i]
        BY <3>1, <2>1 DEF Back, L
    <3>3. CASE j \in 1 .. m
      <4>1. D + 1 - j \in 1 .. D
          BY <3>3, <1>1, <1>3
      <4>2. Back(default, j) = default[D + 1 - j]
          BY DEF Back, D
      <4>3. Back(text, j) = Back(default, j)
          BY <3>3, <1>3
      <4>4. default[D + 1 - j] \in Whitespace
          BY <4>1, <1>6
      <4> HIDE DEF w
      <4> QED BY <3>2, <4>2, <4>3, <4>4
    <3>4. CASE j \in m + 1 .. n
        BY <3>2, <3>4, <1>4
    <3>5. j \in 1 .. m \/ j \in m + 1 .. n
        BY <1>1, <1>3, <2>0
    <3> QED BY <3>3, <3>4, <3>5
  <2>3. text = SubSeq(text, 1, L - n) \o w
    <3> HIDE DEF w
    <3> QED BY <2>0, <2>1 DEF L
  <2>4. Closes(w, text)
    <3> HIDE DEF w
    <3> QED BY <2>0, <2>1, <2>2, <2>3 DEF Closes, L
  <2> QED BY <1>5, <1>8, <2>1, <2>4
<1> QED BY <1>7, <1>8

LEMMA TheIs ==
    ASSUME NEW values, NEW default
    PROVE  /\ The(values, default) \in values \/ (values = {} /\ The(values, default) = default)
           /\ \A v : values = {v} => The(values, default) = v
<1>1. values = {} => The(values, default) = default
    BY DEF The
<1>2. values # {} => The(values, default) \in values
    BY DEF The
<1> QED BY <1>1, <1>2

Formats == [name : Symbols, whitespace : SUBSET Seq(Symbols), metadata : Seq(Symbols)]
Snapshots ==
    [digest : Digests, expected : SUBSET Line, timestamp : SUBSET Timestamps, url : SUBSET Seq(Symbols),
     format : Formats, content : Seq(Symbols)]
\* The text of a file, and what is said of its end.
LEMMA FileIsText ==
    ASSUME NEW f \in Digests, NEW ctx \in Contexts
    PROVE  /\ Decoded(f) \in Seq(Symbols) /\ ctx.whitespace \in Seq(Symbols) /\ ctx.query \in BOOLEAN
           /\ \A i \in 1 .. Len(ctx.whitespace) : ctx.whitespace[i] \in Whitespace
           /\ Closing(f, ctx) \in SUBSET Seq(Symbols) /\ IsOptional(Closing(f, ctx))
           /\ Closes(The(Closing(f, ctx), ctx.whitespace), Decoded(f))
           /\ Content(f, ctx) \in Seq(Symbols)
           /\ Content(f, ctx) \o The(Closing(f, ctx), ctx.whitespace) = Decoded(f)
<1>1. ctx.whitespace \in Seq(Whitespace) /\ ctx.query \in BOOLEAN /\ f \in Seq(Symbols)
    BY LinesAssumption
<1>2. ctx.whitespace \in Seq(Symbols) /\ \A i \in 1 .. Len(ctx.whitespace) : ctx.whitespace[i] \in Whitespace
  <2>1. Whitespace \subseteq Symbols
      BY SymbolsAssumption DEF Whitespace
  <2> QED BY <1>1, <2>1
<1>3. Decoded(f) \in Seq(Symbols)
    BY <1>1 DEF Decoded, IsGzip
<1> DEFINE w == The(Closing(f, ctx), ctx.whitespace)
           text == Decoded(f)
<1>4. /\ Closing(f, ctx) \in SUBSET Seq(Symbols)
      /\ \/ Closing(f, ctx) = {} /\ Closes(ctx.whitespace, text)
         \/ \E v : Closing(f, ctx) = {v} /\ Closes(v, text)
    BY <1>1, <1>3, WhitespaceCloses DEF Closing
<1>5. IsOptional(Closing(f, ctx))
    BY <1>4 DEF IsOptional
<1>6. Closes(w, text)
    BY <1>4, TheIs
<1>7. Content(f, ctx) = SubSeq(text, 1, Len(text) - Len(w))
    BY DEF Content
<1> HIDE DEF w, text
<1>8. Content(f, ctx) \o w = text
    BY <1>6, <1>7 DEF Closes
<1>9. Content(f, ctx) \in Seq(Symbols)
    BY <1>3, <1>6, <1>7 DEF Closes, text
<1> QED BY <1>1, <1>2, <1>3, <1>4, <1>5, <1>6, <1>8, <1>9 DEF w, text

LEMMA BuildIsSnapshot ==
    ASSUME NEW f \in Digests, NEW ctx \in Contexts, NEW cdx \in Cdx
    PROVE  Build(f, cdx, ctx) \in Snapshots
<1>1. Format(f).name \in Symbols /\ Format(f).metadata \in Seq(Symbols)
    BY FormatAssumption
<1>2. cdx.expected \in SUBSET Line /\ cdx.timestamp \in SUBSET Timestamps /\ cdx.url \in SUBSET Seq(Symbols)
    BY CdxAssumption
<1> QED BY <1>1, <1>2, FileIsText DEF Build, Snapshots, Formats

LEMMA OwnSymbols ==
    /\ Quote \in Symbols /\ Escape \in Symbols /\ Open \in Symbols /\ Shut \in Symbols /\ Sep \in Symbols /\ Colon \in Symbols
    /\ "type" \in Symbols /\ "closing_whitespace" \in Symbols /\ "level" \in Symbols /\ "digest" \in Symbols
    /\ "expected_digest" \in Symbols /\ "timestamp" \in Symbols /\ "url" \in Symbols /\ "format" \in Symbols
    /\ "content" \in Symbols /\ "sha1" \in Symbols
BY SymbolsAssumption
LEMMA ShortTexts ==
    /\ \A a \in Symbols : <<a>> \in Seq(Symbols)
    /\ \A a, b \in Symbols : <<a, b>> \in Seq(Symbols)
    /\ \A a, b, c \in Symbols : <<a, b, c>> \in Seq(Symbols)
    /\ \A a, b, c, d \in Symbols : <<a, b, c, d>> \in Seq(Symbols)
    /\ \A a, b, c, d, e \in Symbols : <<a, b, c, d, e>> \in Seq(Symbols)
OBVIOUS

LEMMA TextsJoin ==
    /\ <<>> \in Seq(Symbols)
    /\ \A a, b \in Seq(Symbols) : a \o b \in Seq(Symbols)
OBVIOUS

LEMMA FieldIsText ==
    ASSUME NEW first \in BOOLEAN, NEW key \in Symbols, NEW values \in SUBSET Seq(Symbols)
    PROVE  Named(first, key) \in Seq(Symbols) /\ Field(first, key, values) \in Seq(Symbols)
<1>1. values # {} => The(values, <<>>) \in Seq(Symbols)
    BY TheIs
<1>2. <<Quote>> \in Seq(Symbols) /\ <<Sep>> \in Seq(Symbols) /\ <<Quote, key, Quote, Colon, Quote>> \in Seq(Symbols)
    BY OwnSymbols, ShortTexts
<1>3. Named(first, key) \in Seq(Symbols)
    BY <1>2, TextsJoin, Zenon DEF Named
<1>4. CASE values # {}
  <2> DEFINE text == EscapedText(The(values, <<>>))
             close == <<Quote>>
  <2>1. text \in Seq(Symbols) /\ close \in Seq(Symbols)
      BY <1>1, <1>2, <1>4, TextsAreTexts
  <2>2. Field(first, key, values) = Named(first, key) \o text \o close
      BY <1>4 DEF Field
  <2> HIDE DEF text, close
  <2>3. Named(first, key) \o text \in Seq(Symbols)
      BY <1>3, <2>1, TextsJoin
  <2>4. Named(first, key) \o text \o close \in Seq(Symbols)
      BY <2>1, <2>3, TextsJoin
  <2> QED BY <1>3, <2>2, <2>4
<1> QED BY <1>3, <1>4, TextsJoin DEF Field

LEMMA JsonIsText == \A format \in Formats : Json(format) \in Seq(Symbols)
<1> TAKE format \in Formats
<1>1. TypeOf(format) \in SUBSET Seq(Symbols) /\ format.whitespace \in SUBSET Seq(Symbols) /\ LevelOf(format) \in SUBSET Seq(Symbols)
    BY DEF Formats, TypeOf, LevelOf
<1>2. /\ <<Open>> \in Seq(Symbols) /\ <<Shut>> \in Seq(Symbols)
      /\ "type" \in Symbols /\ "closing_whitespace" \in Symbols /\ "level" \in Symbols
    BY OwnSymbols, ShortTexts
<1>7. ASSUME NEW object \in Seq(Symbols), NEW key \in Symbols, NEW values \in SUBSET Seq(Symbols)
      PROVE  With(object, key, values) \in Seq(Symbols)
  <2>1. (Len(object) = 1) \in BOOLEAN
      OBVIOUS
  <2>2. Field(Len(object) = 1, key, values) \in Seq(Symbols)
      BY <2>1, FieldIsText, Zenon
  <2> QED BY <2>2, TextsJoin, Zenon DEF With
<1> DEFINE a == With(<<Open>>, "type", TypeOf(format))
           b == With(a, "closing_whitespace", format.whitespace)
           c == With(b, "level", LevelOf(format))
<1>3. a \in Seq(Symbols)
    BY <1>1, <1>2, <1>7
<1> HIDE DEF a
<1>4. b \in Seq(Symbols)
    BY <1>1, <1>2, <1>3, <1>7
<1> HIDE DEF b
<1>5. c \in Seq(Symbols)
    BY <1>1, <1>2, <1>4, <1>7
<1> HIDE DEF c
<1>6. Json(format) = c \o <<Shut>>
    BY DEF Json, a, b, c
<1> QED BY <1>2, <1>5, <1>6, TextsJoin, Zenon

LEMMA TokensIn == <<>> \in Line /\ \A t \in LineToken : <<t>> \in Line
BY DEF Line
LEMMA CharsIn == \A c \in Symbols : <<Char(c)>> \in Line
BY DEF Char, Line, LineToken

LEMMA Joined == \A a, b \in Line : a \o b \in Line
BY DEF Line

\* What is written of the schema.
LEMMA WordsAreTexts ==
    /\ \A word \in Symbols : Key(word) \in Seq(Symbols) /\ Opening(word) \in Seq(Symbols)
    /\ \A word : Key(word) # <<>> /\ Opening(word) # <<>> /\ Key(word)[1] = word /\ Opening(word)[1] = word
    /\ Start \in Seq(Symbols) /\ Comma \in Seq(Symbols) /\ Close \in Seq(Symbols)
    /\ Start # <<>> /\ Comma # <<>> /\ Close # <<>> /\ Close[1] = Quote
BY OwnSymbols, ShortTexts DEF Key, Opening, Start, Comma, Close

LEMMA QuotedIsLine ==
    ASSUME NEW word \in Symbols, NEW t \in Line
    PROVE  Quoted(word, t) \in Line
<1>1. Chars(Opening(word)) \in Line /\ Chars(Close) \in Line
    BY WordsAreTexts, TextsAreTexts
<1>2. Chars(Opening(word)) \o t \in Line
    BY <1>1, Joined
<1> QED BY <1>1, <1>2, Joined DEF Quoted

LEMMA OptionalIsLine ==
    ASSUME NEW word \in Symbols, NEW values \in SUBSET Line
    PROVE  Optional(word, values) \in Line
<1>1. CASE values = {}
    BY <1>1 DEF Optional, Line
<1>2. CASE values # {}
  <2>1. The(values, <<>>) \in Line
      BY <1>2, TheIs
  <2> QED BY <1>2, <2>1, QuotedIsLine DEF Optional
<1> QED BY <1>1, <1>2

\* The parts of a line.
DigestPart(s) == Quoted("digest", <<DigestToken(s.digest)>>)
ExpectedPart(s) == Optional("expected_digest", s.expected)
TimePart(s) == Optional("timestamp", {<<t>> : t \in s.timestamp})
UrlPart(s, ctx) == Optional("url", {Chars(u) : u \in ShownUrl(s, ctx)})
FormatPart(s, ctx) ==
    IF IsDefault(ShownFormat(s, ctx)) THEN <<>>
    ELSE Chars(Key("format")) \o Chars(Json(ShownFormat(s, ctx))) \o Chars(Comma)
Ending == << <<Shut>> >>

LEMMA PartsAreLines ==
    ASSUME NEW s \in Snapshots, NEW ctx \in Contexts
    PROVE  /\ Chars(Start) \in Line /\ DigestPart(s) \in Line /\ ExpectedPart(s) \in Line /\ TimePart(s) \in Line
           /\ UrlPart(s, ctx) \in Line /\ FormatPart(s, ctx) \in Line /\ Chars(Key("content")) \in Line
           /\ Chars(s.content) \in Line /\ Ending \in Line
           /\ ShownFormat(s, ctx) \in Formats /\ ShownUrl(s, ctx) \in SUBSET Seq(Symbols)
<1>1. /\ s.digest \in Seq(Symbols) /\ s.expected \in SUBSET Line /\ s.timestamp \in SUBSET LineToken
      /\ s.url \in SUBSET Seq(Symbols) /\ s.format \in Formats /\ s.content \in Seq(Symbols)
    BY LinesAssumption DEF Snapshots
<1>3. Chars(Start) \in Line
    BY WordsAreTexts, TextsAreTexts
<1>4. DigestPart(s) \in Line
  <2>1. <<"sha1">> \in Seq(Symbols) /\ Len(<<"sha1">>) = 1
      BY OwnSymbols, ShortTexts
  <2>2. DigestToken(s.digest) \in LineToken
      BY <1>1, <2>1 DEF DigestToken, LineToken
  <2>3. <<DigestToken(s.digest)>> \in Line
      BY <2>2 DEF Line
  <2> QED BY <2>3, OwnSymbols, QuotedIsLine DEF DigestPart
<1>5. ExpectedPart(s) \in Line
    BY <1>1, OwnSymbols, OptionalIsLine DEF ExpectedPart
<1>6. TimePart(s) \in Line
  <2>1. {<<t>> : t \in s.timestamp} \in SUBSET Line
      BY <1>1, TokensIn
  <2> QED BY <2>1, OwnSymbols, OptionalIsLine DEF TimePart
<1>7. ShownUrl(s, ctx) \in SUBSET Seq(Symbols)
    BY <1>1 DEF ShownUrl
<1>8. UrlPart(s, ctx) \in Line
  <2>1. {Chars(u) : u \in ShownUrl(s, ctx)} \in SUBSET Line
      BY <1>7, TextsAreTexts
  <2> QED BY <2>1, OwnSymbols, OptionalIsLine DEF UrlPart
<1>9. ShownFormat(s, ctx) \in Formats
    BY <1>1 DEF ShownFormat, Formats
<1>10. FormatPart(s, ctx) \in Line
  <2>1. Chars(Key("format")) \in Line
      BY OwnSymbols, WordsAreTexts, TextsAreTexts
  <2>2. Chars(Json(ShownFormat(s, ctx))) \in Line /\ Chars(Comma) \in Line
      BY <1>9, JsonIsText, WordsAreTexts, TextsAreTexts
  <2>3. <<>> \in Line
      BY DEF Line
  <2>4. CASE IsDefault(ShownFormat(s, ctx))
      BY <2>3, <2>4 DEF FormatPart
  <2>5. CASE ~ IsDefault(ShownFormat(s, ctx))
    <3>1. Chars(Key("format")) \o Chars(Json(ShownFormat(s, ctx))) \o Chars(Comma) \in Line
        BY <2>1, <2>2, Joined
    <3> QED BY <2>5, <3>1 DEF FormatPart
  <2> QED BY <2>4, <2>5
<1>11. Chars(Key("content")) \in Line
    BY OwnSymbols, WordsAreTexts, TextsAreTexts
<1>12. Ending \in Line
    BY OwnSymbols, CharsIn DEF Ending, Char
<1> QED BY <1>1, <1>3, <1>4, <1>5, <1>6, <1>7, <1>8, <1>9, <1>10, <1>11, <1>12, TextsAreTexts

LEMMA DisplayIsLine ==
    ASSUME NEW s \in Snapshots, NEW ctx \in Contexts
    PROVE  /\ Display(s, ctx) \in Line
           /\ Display(s, ctx) = Chars(Start) \o DigestPart(s) \o ExpectedPart(s) \o TimePart(s) \o UrlPart(s, ctx)
                                \o FormatPart(s, ctx) \o Chars(Key("content")) \o Chars(s.content) \o Ending
<1>1. Display(s, ctx) = Chars(Start) \o DigestPart(s) \o ExpectedPart(s) \o TimePart(s) \o UrlPart(s, ctx)
                        \o FormatPart(s, ctx) \o Chars(Key("content")) \o Chars(s.content) \o Ending
    BY DEF Display, DigestPart, ExpectedPart, TimePart, UrlPart, FormatPart, Ending
<1>2. Chars(Start) \o DigestPart(s) \o ExpectedPart(s) \o TimePart(s) \o UrlPart(s, ctx) \in Line
    BY PartsAreLines, Joined
<1>3. Chars(Start) \o DigestPart(s) \o ExpectedPart(s) \o TimePart(s) \o UrlPart(s, ctx)
        \o FormatPart(s, ctx) \o Chars(Key("content")) \in Line
    BY <1>2, PartsAreLines, Joined
<1>4. Chars(Start) \o DigestPart(s) \o ExpectedPart(s) \o TimePart(s) \o UrlPart(s, ctx)
        \o FormatPart(s, ctx) \o Chars(Key("content")) \o Chars(s.content) \o Ending \in Line
    BY <1>3, PartsAreLines, Joined
<1> QED BY <1>1, <1>4

-----------------------------------------------------------------------------
(* Exports *)

Given == files \in SUBSET Digests /\ site \in Contexts
LEMMA PackStep == Given /\ ReadersInv /\ Pack => ReadersInv'
<1> SUFFICES ASSUME Given, ReadersInv, Pack PROVE ReadersInv'
    OBVIOUS
<1>1. Preparing /\ UNCHANGED <<at, last, counts, exporting, outcome>> /\ lines \in Seq(Line)
    BY DEF Pack, Preparing, ReadersInv, ReadersType
<1>2. PICK f \in files, cdx \in Cdx :
          \/ UNCHANGED <<packed, lines, pc>>
          \/ packed' = Append(packed, Build(f, cdx, site)) /\ lines' = Append(lines, Display(Build(f, cdx, site), site)) /\ UNCHANGED pc
          \/ pc' = "failed" /\ UNCHANGED <<packed, lines>>
    BY DEF Pack
<1>3. Display(Build(f, cdx, site), site) \in Line
    BY BuildIsSnapshot, DisplayIsLine DEF Given
<1>4. pc' \in {"pack", "resolve", "verify", "failed"}
    BY <1>1, <1>2, Zenon DEF Preparing
<1>5. lines' \in Seq(Line)
  <2>1. \A ls \in Seq(Line) : \A line \in Line : Append(ls, line) \in Seq(Line)
      OBVIOUS
  <2> QED BY <1>1, <1>2, <1>3, <2>1, Zenon
<1> QED BY <1>1, <1>4, <1>5, PreparingKeeps

LEMMA ReadersInvStep == Given /\ ReadersInv /\ [SnapshotNext]_lineVars => Given' /\ ReadersInv'
<1> SUFFICES ASSUME Given, ReadersInv, [SnapshotNext]_lineVars PROVE Given' /\ ReadersInv'
    OBVIOUS
<1>1. Given'
    BY DEF Given, SnapshotNext, lineVars, source, Pack, HandOver, ResolveContext, VerifyLine, ValidateLine,
           StartExport, ExportLine
<1>2. CASE UNCHANGED lineVars
  <2>1. UNCHANGED <<lines, context, at, last, counts, asked, exportAs, requested, exported, outcome, pc>>
      BY <1>2 DEF lineVars, source, exporting
  <2>2. ReadersType'
      BY <2>1 DEF ReadersInv, ReadersType, OnDisk
  <2>3. DigestBefore' = DigestBefore /\ (NoProblems' <=> NoProblems) /\ (CleanTo(at - 1)' <=> CleanTo(at - 1))
      BY <2>1 DEF DigestBefore, NoProblems, CleanTo, Good, Digest
  <2>4. VerifyInv' /\ ValidateInv'
      BY <2>1, <2>3 DEF ReadersInv, VerifyInv, ValidateInv, Preparing
  <2>5. OutcomeInv'
      BY <2>1, CleanStays DEF ReadersInv, OutcomeInv, Preparing
  <2>6. ExportInv'
    <3>1. {Digest(i) : i \in 1 .. at - 1}' = {Digest(i) : i \in 1 .. at - 1} /\ ExportedNames' = ExportedNames
        BY <2>1 DEF Digest, ExportedNames
    <3>2. {d \in asked : \A i \in 1 .. at - 1 : Before(Digest(i), d)}' = {d \in asked : \A i \in 1 .. at - 1 : Before(Digest(i), d)}
        BY <2>1 DEF Digest
    <3> QED BY <2>1, <3>1, <3>2, CleanStays DEF ReadersInv, ExportInv
  <2> QED BY <1>1, <2>2, <2>4, <2>5, <2>6 DEF ReadersInv
<1> QED BY <1>1, <1>2, PackStep, HandOverStep, ContextStep, VerifyStep, ValidateStep, StartExportStep, ExportStep
       DEF SnapshotNext

LEMMA ReadersInvHolds == SnapshotSpec => [](Given /\ ReadersInv)
<1>1. SnapshotInit => Given
    BY LinesAssumption DEF SnapshotInit, Given
<1> QED BY <1>1, ReadersInvInit, ReadersInvStep, PTL DEF SnapshotSpec

\* export gives back files as they were: what it writes under a digest was
\* asked for and has that digest, except the last file of an export that
\* fails; of a file that validate finds clean it exports just what was asked
\* for and is there, or it fails, in a context that is not the one the file is
\* clean in, at a file that this context gives other bytes.
THEOREM ExportsAreExact == SnapshotSpec => []ExportIsExact
<1>1. ReadersInv => ExportIsExact
  <2> SUFFICES ASSUME ReadersInv PROVE ExportIsExact
      OBVIOUS
  <2>1. OutcomeInv /\ ExportInv
      BY DEF ReadersInv
  <2>2. outcome.validate = "clean" => Clean
      BY <2>1 DEF OutcomeInv
  <2> QED BY <2>1, <2>2 DEF ExportIsExact, ExportInv, ExportedNames, Digest
<1> QED BY <1>1, ReadersInvHolds, PTL

-----------------------------------------------------------------------------
(* A line that was written is read again *)

LEMMA AtJoined ==
    ASSUME NEW S, NEW s, NEW a \in Seq(S), NEW b \in Seq(S), NEW i \in Nat \ {0}, IsAt(s, i, a \o b)
    PROVE  IsAt(s, i, a) /\ IsAt(s, i + Len(a), b)
<1>1. \A k \in 1 .. Len(a) : i + k - 1 \in DOMAIN s /\ s[i + k - 1] = a[k]
  <2> TAKE k \in 1 .. Len(a)
  <2>1. k \in DOMAIN (a \o b) /\ (a \o b)[k] = a[k]
      OBVIOUS
  <2> QED BY <2>1 DEF IsAt
<1>2. \A k \in 1 .. Len(b) : i + Len(a) + k - 1 \in DOMAIN s /\ s[i + Len(a) + k - 1] = b[k]
  <2> TAKE k \in 1 .. Len(b)
  <2>1. Len(a) + k \in DOMAIN (a \o b) /\ (a \o b)[Len(a) + k] = b[k]
      OBVIOUS
  <2>2. i + (Len(a) + k) - 1 = i + Len(a) + k - 1
      OBVIOUS
  <2> QED BY <2>1, <2>2 DEF IsAt
<1>3. DOMAIN a = 1 .. Len(a) /\ DOMAIN b = 1 .. Len(b)
    OBVIOUS
<1> QED BY <1>1, <1>2, <1>3 DEF IsAt

LEMMA ExpectIs ==
    ASSUME NEW line \in Line, NEW literal \in Seq(Symbols), literal # <<>>, NEW i \in Nat \ {0}, IsAt(line, i, Chars(literal))
    PROVE  /\ Expect(line, i, literal) = i + Len(literal) /\ i + Len(literal) - 1 <= Len(line)
           /\ i \in 1 .. Len(line) /\ line[i] = Char(literal[1]) /\ At(line, i) = Char(literal[1]) /\ Len(literal) \in Nat \ {0}
<1> DEFINE n == Len(literal)
           c == Chars(literal)
<1>1. c \in Line /\ Len(c) = n /\ n \in Nat \ {0} /\ c[1] = Char(literal[1])
    BY TextsAreTexts
<1>2. \A k \in 1 .. n : i + k - 1 \in 1 .. Len(line) /\ line[i + k - 1] = c[k]
    BY <1>1 DEF IsAt, Line
<1>5. i \in 1 .. Len(line) /\ line[i] = Char(literal[1])
  <2>1. 1 \in 1 .. n /\ i + 1 - 1 = i
      BY <1>1
  <2> HIDE DEF n, c
  <2> QED BY <1>1, <1>2, <2>1
<1>6. At(line, i) = Char(literal[1])
    BY <1>5 DEF At, Line
<1> HIDE DEF n, c
<1>3. i + n - 1 <= Len(line)
    BY <1>1, <1>2
<1>4. SubSeq(line, i, i + n - 1) = c
  <2>1. /\ SubSeq(line, i, i + n - 1) \in Line /\ Len(SubSeq(line, i, i + n - 1)) = n
        /\ \A k \in 1 .. n : SubSeq(line, i, i + n - 1)[k] = line[i + k - 1]
      BY <1>1, <1>3 DEF Line
  <2> DEFINE q == SubSeq(line, i, i + n - 1)
  <2> HIDE DEF q
  <2> QED BY <1>1, <1>2, <2>1 DEF Line, q
<1> QED BY <1>1, <1>3, <1>4, <1>5, <1>6 DEF Expect, n, c

LEMMA LinesJoin ==
    ASSUME NEW a \in Line, NEW b \in Line
    PROVE  a \o b \in Line /\ Len(a \o b) = Len(a) + Len(b) /\ Len(a) \in Nat /\ Len(b) \in Nat
BY DEF Line

\* A quoted value, where it is on a line.
LEMMA QuotedIs ==
    ASSUME NEW line \in Line, NEW i \in Nat \ {0}, NEW word \in Symbols, NEW t \in Line, IsAt(line, i, Quoted(word, t)),
           NEW o, o = i + Len(Opening(word)), NEW c, c = o + Len(t), NEW e, e = i + Len(Quoted(word, t))
    PROVE  /\ o \in Nat \ {0} /\ c \in Nat /\ e \in Nat \ {0} /\ At(line, i) = Char(word)
           /\ Expect(line, i, Opening(word)) = o /\ IsAt(line, o, t) /\ Expect(line, c, Close) = e
           /\ c >= o /\ c <= Len(line) /\ line[c] = Char(Quote)
<1> DEFINE a == Chars(Opening(word))
           z == Chars(Close)
<1>1. Opening(word) \in Seq(Symbols) /\ Opening(word) # <<>> /\ Opening(word)[1] = word
    BY WordsAreTexts
<1>2. Close \in Seq(Symbols) /\ Close # <<>> /\ Close[1] = Quote
    BY WordsAreTexts
<1>3. a \in Line /\ z \in Line /\ Len(a) = Len(Opening(word)) /\ Len(z) = Len(Close)
    BY <1>1, <1>2, TextsAreTexts
<1>4. Quoted(word, t) = (a \o t) \o z
    BY DEF Quoted
<1> HIDE DEF a, z
<1>5. a \o t \in Line /\ Len(a \o t) = Len(a) + Len(t) /\ Len(a) \in Nat /\ Len(t) \in Nat /\ Len(z) \in Nat
    BY <1>3, LinesJoin
<1>6. Len(Quoted(word, t)) = Len(a) + Len(t) + Len(z)
  <2>1. Len((a \o t) \o z) = Len(a \o t) + Len(z)
      BY <1>3, <1>5, LinesJoin
  <2> QED BY <1>4, <1>5, <2>1
<1>7. IsAt(line, i, a \o t) /\ IsAt(line, i + Len(a \o t), z)
  <2>1. IsAt(line, i, (a \o t) \o z)
      BY <1>4
  <2> QED BY <1>3, <1>5, <2>1, AtJoined DEF Line
<1>8. IsAt(line, i, a) /\ IsAt(line, i + Len(a), t)
    BY <1>3, <1>7, AtJoined DEF Line
<1>9. o \in Nat \ {0} /\ c \in Nat \ {0} /\ o = i + Len(a) /\ c = i + Len(a \o t) /\ c >= o /\ c + Len(z) = e
    BY <1>3, <1>5, <1>6
<1>10. Expect(line, i, Opening(word)) = o /\ At(line, i) = Char(word)
    BY <1>1, <1>8, ExpectIs DEF a
<1>11. Expect(line, c, Close) = c + Len(Close) /\ c \in 1 .. Len(line) /\ line[c] = Char(Quote)
    BY <1>2, <1>7, <1>9, ExpectIs DEF z
<1>12. e \in Nat \ {0}
    BY <1>3, <1>5, <1>6
<1> QED BY <1>3, <1>8, <1>9, <1>10, <1>11, <1>12

\* A value that is one token.
LEMMA OneTokenIs ==
    ASSUME NEW line \in Line, NEW i \in Nat \ {0}, NEW word \in Symbols, NEW token \in LineToken,
           IsAt(line, i, Quoted(word, <<token>>)), NEW o, o = i + Len(Opening(word)),
           NEW e, e = i + Len(Quoted(word, <<token>>))
    PROVE  /\ At(line, i) = Char(word) /\ Expect(line, i, Opening(word)) = o
           /\ o \in 1 .. Len(line) /\ line[o] = token /\ At(line, o) = token
           /\ e \in Nat \ {0} /\ Expect(line, o + 1, Close) = e
<1> DEFINE t == <<token>>
           c == o + Len(t)
<1>1. t \in Line /\ Len(t) = 1 /\ t[1] = token
    BY TokensIn
<1>2. IsAt(line, i, Quoted(word, t)) /\ e = i + Len(Quoted(word, t)) /\ c = o + Len(t)
    OBVIOUS
<1> HIDE DEF t, c
<1>3. /\ o \in Nat \ {0} /\ At(line, i) = Char(word) /\ Expect(line, i, Opening(word)) = o /\ IsAt(line, o, t)
      /\ Expect(line, c, Close) = e /\ e \in Nat \ {0}
  <2>1. /\ line \in Line /\ i \in Nat \ {0} /\ word \in Symbols /\ t \in Line /\ IsAt(line, i, Quoted(word, t))
        /\ o = i + Len(Opening(word)) /\ c = o + Len(t) /\ e = i + Len(Quoted(word, t))
      BY <1>1, <1>2
  <2>2. o \in Nat \ {0}
      BY <2>1, QuotedIs
  <2>3. IsAt(line, o, t)
      BY <2>1, QuotedIs, Zenon
  <2>4. Expect(line, c, Close) = e
      BY <2>1, QuotedIs
  <2> QED BY <2>1, QuotedIs
<1>4. o \in DOMAIN line /\ line[o] = token
  <2>1. 1 \in DOMAIN t /\ o + 1 - 1 = o
      BY <1>1, <1>3 DEF Line
  <2> QED BY <1>1, <1>3, <2>1 DEF IsAt
<1>5. o \in 1 .. Len(line) /\ At(line, o) = token
    BY <1>4 DEF Line, At
<1>6. Expect(line, o + 1, Close) = e
    BY <1>1, <1>2, <1>3
<1> QED BY <1>3, <1>4, <1>5, <1>6

LEMMA ExpectedIs ==
    ASSUME NEW line \in Line, NEW i \in Nat \ {0}, NEW s \in Snapshots, s.expected = {},
           NEW values \in SUBSET Line, IsOptional(values), \A e \in values : Len(e) = 1,
           IsAt(line, i, Optional("expected_digest", values)), values = {} => At(line, i) # Char("expected_digest")
    PROVE  WithExpected(line, [at |-> i, s |-> s]) =
             [at |-> i + Len(Optional("expected_digest", values)), s |-> [s EXCEPT !.expected = values]]
<1> DEFINE r == [at |-> i, s |-> s]
           word == "expected_digest"
<1>1. r.at = i /\ r.s = s
    OBVIOUS
<1>2. CASE values = {}
  <2>1. WithExpected(line, r) = r
      BY <1>1, <1>2 DEF WithExpected, Has
  <2>2. Optional(word, values) = <<>> /\ i + 0 = i
      BY <1>2 DEF Optional
  <2>3. [s EXCEPT !.expected = values] = s
      BY <1>2 DEF Snapshots
  <2> QED BY <2>1, <2>2, <2>3
<1>3. CASE values # {}
  <2>1. PICK e \in values : TRUE
      BY <1>3
  <2>2. values = {e} /\ e \in Line /\ Len(e) = 1
      BY <2>1 DEF IsOptional
  <2>3. PICK token \in LineToken : e = <<token>>
    <3>1. \A v \in Seq(LineToken) : DOMAIN v = 1 .. Len(v) /\ v = [n \in DOMAIN v |-> v[n]]
                                     /\ \A n \in 1 .. Len(v) : v[n] \in LineToken
        OBVIOUS
    <3>2. DOMAIN e = 1 .. 1 /\ e = [n \in DOMAIN e |-> e[n]] /\ \A n \in 1 .. 1 : e[n] \in LineToken
        BY <2>2, <3>1, Zenon DEF Line
    <3>3. 1 .. 1 = {1}
        OBVIOUS
    <3>4. <<e[1]>> = [n \in 1 .. 1 |-> e[1]]
        OBVIOUS
    <3>5. [n \in 1 .. 1 |-> e[n]] = [n \in 1 .. 1 |-> e[1]]
        BY <3>3
    <3>6. e = <<e[1]>> /\ e[1] \in LineToken
        BY <3>2, <3>3, <3>4, <3>5
    <3> QED BY <3>6
  <2>4. Optional(word, values) = Quoted(word, <<token>>)
      BY <1>3, <2>2, <2>3, TheIs DEF Optional
  <2> DEFINE o == i + Len(Opening(word))
             end == i + Len(Quoted(word, <<token>>))
  <2>5. /\ At(line, i) = Char(word) /\ Expect(line, i, Opening(word)) = o /\ o \in 1 .. Len(line) /\ line[o] = token
        /\ Expect(line, o + 1, Close) = end
    <3>1. word \in Symbols /\ IsAt(line, i, Quoted(word, <<token>>)) /\ o = i + Len(Opening(word))
          /\ end = i + Len(Quoted(word, <<token>>))
        BY <2>4, OwnSymbols
    <3> HIDE DEF word, o, end
    <3> QED BY <2>3, <3>1, OneTokenIs
  <2>6. Has(line, r, word) /\ Opened(line, r, word) = o
      BY <2>5, <1>1 DEF Has, Opened
  <2>7. WithExpected(line, r) = Expected(line, r, o)
      BY <2>6 DEF WithExpected
  <2> HIDE DEF o, r
  <2>8. Expected(line, r, o) = [at |-> Expect(line, o + 1, Close), s |-> [r.s EXCEPT !.expected = {<<line[o]>>}]]
      BY <2>5 DEF Expected
  <2>9. {<<line[o]>>} = values
      BY <2>2, <2>3, <2>5
  <2> QED BY <1>1, <2>4, <2>5, <2>7, <2>8, <2>9 DEF r
<1> QED BY <1>2, <1>3

LEMMA TimestampIs ==
    ASSUME NEW line \in Line, NEW i \in Nat \ {0}, NEW s \in Snapshots, s.timestamp = {},
           NEW values \in SUBSET Timestamps, IsOptional(values),
           IsAt(line, i, Optional("timestamp", {<<t>> : t \in values})), values = {} => At(line, i) # Char("timestamp")
    PROVE  WithTimestamp(line, [at |-> i, s |-> s]) =
             [at |-> i + Len(Optional("timestamp", {<<t>> : t \in values})), s |-> [s EXCEPT !.timestamp = values]]
<1> DEFINE r == [at |-> i, s |-> s]
           word == "timestamp"
           shown == {<<t>> : t \in values}
<1>1. r.at = i /\ r.s = s
    OBVIOUS
<1>2. CASE values = {}
  <2>1. WithTimestamp(line, r) = r
      BY <1>1, <1>2 DEF WithTimestamp, Has
  <2>2. Optional(word, shown) = <<>> /\ i + 0 = i
      BY <1>2 DEF Optional
  <2>3. [s EXCEPT !.timestamp = values] = s
      BY <1>2 DEF Snapshots
  <2> QED BY <2>1, <2>2, <2>3
<1>3. CASE values # {}
  <2>1. PICK token \in values : TRUE
      BY <1>3
  <2>2. values = {token} /\ token \in LineToken /\ token \in Timestamps /\ shown = {<<token>>}
      BY <2>1, LinesAssumption DEF IsOptional
  <2>4. Optional(word, shown) = Quoted(word, <<token>>)
      BY <2>2, TheIs DEF Optional
  <2> DEFINE o == i + Len(Opening(word))
             end == i + Len(Quoted(word, <<token>>))
  <2>5. /\ At(line, i) = Char(word) /\ Expect(line, i, Opening(word)) = o /\ o \in 1 .. Len(line) /\ line[o] = token
        /\ At(line, o) = token /\ Expect(line, o + 1, Close) = end
    <3>1. word \in Symbols /\ IsAt(line, i, Quoted(word, <<token>>)) /\ o = i + Len(Opening(word))
          /\ end = i + Len(Quoted(word, <<token>>))
        BY <2>4, OwnSymbols
    <3> HIDE DEF word, o, end
    <3> QED BY <2>2, <3>1, OneTokenIs
  <2>6. Has(line, r, word) /\ Opened(line, r, word) = o
      BY <2>5, <1>1 DEF Has, Opened
  <2>7. WithTimestamp(line, r) = Timestamp(line, r, o)
      BY <2>6 DEF WithTimestamp
  <2> HIDE DEF o, r
  <2>8. Timestamp(line, r, o) = [at |-> Expect(line, o + 1, Close), s |-> [r.s EXCEPT !.timestamp = {line[o]}]]
      BY <2>2, <2>5 DEF Timestamp
  <2>9. {line[o]} = values
      BY <2>2, <2>5
  <2> QED BY <1>1, <2>4, <2>5, <2>7, <2>8, <2>9 DEF r
<1> QED BY <1>2, <1>3

LEMMA TextIs ==
    ASSUME NEW line, NEW i \in Nat \ {0}, NEW u \in Seq(Symbols), IsAt(line, i, Chars(u)), NEW j, j = i + Len(u)
    PROVE  Text(line, i, j) = u
<1>1. j - i = Len(u) /\ Len(u) \in Nat
    OBVIOUS
<1>2. ASSUME NEW k \in 1 .. Len(u) PROVE line[i + k - 1][1] = u[k]
  <2>1. k \in DOMAIN Chars(u) /\ Chars(u)[k] = Char(u[k])
      BY TextsAreTexts DEF Line
  <2>2. line[i + k - 1] = Char(u[k])
      BY <2>1 DEF IsAt
  <2> QED BY <2>2 DEF Char
<1>3. Text(line, i, j) = [k \in 1 .. Len(u) |-> u[k]]
    BY <1>1, <1>2 DEF Text
<1> QED BY <1>3

LEMMA MinIs ==
    ASSUME NEW S \in SUBSET Int, NEW m \in S, \A y \in S : m <= y
    PROVE  Min(S) = m
<1>1. \E x \in S : \A y \in S : x <= y
    OBVIOUS
<1>2. Min(S) \in S /\ \A y \in S : Min(S) <= y
    BY <1>1, Zenon DEF Min
<1>3. m \in Int /\ Min(S) \in Int /\ m <= Min(S) /\ Min(S) <= m
    BY <1>2
<1> QED BY <1>3

\* A string without escapes is read to its quote.
LEMMA StringIs ==
    ASSUME NEW line \in Line, NEW o \in Nat \ {0}, NEW u \in Seq(Symbols), ~ NeedsEscaping(u), IsAt(line, o, Chars(u)),
           NEW c, c = o + Len(u), c <= Len(line), line[c] = Char(Quote)
    PROVE  ReadString(line, o) = c
<1> DEFINE ends == {e \in o .. Len(line) : line[e] \in {Char(Quote), Char(Escape)}}
<1>1. c \in Int /\ c \in ends
    BY DEF Line
<1>2. ASSUME NEW e \in ends, e < c PROVE FALSE
  <2>1. PICK k \in 1 .. Len(u) : e = o + k - 1
    <3>1. e \in Int /\ o <= e /\ e - o + 1 \in 1 .. Len(u) /\ e = o + (e - o + 1) - 1
        BY <1>2
    <3> QED BY <3>1
  <2>2. line[e] = Char(u[k])
    <3>1. k \in DOMAIN Chars(u) /\ Chars(u)[k] = Char(u[k])
        BY <2>1, TextsAreTexts DEF Line
    <3> QED BY <2>1, <3>1 DEF IsAt
  <2>3. u[k] \in {Quote, Escape}
      BY <1>2, <2>2 DEF Char
  <2> QED BY <2>1, <2>3 DEF NeedsEscaping
<1>3. ends \in SUBSET Int /\ \A e \in ends : c <= e
    BY <1>1, <1>2
<1> HIDE DEF ends
<1>4. Min(ends) = c
    BY <1>1, <1>3, MinIs
<1>5. ReadString(line, o) = IF ends # {} /\ line[Min(ends)] = Char(Quote) THEN Min(ends) ELSE Len(line) + 1
    BY DEF ReadString, ends
<1> QED BY <1>1, <1>4, <1>5

LEMMA UrlIs ==
    ASSUME NEW line \in Line, NEW i \in Nat \ {0}, NEW s \in Snapshots, s.url = {},
           NEW values \in SUBSET Seq(Symbols), IsOptional(values), \A u \in values : ~ NeedsEscaping(u),
           IsAt(line, i, Optional("url", {Chars(u) : u \in values})), values = {} => At(line, i) # Char("url")
    PROVE  WithUrl(line, [at |-> i, s |-> s]) =
             [at |-> i + Len(Optional("url", {Chars(u) : u \in values})), s |-> [s EXCEPT !.url = values]]
<1> DEFINE r == [at |-> i, s |-> s]
           word == "url"
           shown == {Chars(u) : u \in values}
<1>1. r.at = i /\ r.s = s
    OBVIOUS
<1>2. CASE values = {}
  <2>1. WithUrl(line, r) = r
      BY <1>1, <1>2 DEF WithUrl, Has
  <2>2. Optional(word, shown) = <<>> /\ i + 0 = i
      BY <1>2 DEF Optional
  <2>3. [s EXCEPT !.url = values] = s
      BY <1>2 DEF Snapshots
  <2> QED BY <2>1, <2>2, <2>3
<1>3. CASE values # {}
  <2>1. PICK u \in values : TRUE
      BY <1>3
  <2>2. values = {u} /\ u \in Seq(Symbols) /\ ~ NeedsEscaping(u) /\ shown = {Chars(u)}
      BY <2>1 DEF IsOptional
  <2> DEFINE t == Chars(u)
  <2>3. t \in Line /\ Len(t) = Len(u)
      BY <2>2, TextsAreTexts
  <2>4. Optional(word, shown) = Quoted(word, t)
      BY <1>3, <2>2, TheIs DEF Optional
  <2> DEFINE o == i + Len(Opening(word))
             c == o + Len(t)
             end == i + Len(Quoted(word, t))
  <2>5. /\ o \in Nat \ {0} /\ c \in Nat /\ end \in Nat \ {0} /\ At(line, i) = Char(word) /\ Expect(line, i, Opening(word)) = o
        /\ IsAt(line, o, t) /\ Expect(line, c, Close) = end /\ c <= Len(line) /\ line[c] = Char(Quote)
    <3>1. word \in Symbols /\ IsAt(line, i, Quoted(word, t)) /\ o = i + Len(Opening(word)) /\ c = o + Len(t)
          /\ end = i + Len(Quoted(word, t))
        BY <2>4, OwnSymbols
    <3> HIDE DEF word, o, c, end, t
    <3> QED BY <2>3, <3>1, QuotedIs
  <2>6. Has(line, r, word) /\ Opened(line, r, word) = o
      BY <2>5, <1>1 DEF Has, Opened
  <2>7. c = o + Len(u)
      BY <2>3
  <2> HIDE DEF o, c, r, end
  <2>8. ReadString(line, o) = c /\ Text(line, o, c) = u
      BY <2>2, <2>5, <2>7, StringIs, TextIs
  <2>9. WithUrl(line, r) = Url(line, r, o, c)
      BY <2>6, <2>8 DEF WithUrl
  <2>10. Url(line, r, o, c) = [at |-> end, s |-> [s EXCEPT !.url = values]]
      BY <1>1, <2>2, <2>5, <2>8 DEF Url
  <2> QED BY <2>4, <2>9, <2>10 DEF r, end
<1> QED BY <1>2, <1>3

-----------------------------------------------------------------------------
(* The format object of a line *)

ScanStates == {"between", "within", "escaped"}
AfterChar(c, x) ==
    CASE x = "between" -> IF c = Quote THEN "within" ELSE "between"
      [] x = "within" -> IF c = Escape THEN "escaped" ELSE IF c = Quote THEN "between" ELSE "within"
      [] OTHER -> "within"
\* A text within the braces that leads a scan from one state to another.
LeadsBy(text, g) ==
    \A n \in 1 .. Len(text) :
        g[n] = AfterChar(text[n], g[n - 1]) /\ (g[n - 1] = "between" => text[n] \notin {Open, Shut})
Leads(text, x, y) ==
    \E g \in [0 .. Len(text) -> ScanStates] : g[0] = x /\ g[Len(text)] = y /\ LeadsBy(text, g)

LEMMA NothingLeads == \A x \in ScanStates : Leads(<<>>, x, x)
<1> TAKE x \in ScanStates
<1> DEFINE g == [n \in 0 .. 0 |-> x]
<1>1. g \in [0 .. Len(<<>>) -> ScanStates] /\ g[0] = x /\ g[Len(<<>>)] = x /\ 1 .. Len(<<>>) = {}
    OBVIOUS
<1> HIDE DEF g
<1>2. LeadsBy(<<>>, g)
    BY <1>1 DEF LeadsBy
<1> QED BY <1>1, <1>2 DEF Leads

LEMMA JoinedLeads ==
    ASSUME NEW a \in Seq(Symbols), NEW b \in Seq(Symbols), NEW x, NEW y, NEW z, Leads(a, x, y), Leads(b, y, z)
    PROVE  Leads(a \o b, x, z)
<1> DEFINE A == Len(a)
           B == Len(b)
<1>1. PICK g \in [0 .. A -> ScanStates] : g[0] = x /\ g[A] = y /\ LeadsBy(a, g)
    BY DEF Leads
<1>2. PICK h \in [0 .. B -> ScanStates] : h[0] = y /\ h[B] = z /\ LeadsBy(b, h)
    BY DEF Leads
<1>3. A \in Nat /\ B \in Nat /\ Len(a \o b) = A + B
    OBVIOUS
<1>4. (\A n \in 1 .. A : (a \o b)[n] = a[n]) /\ \A n \in 1 .. B : (a \o b)[A + n] = b[n]
    OBVIOUS
<1> DEFINE f == [n \in 0 .. A + B |-> IF n <= A THEN g[n] ELSE h[n - A]]
<1>5. \A n \in 0 .. A + B : f[n] \in ScanStates
  <2> TAKE n \in 0 .. A + B
  <2> HIDE DEF A, B
  <2>1. CASE n <= A
      BY <1>1, <1>3, <2>1
  <2>2. CASE ~ (n <= A)
    <3>1. n - A \in 0 .. B
        BY <1>3, <2>2
    <3> QED BY <1>2, <2>2, <3>1
  <2> QED BY <2>1, <2>2
<1>6. \A n \in 0 .. A : f[n] = g[n]
    BY <1>3
<1>7. \A n \in 0 .. B : f[A + n] = h[n]
  <2> TAKE n \in 0 .. B
  <2> HIDE DEF A, B
  <2>1. CASE n = 0
      BY <1>1, <1>2, <1>3, <2>1
  <2>2. CASE n # 0
    <3>1. A + n \in 0 .. A + B /\ ~ (A + n <= A) /\ A + n - A = n
        BY <1>3, <2>2
    <3>2. \A k \in 0 .. A + B : ~ (k <= A) => f[k] = h[k - A]
        OBVIOUS
    <3>3. PICK k \in 0 .. A + B : k = A + n
        BY <3>1
    <3> HIDE DEF f
    <3>4. f[k] = h[k - A]
        BY <3>1, <3>2, <3>3
    <3>5. k - A = n
        BY <1>3, <3>3
    <3>6. f[k] = h[n]
        BY <3>4, <3>5, Zenon
    <3> QED BY <3>3, <3>6, Zenon
  <2> QED BY <2>1, <2>2
<1>8. f \in [0 .. A + B -> ScanStates]
    BY <1>5
<1> DEFINE ab == a \o b
<1> HIDE DEF f, A, B, ab
<1>9. LeadsBy(ab, f)
  <2> SUFFICES ASSUME NEW n \in 1 .. A + B
               PROVE  /\ f[n] = AfterChar(ab[n], f[n - 1])
                      /\ f[n - 1] = "between" => ab[n] \notin {Open, Shut}
      BY <1>3 DEF LeadsBy, ab
  <2>1. CASE n \in 1 .. A
    <3>1. n \in 0 .. A /\ n - 1 \in 0 .. A
        BY <1>3, <2>1
    <3>2. f[n] = g[n] /\ f[n - 1] = g[n - 1] /\ ab[n] = a[n]
        BY <1>4, <1>6, <2>1, <3>1 DEF ab
    <3> QED BY <1>1, <2>1, <3>2 DEF LeadsBy, A
  <2>2. CASE n \notin 1 .. A
    <3>1. PICK m \in 1 .. B : n = A + m /\ m \in 0 .. B /\ m - 1 \in 0 .. B /\ n - 1 = A + (m - 1)
      <4>1. n - A \in 1 .. B /\ n = A + (n - A) /\ n - 1 = A + ((n - A) - 1)
          BY <1>3, <2>2
      <4> QED BY <1>3, <4>1
    <3>2. f[n] = h[m] /\ f[n - 1] = h[m - 1] /\ ab[n] = b[m]
        BY <1>4, <1>7, <3>1 DEF ab
    <3> QED BY <1>2, <3>1, <3>2 DEF LeadsBy, B
  <2> QED BY <2>1, <2>2
<1>10. f[0] = x /\ f[A + B] = z
  <2>1. 0 \in 0 .. A /\ B \in 0 .. B
      BY <1>3
  <2> QED BY <1>1, <1>2, <1>6, <1>7, <2>1
<1> QED BY <1>3, <1>8, <1>9, <1>10 DEF Leads, ab

LEMMA CharLeads ==
    ASSUME NEW c \in Symbols, NEW x \in ScanStates, x = "between" => c \notin {Open, Shut}
    PROVE  Leads(<<c>>, x, AfterChar(c, x))
<1> DEFINE g == [n \in 0 .. 1 |-> IF n = 0 THEN x ELSE AfterChar(c, x)]
           text == <<c>>
<1>1. AfterChar(c, x) \in ScanStates
    BY DEF AfterChar, ScanStates
<1>2. Len(text) = 1 /\ text[1] = c
    OBVIOUS
<1>3. g \in [0 .. 1 -> ScanStates] /\ g[0] = x /\ g[1] = AfterChar(c, x)
  <2> HIDE DEF text
  <2>1. \A n \in 0 .. 1 : g[n] \in ScanStates
      BY <1>1
  <2>2. g \in [0 .. 1 -> ScanStates]
      BY <2>1
  <2>3. 0 \in 0 .. 1 /\ 1 \in 0 .. 1 /\ 1 # 0
      OBVIOUS
  <2>4. g[0] = x /\ g[1] = AfterChar(c, x)
      BY <2>3, Zenon
  <2> QED BY <2>2, <2>4
<1> HIDE DEF g, text
<1>4. LeadsBy(text, g)
  <2> SUFFICES ASSUME NEW n \in 1 .. 1
               PROVE  /\ g[n] = AfterChar(text[n], g[n - 1])
                      /\ g[n - 1] = "between" => text[n] \notin {Open, Shut}
      BY <1>2 DEF LeadsBy
  <2>1. n = 1 /\ n - 1 = 0
      OBVIOUS
  <2>2. g[n] = AfterChar(c, x) /\ g[n - 1] = x /\ text[n] = c
      BY <1>2, <1>3, <2>1
  <2> QED BY <2>2, Zenon
<1> QED BY <1>2, <1>3, <1>4 DEF Leads, text

\* What a field is made of is closed in itself.
LEMMA MarksDiffer ==
    /\ Quote # Escape /\ Quote # Open /\ Quote # Shut /\ Quote # Sep /\ Quote # Colon /\ Escape # Open /\ Escape # Shut
    /\ Open # Shut /\ Sep \notin {Quote, Escape, Open, Shut} /\ Colon \notin {Quote, Escape, Open, Shut}
    /\ \A key \in {"type", "closing_whitespace", "level"} : key \notin {Quote, Escape, Open, Shut}
BY Zenon DEF Quote, Escape, Open, Shut, Sep, Colon

LEMMA NamedLeads ==
    ASSUME NEW first \in BOOLEAN, NEW key \in {"type", "closing_whitespace", "level"}
    PROVE  Leads(Named(first, key), "between", "within")
<1> DEFINE text == <<Quote, key, Quote, Colon, Quote>>
           g == [n \in 0 .. 5 |-> IF n \in {1, 2, 5} THEN "within" ELSE "between"]
<1>1. Len(text) = 5 /\ text[1] = Quote /\ text[2] = key /\ text[3] = Quote /\ text[4] = Colon /\ text[5] = Quote
    OBVIOUS
<1>2. g \in [0 .. 5 -> ScanStates]
    BY DEF ScanStates
<1>3. g[0] = "between" /\ g[1] = "within" /\ g[2] = "within" /\ g[3] = "between" /\ g[4] = "between" /\ g[5] = "within"
    OBVIOUS
<1>4. text \in Seq(Symbols)
    BY OwnSymbols, ShortTexts
<1> HIDE DEF text, g
<1>5. LeadsBy(text, g)
  <2> SUFFICES ASSUME NEW n \in 1 .. 5
               PROVE  g[n] = AfterChar(text[n], g[n - 1]) /\ (g[n - 1] = "between" => text[n] \notin {Open, Shut})
      BY <1>1 DEF LeadsBy
  <2>1. /\ AfterChar(Quote, "between") = "within" /\ AfterChar(key, "within") = "within"
        /\ AfterChar(Quote, "within") = "between" /\ AfterChar(Colon, "between") = "between"
      BY MarksDiffer DEF AfterChar
  <2>2. Quote \notin {Open, Shut} /\ Colon \notin {Open, Shut}
      BY MarksDiffer
  <2>3. (n = 1 /\ n - 1 = 0) \/ (n = 2 /\ n - 1 = 1) \/ (n = 3 /\ n - 1 = 2) \/ (n = 4 /\ n - 1 = 3) \/ (n = 5 /\ n - 1 = 4)
      OBVIOUS
  <2> QED BY <1>1, <1>3, <2>1, <2>2, <2>3
<1>6. Leads(text, "between", "within")
    BY <1>1, <1>2, <1>3, <1>5 DEF Leads
<1>7. Leads(<<Sep>>, "between", "between")
  <2>1. AfterChar(Sep, "between") = "between" /\ Sep \notin {Open, Shut} /\ Sep \in Symbols /\ "between" \in ScanStates
      BY MarksDiffer, OwnSymbols DEF AfterChar, ScanStates
  <2> QED BY <2>1, CharLeads
<1>8. <<Sep>> \in Seq(Symbols)
    BY OwnSymbols, ShortTexts
<1>9. Leads(<<Sep>> \o text, "between", "within")
    BY <1>4, <1>6, <1>7, <1>8, JoinedLeads
<1>10. <<>> \o text = text
    BY <1>4
<1> QED BY <1>6, <1>9, <1>10 DEF Named, text

LEMMA EscapedLeads == \A s \in Seq(Symbols) : Leads(EscapedText(s), "within", "within")
<1> TAKE s \in Seq(Symbols)
<1>1. ASSUME NEW c \in Symbols PROVE Leads(Escaped(c), "within", "within")
  <2>1. "within" \in ScanStates /\ "escaped" \in ScanStates /\ "within" # "between" /\ "escaped" # "between"
      BY DEF ScanStates
  <2>2. CASE Escaped(c) = <<c>> /\ c # Quote /\ c # Escape
    <3>1. AfterChar(c, "within") = "within"
        BY <2>2 DEF AfterChar
    <3> QED BY <2>1, <2>2, <3>1, CharLeads
  <2>3. ASSUME NEW e \in Symbols, Escaped(c) = <<Escape, e>> PROVE Leads(Escaped(c), "within", "within")
    <3>1. AfterChar(Escape, "within") = "escaped" /\ AfterChar(e, "escaped") = "within" /\ Escape \in Symbols
        BY OwnSymbols DEF AfterChar
    <3>2. Leads(<<Escape>>, "within", "escaped") /\ Leads(<<e>>, "escaped", "within")
        BY <2>1, <3>1, CharLeads
    <3>3. <<Escape>> \in Seq(Symbols) /\ <<e>> \in Seq(Symbols) /\ <<Escape, e>> = <<Escape>> \o <<e>>
        BY <3>1
    <3> QED BY <2>3, <3>2, <3>3, JoinedLeads
  <2> QED BY <2>2, <2>3, EscapedIs
<1>2. PICK f \in [0 .. Len(s) -> Seq(Symbols)] :
          /\ f[0] = <<>> /\ \A n \in 1 .. Len(s) : f[n] = f[n - 1] \o Escaped(s[n])
          /\ EscapedText(s) = f[Len(s)]
    BY EscapedStepwise
<1> DEFINE T == {n \in Nat : n <= Len(s) => Leads(f[n], "within", "within")}
<1>3. 0 \in T
    BY <1>2, NothingLeads DEF ScanStates
<1>4. ASSUME NEW n \in Nat, n \in T PROVE n + 1 \in T
  <2> SUFFICES ASSUME n + 1 <= Len(s) PROVE Leads(f[n + 1], "within", "within")
      OBVIOUS
  <2>1. n + 1 \in 1 .. Len(s) /\ (n + 1) - 1 = n /\ n \in 0 .. Len(s) /\ s[n + 1] \in Symbols
      OBVIOUS
  <2>2. f[n + 1] = f[n] \o Escaped(s[n + 1]) /\ f[n] \in Seq(Symbols)
      BY <1>2, <2>1
  <2>3. Escaped(s[n + 1]) \in Seq(Symbols) /\ Leads(Escaped(s[n + 1]), "within", "within")
      BY <1>1, <2>1, EscapedIs
  <2>4. Leads(f[n], "within", "within")
      BY <1>4, <2>1
  <2> QED BY <2>2, <2>3, <2>4, JoinedLeads
<1> HIDE DEF T
<1>5. Nat \subseteq T
    BY <1>3, <1>4, NatFromZero
<1> QED BY <1>2, <1>5 DEF T

LEMMA FieldLeads ==
    ASSUME NEW first \in BOOLEAN, NEW key \in {"type", "closing_whitespace", "level"}, NEW values \in SUBSET Seq(Symbols)
    PROVE  Field(first, key, values) \in Seq(Symbols) /\ Leads(Field(first, key, values), "between", "between")
<1>1. key \in Symbols
    BY OwnSymbols
<1>2. Named(first, key) \in Seq(Symbols) /\ Field(first, key, values) \in Seq(Symbols)
    BY <1>1, FieldIsText
<1>3. CASE values = {}
    BY <1>2, <1>3, NothingLeads DEF Field, ScanStates
<1>4. CASE values # {}
  <2> DEFINE name == Named(first, key)
             text == EscapedText(The(values, <<>>))
             close == <<Quote>>
  <2>1. text \in Seq(Symbols) /\ Leads(text, "within", "within")
      BY <1>4, TheIs, EscapedLeads, TextsAreTexts
  <2>2. close \in Seq(Symbols) /\ Leads(close, "within", "between")
    <3>1. AfterChar(Quote, "within") = "between" /\ Quote \in Symbols /\ "within" \in ScanStates /\ "within" # "between"
        BY MarksDiffer, OwnSymbols DEF AfterChar, ScanStates
    <3> QED BY <3>1, CharLeads
  <2>3. name \in Seq(Symbols) /\ Leads(name, "between", "within")
      BY <1>2, NamedLeads
  <2>4. Field(first, key, values) = (name \o text) \o close
      BY <1>4 DEF Field
  <2> HIDE DEF name, text, close
  <2>5. name \o text \in Seq(Symbols) /\ Leads(name \o text, "between", "within")
      BY <2>1, <2>3, JoinedLeads, TextsJoin
  <2>6. Leads((name \o text) \o close, "between", "between")
      BY <2>2, <2>5, JoinedLeads
  <2> QED BY <1>2, <2>4, <2>6
<1> QED BY <1>3, <1>4

\* How the scan of an object stands.
Scan(p, x) == [at |-> p, depth |-> 1, inString |-> (x # "between"), escaped |-> (x = "escaped")]
LEMMA ScanStands ==
    \A p : /\ Scan(p, "between") = [at |-> p, depth |-> 1, inString |-> FALSE, escaped |-> FALSE]
           /\ Scan(p, "within") = [at |-> p, depth |-> 1, inString |-> TRUE, escaped |-> FALSE]
           /\ Scan(p, "escaped") = [at |-> p, depth |-> 1, inString |-> TRUE, escaped |-> TRUE]
<1>1. "within" # "between" /\ "within" # "escaped" /\ "between" # "escaped"
    OBVIOUS
<1> TAKE p
<1>2. (("between" # "between") = FALSE) /\ (("between" = "escaped") = FALSE) /\ (("within" # "between") = TRUE)
      /\ (("within" = "escaped") = FALSE) /\ (("escaped" # "between") = TRUE) /\ (("escaped" = "escaped") = TRUE)
    BY <1>1, Zenon
<1> QED BY <1>2 DEF Scan

LEMMA CharsDiffer == \A c, d : (Char(c) = Char(d)) <=> (c = d)
BY DEF Char

LEMMA ScannedIs ==
    ASSUME NEW p \in Nat, NEW c, NEW x \in ScanStates, x = "between" => c \notin {Open, Shut}
    PROVE  Scanned(Char(c), Scan(p, x)) = Scan(p + 1, AfterChar(c, x))
<1>1. CASE x = "between"
  <2> DEFINE t == [at |-> p, depth |-> 1, inString |-> FALSE, escaped |-> FALSE]
  <2>1. Scan(p, x) = t
      BY <1>1, ScanStands
  <2>2. t.inString = FALSE /\ t.depth = 1 /\ t.at = p
      OBVIOUS
  <2>3. Char(c) # Char(Open) /\ Char(c) # Char(Shut)
      BY <1>1, CharsDiffer
  <2>4. CASE c = Quote
    <3>1. (Char(c) = Char(Quote)) = TRUE
        BY <2>4
    <3>2. Scanned(Char(c), t) = [t EXCEPT !.at = @ + 1, !.inString = TRUE, !.depth = @]
        BY <2>2, <2>3, <3>1, Zenon DEF Scanned
    <3>3. AfterChar(c, x) = "within"
        BY <1>1, <2>4 DEF AfterChar
    <3> QED BY <2>1, <3>2, <3>3, ScanStands
  <2>5. CASE c # Quote
    <3>1. (Char(c) = Char(Quote)) = FALSE
        BY <2>5, CharsDiffer
    <3>2. Scanned(Char(c), t) = [t EXCEPT !.at = @ + 1, !.inString = FALSE, !.depth = @]
        BY <2>2, <2>3, <3>1, Zenon DEF Scanned
    <3>3. AfterChar(c, x) = "between"
        BY <1>1, <2>5 DEF AfterChar
    <3> QED BY <2>1, <3>2, <3>3, ScanStands
  <2> QED BY <2>4, <2>5
<1>2. CASE x = "within"
  <2> DEFINE t == [at |-> p, depth |-> 1, inString |-> TRUE, escaped |-> FALSE]
  <2>1. Scan(p, x) = t
      BY <1>2, ScanStands
  <2>2. t.inString = TRUE /\ t.escaped = FALSE /\ t.at = p
      OBVIOUS
  <2>3. x # "between" /\ Escape # Quote
      BY <1>2, MarksDiffer
  <2>4. CASE c = Quote
    <3>1. (Char(c) # Char(Quote)) = FALSE /\ (Char(c) = Char(Escape)) = FALSE
        BY <2>3, <2>4, CharsDiffer
    <3>2. (t.escaped \/ Char(c) # Char(Quote)) = FALSE /\ (~ t.escaped /\ Char(c) = Char(Escape)) = FALSE
        BY <2>2, <3>1, Zenon
    <3>3. Scanned(Char(c), t) = [t EXCEPT !.at = @ + 1, !.escaped = FALSE, !.inString = FALSE]
        BY <2>2, <3>2, Zenon DEF Scanned
    <3>4. AfterChar(c, x) = "between"
        BY <1>2, <2>3, <2>4 DEF AfterChar
    <3> QED BY <2>1, <3>3, <3>4, ScanStands
  <2>5. CASE c = Escape
    <3>1. (Char(c) # Char(Quote)) = TRUE /\ (Char(c) = Char(Escape)) = TRUE
        BY <2>3, <2>5, CharsDiffer
    <3>2. (t.escaped \/ Char(c) # Char(Quote)) = TRUE /\ (~ t.escaped /\ Char(c) = Char(Escape)) = TRUE
        BY <2>2, <3>1, Zenon
    <3>3. Scanned(Char(c), t) = [t EXCEPT !.at = @ + 1, !.escaped = TRUE, !.inString = TRUE]
        BY <2>2, <3>2, Zenon DEF Scanned
    <3>4. AfterChar(c, x) = "escaped"
        BY <1>2, <2>3, <2>5 DEF AfterChar
    <3> QED BY <2>1, <3>3, <3>4, ScanStands
  <2>6. CASE c # Quote /\ c # Escape
    <3>1. (Char(c) # Char(Quote)) = TRUE /\ (Char(c) = Char(Escape)) = FALSE
        BY <2>3, <2>6, CharsDiffer
    <3>2. (t.escaped \/ Char(c) # Char(Quote)) = TRUE /\ (~ t.escaped /\ Char(c) = Char(Escape)) = FALSE
        BY <2>2, <3>1, Zenon
    <3>3. Scanned(Char(c), t) = [t EXCEPT !.at = @ + 1, !.escaped = FALSE, !.inString = TRUE]
        BY <2>2, <3>2, Zenon DEF Scanned
    <3>4. AfterChar(c, x) = "within"
        BY <1>2, <2>3, <2>6 DEF AfterChar
    <3> QED BY <2>1, <3>3, <3>4, ScanStands
  <2> QED BY <2>4, <2>5, <2>6
<1>3. CASE x = "escaped"
  <2> DEFINE t == [at |-> p, depth |-> 1, inString |-> TRUE, escaped |-> TRUE]
  <2>1. Scan(p, x) = t
      BY <1>3, ScanStands
  <2>2. t.inString = TRUE /\ t.escaped = TRUE /\ t.at = p
      OBVIOUS
  <2>3. (t.escaped \/ Char(c) # Char(Quote)) = TRUE /\ (~ t.escaped /\ Char(c) = Char(Escape)) = FALSE
      BY <2>2, Zenon
  <2>4. Scanned(Char(c), t) = [t EXCEPT !.at = @ + 1, !.escaped = FALSE, !.inString = TRUE]
      BY <2>2, <2>3, Zenon DEF Scanned
  <2>5. AfterChar(c, x) = "within"
      BY <1>3 DEF AfterChar
  <2> QED BY <2>1, <2>4, <2>5, ScanStands
<1> QED BY <1>1, <1>2, <1>3 DEF ScanStates

LEMMA ShutEnds ==
    ASSUME NEW p \in Nat
    PROVE  Scanned(Char(Shut), Scan(p, "between")).depth = 0 /\ Scanned(Char(Shut), Scan(p, "between")).at = p + 1
<1> DEFINE t == [at |-> p, depth |-> 1, inString |-> FALSE, escaped |-> FALSE]
           u == [t EXCEPT !.at = @ + 1, !.inString = FALSE, !.depth = @ - 1]
<1>1. Scan(p, "between") = t /\ t.inString = FALSE
    BY ScanStands
<1>2. Char(Shut) # Char(Open) /\ (Char(Shut) = Char(Quote)) = FALSE
    BY MarksDiffer, CharsDiffer
<1>3. Scanned(Char(Shut), t) = u
    BY <1>1, <1>2, Zenon DEF Scanned
<1>4. u.depth = 0 /\ u.at = p + 1
    OBVIOUS
<1> QED BY <1>1, <1>3, <1>4, Zenon

\* A text within braces that leads from nothing to nothing is read as an object.
LEMMA ObjectIs ==
    ASSUME NEW line \in Line, NEW i \in Nat \ {0}, NEW mid \in Seq(Symbols), Leads(mid, "between", "between"),
           NEW object, object = <<Open>> \o mid \o <<Shut>>, IsAt(line, i, Chars(object))
    PROVE  ReadObject(line, i) = i + Len(object)
<1> DEFINE L == Len(line)
           M == Len(mid)
           a == <<Open>> \o mid
<1>1. L \in Nat /\ M \in Nat /\ <<Open>> \in Seq(Symbols) /\ <<Shut>> \in Seq(Symbols)
    BY OwnSymbols, ShortTexts DEF Line
<1>2. a \in Seq(Symbols) /\ Len(a) = M + 1 /\ a[1] = Open /\ \A k \in 1 .. M : a[k + 1] = mid[k]
    BY <1>1
<1>3. /\ object \in Seq(Symbols) /\ Len(object) = M + 2 /\ object[M + 2] = Shut
      /\ \A k \in 1 .. M + 1 : object[k] = a[k]
  <2> HIDE DEF a
  <2>1. object = a \o <<Shut>>
      BY DEF a
  <2> QED BY <1>1, <1>2, <2>1
<1> HIDE DEF a
<1>4. \A k \in 1 .. M + 2 : i + k - 1 \in 1 .. L /\ line[i + k - 1] = Char(object[k])
  <2>1. Chars(object) \in Line /\ Len(Chars(object)) = M + 2 /\ \A k \in 1 .. M + 2 : Chars(object)[k] = Char(object[k])
      BY <1>3, TextsAreTexts
  <2>2. \A c \in Line : DOMAIN c = 1 .. Len(c)
      BY DEF Line
  <2> QED BY <2>1, <2>2 DEF IsAt
<1> HIDE DEF L, M
<1>5. line[i] = Char(Open) /\ i \in 1 .. L
  <2>1. 1 \in 1 .. M + 2 /\ 1 \in 1 .. M + 1 /\ i + 1 - 1 = i
      BY <1>1
  <2> QED BY <1>2, <1>3, <1>4, <2>1
<1>6. \A k \in 1 .. M : i + k \in 1 .. L /\ line[i + k] = Char(mid[k])
  <2> TAKE k \in 1 .. M
  <2>1. k + 1 \in 1 .. M + 2 /\ k + 1 \in 1 .. M + 1 /\ i + (k + 1) - 1 = i + k
      BY <1>1
  <2> QED BY <1>2, <1>3, <1>4, <2>1, SMTT(30)
<1>7. i + M + 1 \in 1 .. L /\ line[i + M + 1] = Char(Shut)
  <2>1. M + 2 \in 1 .. M + 2 /\ i + (M + 2) - 1 = i + M + 1
      BY <1>1
  <2> QED BY <1>3, <1>4, <2>1
<1>8. PICK g \in [0 .. M -> ScanStates] : g[0] = "between" /\ g[M] = "between" /\ LeadsBy(mid, g)
    BY DEF Leads, M
<1> DEFINE end == Scanned(Char(Shut), Scan(i + M + 1, "between"))
           More(t) == IF t.depth = 0 \/ t.at > L THEN t ELSE Scanned(line[t.at], t)
           first == [at |-> i + 1, depth |-> 1, inString |-> FALSE, escaped |-> FALSE]
           f == [n \in 0 .. L |-> IF n <= M THEN Scan(i + 1 + n, g[n]) ELSE end]
           e == CHOOSE s : s = [n \in 0 .. L |-> IF n = 0 THEN first ELSE More(s[n - 1])]
<1>9. ObjectEnd(line, i) = e[L].at
    BY DEF ObjectEnd, L
<1>10. end.depth = 0 /\ end.at = i + M + 2
  <2>1. i + M + 1 \in Nat /\ (i + M + 1) + 1 = i + M + 2
      BY <1>1
  <2> QED BY <2>1, ShutEnds
<1>11. f[0] = first
  <2>1. f[0] = Scan(i + 1, g[0])
      BY <1>1
  <2> QED BY <1>8, <2>1, ScanStands, Zenon
<1>12. (\A n \in 0 .. L : n <= M => f[n] = Scan(i + 1 + n, g[n])) /\ (\A n \in 0 .. L : ~ (n <= M) => f[n] = end)
    OBVIOUS
<1>13. f = [n \in 0 .. L |-> f[n]]
    OBVIOUS
<1> HIDE DEF f, end, first
<1>14. \A p, x : Scan(p, x).depth = 1 /\ Scan(p, x).at = p
    BY DEF Scan
<1>15. ASSUME NEW n \in 1 .. L PROVE f[n] = More(f[n - 1])
  <2>1. n \in 0 .. L /\ n - 1 \in 0 .. L /\ i + 1 + (n - 1) = i + n /\ i + n + 1 = i + 1 + n /\ i + n \in Nat
      BY <1>1
  <2>2. CASE n <= M
    <3>1. n \in 1 .. M /\ n - 1 <= M
        BY <1>1, <2>2
    <3>2. g[n] = AfterChar(mid[n], g[n - 1]) /\ (g[n - 1] = "between" => mid[n] \notin {Open, Shut})
        BY <1>8, <3>1 DEF LeadsBy, M
    <3>3. g[n - 1] \in ScanStates
        BY <1>1, <1>8, <3>1
    <3>4. f[n - 1] = Scan(i + n, g[n - 1]) /\ f[n] = Scan(i + n + 1, g[n])
        BY <1>12, <2>1, <2>2, <3>1
    <3>5. f[n - 1].depth = 1 /\ f[n - 1].at = i + n /\ i + n <= L /\ line[i + n] = Char(mid[n])
        BY <1>6, <1>14, <3>1, <3>4
    <3>6. ~ (f[n - 1].depth = 0 \/ f[n - 1].at > L)
        BY <1>1, <2>1, <3>5
    <3>7. More(f[n - 1]) = Scanned(Char(mid[n]), f[n - 1])
        BY <3>5, <3>6
    <3>8. Scanned(Char(mid[n]), Scan(i + n, g[n - 1])) = Scan(i + n + 1, AfterChar(mid[n], g[n - 1]))
        BY <2>1, <3>2, <3>3, ScannedIs
    <3> HIDE DEF More
    <3> QED BY <3>2, <3>4, <3>7, <3>8
  <2>3. CASE n = M + 1
    <3>1. n - 1 = M /\ n - 1 <= M /\ ~ (n <= M) /\ i + n = i + M + 1
        BY <1>1, <2>3
    <3>2. f[n] = end
        BY <1>12, <2>1, <3>1
    <3>3. f[n - 1] = Scan(i + M + 1, g[n - 1]) /\ g[n - 1] = "between"
        BY <1>8, <1>12, <2>1, <3>1
    <3>5. f[n - 1].depth = 1 /\ f[n - 1].at = i + M + 1
        BY <1>14, <3>3
    <3>6. ~ (f[n - 1].depth = 0 \/ f[n - 1].at > L)
        BY <1>1, <1>7, <3>5
    <3>7. More(f[n - 1]) = Scanned(Char(Shut), f[n - 1])
        BY <1>7, <3>5, <3>6
    <3> HIDE DEF More
    <3> QED BY <3>2, <3>3, <3>7 DEF end
  <2>4. CASE n > M + 1
    <3>1. ~ (n - 1 <= M) /\ ~ (n <= M)
        BY <1>1, <2>4
    <3>2. f[n] = end /\ f[n - 1] = end
        BY <1>12, <2>1, <3>1
    <3>3. More(f[n - 1]) = f[n - 1]
        BY <1>10, <3>2
    <3> HIDE DEF More
    <3> QED BY <3>2, <3>3
  <2> QED BY <1>1, <2>2, <2>3, <2>4
<1> HIDE DEF More
<1>16. f = [n \in 0 .. L |-> IF n = 0 THEN first ELSE More(f[n - 1])]
  <2>1. \A n \in 0 .. L : n = 0 \/ n \in 1 .. L
      BY <1>1
  <2> QED BY <1>11, <1>13, <1>15, <2>1
<1>17. e = [n \in 0 .. L |-> IF n = 0 THEN first ELSE More(e[n - 1])]
    BY <1>16
<1> HIDE DEF e
<1>18. e[0] = first /\ \A n \in 1 .. L : e[n] = More(e[n - 1])
    BY <1>1, <1>17
<1>19. e[L] = f[L]
  <2>1. AgreeStepwise(e, f, L)
      BY <1>11, <1>15, <1>18 DEF AgreeStepwise
  <2> QED BY <1>1, <2>1, StepsAgree
<1>20. f[L] = end
  <2>1. L \in 0 .. L /\ ~ (L <= M)
      BY <1>1, <1>7
  <2> QED BY <1>12, <2>1
<1>21. At(line, i) = Char(Open)
    BY <1>5 DEF At, Line, L
<1>22. ReadObject(line, i) = i + M + 2
  <2>1. ReadObject(line, i) = ObjectEnd(line, i)
      BY <1>21 DEF ReadObject
  <2> QED BY <1>9, <1>10, <1>19, <1>20, <2>1
<1>23. i + M + 2 = i + (M + 2)
    BY <1>1
<1> QED BY <1>3, <1>22, <1>23, Zenon

\* One character is read back from what it was escaped to.
LEMMA ReadOnIs ==
    ASSUME NEW object \in Seq(Symbols), NEW c \in Symbols, NEW p \in Nat \ {0}, IsAt(object, p, Escaped(c)), NEW value
    PROVE  ReadOn(object, [at |-> p, value |-> value]) = [at |-> p + Len(Escaped(c)), value |-> Append(value, c)]
<1> DEFINE t == [at |-> p, value |-> value]
<1>1. t.at = p /\ t.value = value /\ Len(object) \in Nat /\ DOMAIN object = 1 .. Len(object)
    OBVIOUS
<1>2. Escape # Quote
    BY MarksDiffer
<1>3. CASE Escaped(c) = <<c>> /\ c # Quote /\ c # Escape
  <2>1. Len(<<c>>) = 1 /\ 1 \in DOMAIN <<c>> /\ <<c>>[1] = c /\ p + 1 - 1 = p
      OBVIOUS
  <2>2. p \in DOMAIN object /\ object[p] = c
      BY <1>3, <2>1 DEF IsAt
  <2>3. ~ (t.at > Len(object) \/ object[t.at] = Quote) /\ object[t.at] # Escape
      BY <1>1, <1>3, <2>2
  <2> HIDE DEF t
  <2>4. ReadOn(object, t) = [at |-> t.at + 1, value |-> Append(t.value, object[t.at])]
      BY <2>3 DEF ReadOn
  <2>5. p + Len(Escaped(c)) = p + 1
      BY <1>3, <2>1
  <2> QED BY <1>1, <2>2, <2>4, <2>5 DEF t
<1>4. ASSUME NEW e \in Symbols, Escaped(c) = <<Escape, e>>, Unescaped(e) = c
      PROVE  ReadOn(object, t) = [at |-> p + Len(Escaped(c)), value |-> Append(value, c)]
  <2>1. /\ Len(<<Escape, e>>) = 2 /\ 1 \in DOMAIN <<Escape, e>> /\ 2 \in DOMAIN <<Escape, e>> /\ <<Escape, e>>[1] = Escape
        /\ <<Escape, e>>[2] = e /\ p + 1 - 1 = p /\ p + 2 - 1 = p + 1
      OBVIOUS
  <2>2. p \in DOMAIN object /\ object[p] = Escape /\ p + 1 \in DOMAIN object /\ object[p + 1] = e
      BY <1>4, <2>1 DEF IsAt
  <2>3. ~ (t.at > Len(object) \/ object[t.at] = Quote) /\ object[t.at] = Escape /\ t.at < Len(object)
      BY <1>1, <1>2, <2>2
  <2> HIDE DEF t
  <2>4. ReadOn(object, t) = [at |-> t.at + 2, value |-> Append(t.value, Unescaped(object[t.at + 1]))]
      BY <2>3 DEF ReadOn
  <2>5. p + Len(Escaped(c)) = p + 2
      BY <1>4, <2>1
  <2> QED BY <1>1, <1>4, <2>2, <2>4, <2>5
<1> QED BY <1>3, <1>4, EscapedIs

\* A value is read back to its quote.
LEMMA ValueIs ==
    ASSUME NEW object \in Seq(Symbols), NEW i \in Nat \ {0}, NEW v \in Seq(Symbols), NEW j, j = i + Len(EscapedText(v)),
           IsAt(object, i, EscapedText(v)), j \in 1 .. Len(object), object[j] = Quote
    PROVE  ReadValue(object, i) = [at |-> j, value |-> v]
<1> DEFINE L == Len(object)
           N == Len(v)
<1>1. L \in Nat /\ N \in Nat
    OBVIOUS
<1>2. PICK h \in [0 .. N -> Seq(Symbols)] :
          /\ h[0] = <<>> /\ \A n \in 1 .. N : h[n] = h[n - 1] \o Escaped(v[n])
          /\ EscapedText(v) = h[N]
    BY EscapedStepwise
<1>3. \A n \in 1 .. N : v[n] \in Symbols /\ Append(SubSeq(v, 1, n - 1), v[n]) = SubSeq(v, 1, n)
  <2> TAKE n \in 1 .. N
  <2>1. n - 1 \in Nat /\ (n - 1) + 1 = n /\ n <= Len(v) /\ v[n] \in Symbols
      OBVIOUS
  <2> HIDE DEF N
  <2>2. Append(SubSeq(v, 1, n - 1), v[(n - 1) + 1]) = SubSeq(v, 1, (n - 1) + 1)
      BY <2>1, PrefixGrows
  <2> QED BY <2>1, <2>2
<1>4. SubSeq(v, 1, 0) = <<>> /\ SubSeq(v, 1, N) = v
    OBVIOUS
<1>5. L >= 1 /\ j <= L
    BY <1>1
<1> HIDE DEF L, N
<1>6. \A n \in 1 .. N : /\ n - 1 \in 0 .. N /\ n \in 0 .. N /\ h[n - 1] \in Seq(Symbols) /\ h[n] \in Seq(Symbols)
                        /\ Escaped(v[n]) \in Seq(Symbols) /\ Len(Escaped(v[n])) >= 1 /\ Len(Escaped(v[n])) \in Nat
  <2> TAKE n \in 1 .. N
  <2>1. n - 1 \in 0 .. N /\ n \in 0 .. N /\ v[n] \in Symbols
      BY <1>1, <1>3
  <2>2. Escaped(v[n]) \in Seq(Symbols) /\ Len(Escaped(v[n])) >= 1 /\ Len(Escaped(v[n])) \in Nat
    <3>1. \A a, b : Len(<<a>>) = 1 /\ Len(<<a, b>>) = 2
        OBVIOUS
    <3>2. PICK c \in Symbols : c = v[n]
        BY <2>1
    <3>3. Len(Escaped(c)) \in {1, 2}
      <4>1. CASE Escaped(c) = <<c>>
          BY <3>1, <4>1
      <4>2. ASSUME NEW e, Escaped(c) = <<Escape, e>> PROVE Len(Escaped(c)) \in {1, 2}
          BY <3>1, <4>2
      <4> QED BY <4>1, <4>2, EscapedIs
    <3>4. Escaped(c) \in Seq(Symbols) /\ Len(Escaped(c)) >= 1 /\ Len(Escaped(c)) \in Nat
      <4>1. \A m \in {1, 2} : m >= 1 /\ m \in Nat
          OBVIOUS
      <4>2. Escaped(c) \in Seq(Symbols)
          BY EscapedIs
      <4> QED BY <3>3, <4>1, <4>2
    <3> QED BY <3>2, <3>4, Zenon
  <2> QED BY <1>2, <2>1, <2>2
<1>7. \A n \in 0 .. N : Len(h[n]) \in Nat /\ Len(h[n]) >= n
  <2> DEFINE T == {n \in Nat : n <= N => Len(h[n]) \in Nat /\ Len(h[n]) >= n}
  <2>1. 0 \in T
    <3>1. Len(<<>>) = 0
        OBVIOUS
    <3> QED BY <1>2, <3>1
  <2>2. ASSUME NEW n \in Nat, n \in T PROVE n + 1 \in T
    <3> SUFFICES ASSUME n + 1 <= N PROVE Len(h[n + 1]) \in Nat /\ Len(h[n + 1]) >= n + 1
        OBVIOUS
    <3>1. n + 1 \in 1 .. N /\ (n + 1) - 1 = n /\ n <= N
        BY <1>1
    <3>2. h[n + 1] = h[n] \o Escaped(v[n + 1]) /\ h[n] \in Seq(Symbols) /\ Escaped(v[n + 1]) \in Seq(Symbols)
        BY <1>2, <1>6, <3>1
    <3>3. Len(h[n + 1]) = Len(h[n]) + Len(Escaped(v[n + 1])) /\ Len(h[n]) >= n /\ Len(h[n]) \in Nat
      <4>1. \A x, y \in Seq(Symbols) : Len(x \o y) = Len(x) + Len(y)
          OBVIOUS
      <4> QED BY <2>2, <3>1, <3>2, <4>1
    <3>4. Len(Escaped(v[n + 1])) \in Nat /\ Len(Escaped(v[n + 1])) >= 1
        BY <1>6, <3>1
    <3>5. \A a, b, c \in Nat : a >= n /\ b >= 1 /\ c = a + b => c \in Nat /\ c >= n + 1
        OBVIOUS
    <3>6. Len(h[n + 1]) \in Nat
      <4>1. \A x \in Seq(Symbols) : Len(x) \in Nat
          OBVIOUS
      <4> QED BY <1>2, <3>1, <4>1
    <3> QED BY <3>3, <3>4, <3>5, <3>6
  <2> HIDE DEF T
  <2>3. Nat \subseteq T
      BY <2>1, <2>2, NatFromZero
  <2> QED BY <1>1, <2>3 DEF T
<1>8. \A n \in 0 .. N : IsAt(object, i, h[n])
  <2> DEFINE T == {m \in Nat : m <= N => IsAt(object, i, h[N - m])}
  <2>1. 0 \in T
    <3>1. N - 0 = N
        BY <1>1
    <3> QED BY <1>2, <3>1
  <2>2. ASSUME NEW m \in Nat, m \in T PROVE m + 1 \in T
    <3> SUFFICES ASSUME m + 1 <= N PROVE IsAt(object, i, h[N - (m + 1)])
        OBVIOUS
    <3>1. PICK n \in 1 .. N : n = N - m
        BY <1>1
    <3>2. n - 1 = N - (m + 1) /\ m <= N
        BY <1>1, <3>1
    <3>3. IsAt(object, i, h[n])
        BY <2>2, <3>1, <3>2
    <3>4. IsAt(object, i, h[n - 1] \o Escaped(v[n]))
        BY <1>2, <3>3
    <3>5. IsAt(object, i, h[n - 1])
        BY <1>6, <3>4, AtJoined
    <3> QED BY <3>2, <3>5
  <2> HIDE DEF T
  <2>3. Nat \subseteq T
      BY <2>1, <2>2, NatFromZero
  <2>4. \A n \in 0 .. N : N - n \in Nat /\ N - n <= N /\ N - (N - n) = n
      BY <1>1
  <2> QED BY <2>3, <2>4 DEF T
<1> DEFINE Stand(n) == [at |-> i + Len(h[n]), value |-> SubSeq(v, 1, n)]
           first == [at |-> i, value |-> <<>>]
           f == [n \in 0 .. L |-> IF n <= N THEN Stand(n) ELSE Stand(N)]
           e == CHOOSE s : s = [n \in 0 .. L |-> IF n = 0 THEN first ELSE ReadOn(object, s[n - 1])]
<1>9. ReadValue(object, i) = e[L]
    BY DEF ReadValue, L
<1>10. Stand(N) = [at |-> j, value |-> v]
    BY <1>2, <1>4
<1>11. Stand(0) = first
  <2>1. Len(<<>>) = 0 /\ i + 0 = i
      OBVIOUS
  <2> QED BY <1>2, <1>4, <2>1
<1>12. ASSUME NEW n \in 1 .. N PROVE Stand(n) = ReadOn(object, Stand(n - 1))
  <2>1. IsAt(object, i, h[n - 1] \o Escaped(v[n]))
      BY <1>2, <1>6, <1>8
  <2>2. IsAt(object, i + Len(h[n - 1]), Escaped(v[n]))
      BY <1>6, <2>1, AtJoined
  <2>3. i + Len(h[n - 1]) \in Nat \ {0}
      BY <1>6, <1>7
  <2>4. ReadOn(object, Stand(n - 1)) = [at |-> i + Len(h[n - 1]) + Len(Escaped(v[n])), value |-> Append(SubSeq(v, 1, n - 1), v[n])]
    <3>1. PICK p \in Nat \ {0} : p = i + Len(h[n - 1])
        BY <2>3
    <3>2. PICK value : value = SubSeq(v, 1, n - 1)
        OBVIOUS
    <3>3. IsAt(object, p, Escaped(v[n])) /\ v[n] \in Symbols
        BY <1>3, <2>2, <3>1
    <3>4. ReadOn(object, [at |-> p, value |-> value]) = [at |-> p + Len(Escaped(v[n])), value |-> Append(value, v[n])]
        BY <3>3, ReadOnIs
    <3> QED BY <3>1, <3>2, <3>4, Zenon
  <2>5. i + Len(h[n - 1]) + Len(Escaped(v[n])) = i + Len(h[n])
    <3>1. \A x, y \in Seq(Symbols) : Len(x \o y) = Len(x) + Len(y)
        OBVIOUS
    <3>2. Len(h[n]) = Len(h[n - 1]) + Len(Escaped(v[n]))
        BY <1>2, <1>6, <3>1
    <3>3. \A a, b \in Nat : i + a + b = i + (a + b)
        OBVIOUS
    <3>4. Len(h[n - 1]) \in Nat /\ Len(Escaped(v[n])) \in Nat
        BY <1>6, <1>7
    <3>5. i + Len(h[n - 1]) + Len(Escaped(v[n])) = i + (Len(h[n - 1]) + Len(Escaped(v[n])))
        BY <3>3, <3>4, Zenon
    <3> QED BY <3>2, <3>5, Zenon
  <2> QED BY <1>3, <2>4, <2>5
<1>13. ReadOn(object, Stand(N)) = Stand(N)
  <2>1. Stand(N).at = j /\ object[j] = Quote
      BY <1>10
  <2>2. Quote # Escape
      BY MarksDiffer
  <2> DEFINE t == Stand(N)
  <2> HIDE DEF Stand, t
  <2>3. t.at = j
      BY <2>1 DEF t
  <2>4. ReadOn(object, t) = t
      BY <2>1, <2>2, <2>3 DEF ReadOn
  <2> QED BY <2>4 DEF t
<1>14. N <= L
  <2>1. Len(h[N]) \in Nat /\ Len(h[N]) >= N
      BY <1>1, <1>7
  <2> QED BY <1>1, <1>2, <1>5, <2>1
<1>15. (\A n \in 0 .. L : n <= N => f[n] = Stand(n)) /\ (\A n \in 0 .. L : ~ (n <= N) => f[n] = Stand(N))
    OBVIOUS
<1>16. f = [n \in 0 .. L |-> f[n]]
    OBVIOUS
<1> HIDE DEF f, first, Stand
<1>17. f[0] = first
    BY <1>1, <1>11, <1>15
<1>18. ASSUME NEW n \in 1 .. L PROVE f[n] = ReadOn(object, f[n - 1])
  <2>1. n \in 0 .. L /\ n - 1 \in 0 .. L
      BY <1>1
  <2>2. CASE n <= N
    <3>1. n \in 1 .. N /\ n - 1 <= N
        BY <1>1, <2>2
    <3> QED BY <1>12, <1>15, <2>1, <2>2, <3>1
  <2>3. CASE n = N + 1
    <3>1. n - 1 = N /\ n - 1 <= N /\ ~ (n <= N)
        BY <1>1, <2>3
    <3> QED BY <1>13, <1>15, <2>1, <3>1
  <2>4. CASE n > N + 1
    <3>1. ~ (n - 1 <= N) /\ ~ (n <= N)
        BY <1>1, <2>4
    <3> QED BY <1>13, <1>15, <2>1, <3>1
  <2> QED BY <1>1, <2>2, <2>3, <2>4
<1>19. f = [n \in 0 .. L |-> IF n = 0 THEN first ELSE ReadOn(object, f[n - 1])]
  <2>1. \A n \in 0 .. L : n = 0 \/ n \in 1 .. L
      BY <1>1
  <2> QED BY <1>16, <1>17, <1>18, <2>1
<1>20. e = [n \in 0 .. L |-> IF n = 0 THEN first ELSE ReadOn(object, e[n - 1])]
    BY <1>19
<1> HIDE DEF e
<1>21. e[0] = first /\ \A n \in 1 .. L : e[n] = ReadOn(object, e[n - 1])
    BY <1>1, <1>20
<1>22. e[L] = f[L]
  <2>1. AgreeStepwise(e, f, L)
      BY <1>17, <1>18, <1>21 DEF AgreeStepwise
  <2> QED BY <1>1, <2>1, StepsAgree
<1>23. f[L] = Stand(N)
  <2>1. L \in 0 .. L /\ (L <= N => L = N)
      BY <1>1, <1>14
  <2> QED BY <1>15, <2>1
<1> QED BY <1>9, <1>10, <1>22, <1>23

FieldKeys == {"type", "closing_whitespace", "level"}

LEMMA SymbolsAssociate ==
    \A a, b, c \in Seq(Symbols) : (a \o b) \o c = a \o (b \o c)
OBVIOUS
LEMMA OneAndMore ==
    ASSUME NEW T, NEW x \in Seq(T), NEW y \in Seq(T), Len(x) = 1
    PROVE  /\ x \o y \in Seq(T) /\ Len(x \o y) = Len(x) + Len(y) /\ (x \o y)[1] = x[1]
           /\ \A n \in 1 .. Len(y) : (x \o y)[Len(x) + n] = y[n]
<1>1. \A u, v \in Seq(T) :
        /\ u \o v \in Seq(T) /\ Len(u \o v) = Len(u) + Len(v) /\ (Len(u) = 1 => (u \o v)[1] = u[1])
        /\ \A n \in 1 .. Len(v) : (u \o v)[Len(u) + n] = v[n]
    OBVIOUS
<1> QED BY <1>1, Zenon

LEMMA LengthsAdd == \A a, b \in Seq(Symbols) : Len(a \o b) = Len(a) + Len(b) /\ Len(a) \in Nat /\ Len(b) \in Nat
OBVIOUS

LEMMA PartsAreAt ==
    ASSUME NEW a \in Seq(Symbols), NEW b \in Seq(Symbols), NEW c \in Seq(Symbols)
    PROVE  IsAt(a \o b \o c, Len(a) + 1, b)
<1> DEFINE s == a \o b \o c
<1>1. \A k \in 1 .. Len(b) : Len(a) + 1 + k - 1 \in DOMAIN s /\ s[Len(a) + 1 + k - 1] = b[k]
  <2>1. \A k \in 1 .. Len(b) : Len(a) + 1 + k - 1 = Len(a) + k
      OBVIOUS
  <2>2. \A k \in 1 .. Len(b) : Len(a) + k \in DOMAIN (a \o b) /\ (a \o b)[Len(a) + k] = b[k]
      OBVIOUS
  <2>3. \A n \in DOMAIN (a \o b) : n \in DOMAIN s /\ s[n] = (a \o b)[n]
      OBVIOUS
  <2> HIDE DEF s
  <2> QED BY <2>1, <2>2, <2>3
<1> QED BY <1>1 DEF IsAt

LEMMA NamedIs ==
    ASSUME NEW key
    PROVE  /\ Named(TRUE, key) = <<Quote, key, Quote, Colon, Quote>>
           /\ Named(FALSE, key) = <<Sep, Quote, key, Quote, Colon, Quote>>
<1>1. Named(TRUE, key) = <<>> \o <<Quote, key, Quote, Colon, Quote>> /\ Named(FALSE, key) = <<Sep>> \o <<Quote, key, Quote, Colon, Quote>>
    BY Zenon DEF Named
<1>2. ASSUME NEW q, NEW c, NEW s
      PROVE  <<>> \o <<q, key, q, c, q>> = <<q, key, q, c, q>> /\ <<s>> \o <<q, key, q, c, q>> = <<s, q, key, q, c, q>>
  <2> DEFINE T == {q, key, c, s}
             a == <<q, key, q, c, q>>
             b == <<s, q, key, q, c, q>>
             d == <<s>> \o a
  <2>1. /\ a \in Seq(T) /\ Len(a) = 5 /\ a[1] = q /\ a[2] = key /\ a[3] = q /\ a[4] = c /\ a[5] = q
        /\ <<s>> \in Seq(T) /\ Len(<<s>>) = 1 /\ <<s>>[1] = s
      OBVIOUS
  <2>2. b \in Seq(T) /\ Len(b) = 6 /\ b[1] = s /\ b[2] = q /\ b[3] = key /\ b[4] = q /\ b[5] = c /\ b[6] = q
      OBVIOUS
  <2> HIDE DEF a, b, T
  <2>3. <<>> \o a = a
      BY <2>1
  <2>4. d \in Seq(T) /\ Len(d) = 6 /\ d[1] = s /\ d[2] = a[1] /\ d[3] = a[2] /\ d[4] = a[3] /\ d[5] = a[4] /\ d[6] = a[5]
    <3>1. d \in Seq(T) /\ Len(d) = 1 + Len(a) /\ d[1] = s /\ \A n \in 1 .. Len(a) : d[1 + n] = a[n]
      <4>2. PICK x : x = <<s>>
          OBVIOUS
      <4>3. d = x \o a /\ x \in Seq(T) /\ Len(x) = 1 /\ x[1] = s
          BY <2>1, <4>2
      <4> HIDE DEF d
      <4>4. d \in Seq(T) /\ Len(d) = Len(x) + Len(a) /\ d[1] = s /\ \A n \in 1 .. Len(a) : d[Len(x) + n] = a[n]
        <5>1. x \in Seq(T) /\ a \in Seq(T) /\ Len(x) = 1
            BY <2>1, <4>3, Zenon
        <5>2. /\ (x \o a) \in Seq(T) /\ Len(x \o a) = Len(x) + Len(a) /\ (x \o a)[1] = x[1]
              /\ \A n \in 1 .. Len(a) : (x \o a)[Len(x) + n] = a[n]
            BY <5>1, OneAndMore
        <5> QED BY <4>3, <5>2, Zenon
      <4>5. Len(d) = 1 + Len(a)
          BY <4>3, <4>4, Zenon
      <4>6. \A n \in 1 .. Len(a) : d[1 + n] = a[n]
          BY <4>3, <4>4, Zenon
      <4> QED BY <4>4, <4>5, <4>6, Zenon
    <3>2. 1 + 1 = 2 /\ 1 + 2 = 3 /\ 1 + 3 = 4 /\ 1 + 4 = 5 /\ 1 + 5 = 6 /\ {1, 2, 3, 4, 5} = 1 .. 5
        OBVIOUS
    <3>3. d[1 + 1] = a[1] /\ d[1 + 2] = a[2] /\ d[1 + 3] = a[3] /\ d[1 + 4] = a[4] /\ d[1 + 5] = a[5]
      <4>1. Len(a) = 5 /\ 1 \in 1 .. 5 /\ 2 \in 1 .. 5 /\ 3 \in 1 .. 5 /\ 4 \in 1 .. 5 /\ 5 \in 1 .. 5
          BY <2>1
      <4> HIDE DEF d
      <4> QED BY <3>1, <4>1
    <3> HIDE DEF d
    <3> QED BY <2>1, <3>1, <3>2, <3>3
  <2> HIDE DEF d
  <2>5. \A n \in 1 .. 6 : d[n] = b[n]
      BY <2>1, <2>2, <2>4
  <2>6. d = b
      BY <2>2, <2>4, <2>5
  <2> QED BY <2>3, <2>6, Zenon DEF a, b, d
<1> QED BY <1>1, <1>2, Zenon

\* One key is not another, and none is the end of the object.
LEMMA NamesDiffer ==
    ASSUME NEW object, NEW i \in Nat, NEW first \in BOOLEAN, NEW key, IsAt(object, i, Named(first, key))
    PROVE  /\ object[i] # Shut
           /\ \A other : IsAt(object, i, Named(first, other)) => other = key
<1>1. \A k : /\ \A n \in 1 .. 5 : n \in DOMAIN <<Quote, k, Quote, Colon, Quote>>
             /\ \A n \in 1 .. 6 : n \in DOMAIN <<Sep, Quote, k, Quote, Colon, Quote>>
             /\ <<Quote, k, Quote, Colon, Quote>>[1] = Quote /\ <<Quote, k, Quote, Colon, Quote>>[2] = k
             /\ <<Sep, Quote, k, Quote, Colon, Quote>>[1] = Sep /\ <<Sep, Quote, k, Quote, Colon, Quote>>[3] = k
    OBVIOUS
<1>2. i + 1 - 1 = i /\ i + 2 - 1 = i + 1 /\ i + 3 - 1 = i + 2 /\ 1 \in 1 .. 5 /\ 2 \in 1 .. 5 /\ 1 \in 1 .. 6 /\ 3 \in 1 .. 6
    OBVIOUS
<1>3. Quote # Shut /\ Sep # Shut
    BY MarksDiffer
<1>4. \A k : IsAt(object, i, <<Quote, k, Quote, Colon, Quote>>) => object[i] = Quote /\ object[i + 1] = k
    BY <1>1, <1>2 DEF IsAt
<1>5. \A k : IsAt(object, i, <<Sep, Quote, k, Quote, Colon, Quote>>) => object[i] = Sep /\ object[i + 2] = k
    BY <1>1, <1>2 DEF IsAt
<1>6. CASE first = TRUE
  <2>1. \A k : Named(first, k) = <<Quote, k, Quote, Colon, Quote>>
      BY <1>6, NamedIs, Zenon
  <2>2. \A k : IsAt(object, i, Named(first, k)) => object[i] = Quote /\ object[i + 1] = k
      BY <1>4, <2>1
  <2> QED BY <1>3, <2>2
<1>7. CASE first = FALSE
  <2>1. \A k : Named(first, k) = <<Sep, Quote, k, Quote, Colon, Quote>>
      BY <1>7, NamedIs, Zenon
  <2>2. \A k : IsAt(object, i, Named(first, k)) => object[i] = Sep /\ object[i + 2] = k
      BY <1>5, <2>1
  <2> QED BY <1>3, <2>2
<1> QED BY <1>6, <1>7

\* A field is read back, to where the next begins.
LEMMA FieldRead ==
    ASSUME NEW object \in Seq(Symbols), NEW i \in Nat \ {0}, NEW key \in FieldKeys, NEW values \in SUBSET Seq(Symbols),
           IsOptional(values), IsAt(object, i, Field(i = 2, key, values)), NEW j, j = i + Len(Field(i = 2, key, values)),
           values = {} => ~ IsAt(object, i, Named(i = 2, key))
    PROVE  ReadField(object, i, key) = [at |-> j, values |-> values]
<1> DEFINE first == i = 2
           name == Named(first, key)
           t == ReadValue(object, i + Len(name))
<1>1. ReadField(object, i, key) = IF IsAt(object, i, name) THEN [at |-> t.at + 1, values |-> {t.value}] ELSE [at |-> i, values |-> {}]
    BY DEF ReadField
<1>2. name \in Seq(Symbols) /\ <<Quote>> \in Seq(Symbols)
  <2>1. key \in Symbols /\ first \in BOOLEAN
      BY OwnSymbols DEF FieldKeys
  <2> HIDE DEF first
  <2> QED BY <2>1, FieldIsText, OwnSymbols, ShortTexts
<1>3. CASE values = {}
  <2>1. Field(i = 2, key, values) = <<>>
      BY <1>3 DEF Field
  <2>2. j = i
    <3>1. Len(<<>>) = 0 /\ i + 0 = i
        OBVIOUS
    <3> QED BY <2>1, <3>1
  <2> HIDE DEF t
  <2> QED BY <1>1, <1>3, <2>2
<1>4. CASE values # {}
  <2>1. PICK v \in values : TRUE
      BY <1>4
  <2>2. values = {v} /\ v \in Seq(Symbols) /\ The(values, <<>>) = v
      BY <2>1, TheIs DEF IsOptional
  <2> DEFINE text == EscapedText(v)
             close == <<Quote>>
             o == i + Len(name)
             c == o + Len(text)
  <2>3. text \in Seq(Symbols) /\ close \in Seq(Symbols) /\ Len(close) = 1 /\ close[1] = Quote
      BY <1>2, <2>2, TextsAreTexts
  <2>4. Field(i = 2, key, values) = (name \o text) \o close
      BY <1>4, <2>2, Zenon DEF Field
  <2> HIDE DEF text, close, name, t
  <2>5. /\ name \o text \in Seq(Symbols) /\ Len(name \o text) = Len(name) + Len(text)
        /\ Len((name \o text) \o close) = Len(name) + Len(text) + 1 /\ Len(name) \in Nat /\ Len(text) \in Nat
    <3>1. name \o text \in Seq(Symbols) /\ Len(name \o text) = Len(name) + Len(text) /\ Len(name) \in Nat /\ Len(text) \in Nat
        BY <1>2, <2>3, LengthsAdd, TextsJoin
    <3>2. Len((name \o text) \o close) = Len(name \o text) + Len(close)
        BY <2>3, <3>1, LengthsAdd
    <3> QED BY <2>3, <3>1, <3>2
  <2>6. IsAt(object, i, name \o text) /\ IsAt(object, i + Len(name \o text), close)
    <3>1. IsAt(object, i, (name \o text) \o close)
        BY <2>4
    <3> QED BY <2>3, <2>5, <3>1, AtJoined
  <2>7. IsAt(object, i, name) /\ IsAt(object, o, text)
      BY <1>2, <2>3, <2>6, AtJoined
  <2>8. o \in Nat \ {0} /\ c \in Nat \ {0} /\ i + Len(name \o text) = c /\ j = c + 1
    <3>1. j = i + (Len(name) + Len(text) + 1)
        BY <2>4, <2>5
    <3> QED BY <2>5, <3>1
  <2>9. c \in DOMAIN object /\ object[c] = Quote
    <3>1. 1 \in DOMAIN close /\ c + 1 - 1 = c
        BY <2>3, <2>8
    <3> QED BY <2>3, <2>6, <2>8, <3>1 DEF IsAt
  <2>10. c \in 1 .. Len(object)
      BY <2>9
  <2>11. t = [at |-> c, value |-> v]
    <3>1. ReadValue(object, o) = [at |-> c, value |-> v]
      <4> HIDE DEF o, c
      <4>1. c = o + Len(EscapedText(v)) /\ IsAt(object, o, EscapedText(v))
          BY <2>7 DEF c, text
      <4> QED BY <2>2, <2>8, <2>9, <2>10, <4>1, ValueIs
    <3> QED BY <3>1 DEF t
  <2>12. t.at + 1 = j /\ {t.value} = values
      BY <2>2, <2>8, <2>11
  <2> QED BY <1>1, <2>7, <2>12
<1> QED BY <1>3, <1>4

\* Where the first of two fields is missing, no key is that is not of the second.
LEMMA FieldHides ==
    ASSUME NEW object \in Seq(Symbols), NEW i \in Nat \ {0}, NEW key \in FieldKeys, NEW values \in SUBSET Seq(Symbols),
           IsAt(object, i, Field(i = 2, key, values)), NEW other, other # key,
           values = {} => ~ IsAt(object, i, Named(i = 2, other))
    PROVE  ~ IsAt(object, i, Named(i = 2, other))
<1> DEFINE first == i = 2
           name == Named(first, key)
           text == EscapedText(The(values, <<>>))
           close == <<Quote>>
<1>1. key \in Symbols /\ first \in BOOLEAN
    BY OwnSymbols DEF FieldKeys
<1> HIDE DEF first
<1> SUFFICES ASSUME values # {} PROVE ~ IsAt(object, i, Named(first, other))
    BY DEF first
<1>2. name \in Seq(Symbols) /\ text \in Seq(Symbols) /\ close \in Seq(Symbols)
  <2>1. The(values, <<>>) \in Seq(Symbols)
      BY TheIs
  <2> QED BY <1>1, <2>1, FieldIsText, OwnSymbols, ShortTexts, TextsAreTexts
<1>3. IsAt(object, i, (name \o text) \o close)
  <2>1. Field(first, key, values) = (name \o text) \o close
      BY Zenon DEF Field
  <2>2. IsAt(object, i, Field(first, key, values))
      BY DEF first
  <2> QED BY <2>1, <2>2, Zenon
<1> HIDE DEF name, text, close
<1>4. name \o text \in Seq(Symbols)
    BY <1>2, TextsJoin
<1>5. IsAt(object, i, name \o text)
    BY <1>2, <1>3, <1>4, AtJoined
<1>6. IsAt(object, i, name)
    BY <1>2, <1>5, AtJoined
<1> QED BY <1>1, <1>6, NamesDiffer DEF name

\* A format is read back from what is written of it, which is an object.
LEMMA FormatIsRead ==
    ASSUME NEW format \in Formats, IsOptional(format.whitespace)
    PROVE  /\ FormatOf(Json(format)) = format
           /\ \E mid \in Seq(Symbols) : Leads(mid, "between", "between") /\ Json(format) = <<Open>> \o mid \o <<Shut>>
<1> DEFINE T == TypeOf(format)
           W == format.whitespace
           V == LevelOf(format)
           open == <<Open>>
           shut == <<Shut>>
           a == With(open, "type", T)
           b == With(a, "closing_whitespace", W)
           c == With(b, "level", V)
           f == Field(Len(open) = 1, "type", T)
           g == Field(Len(a) = 1, "closing_whitespace", W)
           h == Field(Len(b) = 1, "level", V)
           object == c \o shut
<1>1. Json(format) = object
    BY DEF Json
<1>2. a = open \o f /\ b = a \o g /\ c = b \o h
    BY Zenon DEF With
<1>3. /\ T \in SUBSET Seq(Symbols) /\ W \in SUBSET Seq(Symbols) /\ V \in SUBSET Seq(Symbols)
      /\ IsOptional(T) /\ IsOptional(W) /\ IsOptional(V)
    BY DEF Formats, TypeOf, LevelOf, IsOptional
<1>4. open \in Seq(Symbols) /\ shut \in Seq(Symbols) /\ Len(open) = 1 /\ Len(shut) = 1 /\ shut[1] = Shut
    BY OwnSymbols, ShortTexts
<1>5. "type" \in FieldKeys /\ "closing_whitespace" \in FieldKeys /\ "level" \in FieldKeys /\ "type" # "closing_whitespace"
      /\ "type" # "level" /\ "closing_whitespace" # "level"
    BY DEF FieldKeys
<1>6. \A e \in BOOLEAN, key \in FieldKeys, values \in SUBSET Seq(Symbols) :
          Field(e, key, values) \in Seq(Symbols) /\ Leads(Field(e, key, values), "between", "between")
    BY FieldLeads DEF FieldKeys
<1> HIDE DEF T, W, V, open, shut
<1>7. f \in Seq(Symbols) /\ Leads(f, "between", "between")
    BY <1>3, <1>5, <1>6
<1>8. g \in Seq(Symbols) /\ Leads(g, "between", "between")
  <2> HIDE DEF a
  <2> QED BY <1>3, <1>5, <1>6
<1>9. h \in Seq(Symbols) /\ Leads(h, "between", "between")
  <2> HIDE DEF b
  <2> QED BY <1>3, <1>5, <1>6
<1> DEFINE fg == f \o g
           mid == fg \o h
           i == Len(a) + 1
           j == Len(b) + 1
           k == Len(c) + 1
<1> HIDE DEF a, b, c, f, g, h
<1>10. a \in Seq(Symbols) /\ Len(a) = 1 + Len(f) /\ Len(a) \in Nat /\ Len(f) \in Nat
    BY <1>2, <1>4, <1>7, LengthsAdd, TextsJoin
<1>11. b \in Seq(Symbols) /\ Len(b) = Len(a) + Len(g) /\ Len(b) \in Nat /\ Len(g) \in Nat
    BY <1>2, <1>8, <1>10, LengthsAdd, TextsJoin
<1>12. c \in Seq(Symbols) /\ Len(c) = Len(b) + Len(h) /\ Len(c) \in Nat /\ Len(h) \in Nat
    BY <1>2, <1>9, <1>11, LengthsAdd, TextsJoin
<1>13. object \in Seq(Symbols) /\ Len(object) = Len(c) + 1
  <2>1. object \in Seq(Symbols)
      BY <1>4, <1>12, TextsJoin, Zenon
  <2>2. Len(object) = Len(c) + Len(shut)
      BY <1>4, <1>12, LengthsAdd, Zenon
  <2> QED BY <1>4, <2>1, <2>2, Zenon
<1>14. fg \in Seq(Symbols) /\ Leads(fg, "between", "between")
    BY <1>7, <1>8, JoinedLeads, TextsJoin
<1>15. mid \in Seq(Symbols) /\ Leads(mid, "between", "between")
  <2> HIDE DEF fg
  <2> QED BY <1>9, <1>14, JoinedLeads, TextsJoin
<1>16. c = open \o mid
  <2>1. b = open \o fg
      BY <1>2, <1>4, <1>7, <1>8, SymbolsAssociate
  <2> HIDE DEF fg
  <2>2. (open \o fg) \o h = open \o mid
      BY <1>4, <1>9, <1>14, SymbolsAssociate
  <2> QED BY <1>2, <2>1, <2>2
<1>17. IsAt(object, 2, f)
  <2>1. object = (open \o f) \o (g \o (h \o shut))
    <3>1. h \o shut \in Seq(Symbols) /\ g \o (h \o shut) \in Seq(Symbols)
        BY <1>4, <1>8, <1>9, TextsJoin
    <3>2. (b \o h) \o shut = b \o (h \o shut)
        BY <1>4, <1>9, <1>11, SymbolsAssociate
    <3>3. (a \o g) \o (h \o shut) = a \o (g \o (h \o shut))
        BY <1>8, <1>10, <3>1, SymbolsAssociate
    <3> QED BY <1>2, <3>2, <3>3
  <2>2. g \o (h \o shut) \in Seq(Symbols)
      BY <1>4, <1>8, <1>9, TextsJoin
  <2>3. IsAt((open \o f) \o (g \o (h \o shut)), Len(open) + 1, f)
      BY <1>4, <1>7, <2>2, PartsAreAt
  <2>4. Len(open) + 1 = 2
      BY <1>4
  <2> HIDE DEF object
  <2> QED BY <2>1, <2>3, <2>4
<1>18. IsAt(object, i, g)
  <2>1. object = (a \o g) \o (h \o shut)
    <3>1. (b \o h) \o shut = b \o (h \o shut)
        BY <1>4, <1>9, <1>11, SymbolsAssociate
    <3> QED BY <1>2, <3>1
  <2>2. h \o shut \in Seq(Symbols)
      BY <1>4, <1>9, TextsJoin
  <2>3. IsAt((a \o g) \o (h \o shut), Len(a) + 1, g)
      BY <1>8, <1>10, <2>2, PartsAreAt
  <2> HIDE DEF object
  <2> QED BY <2>1, <2>3
<1>19. IsAt(object, j, h)
  <2>1. IsAt((b \o h) \o shut, Len(b) + 1, h)
      BY <1>4, <1>9, <1>11, PartsAreAt
  <2> QED BY <1>2, <2>1
<1>20. k \in DOMAIN object /\ object[k] = Shut /\ k \in Nat \ {0}
    BY <1>4, <1>12, <1>13
<1>21. i = 2 + Len(f) /\ j = i + Len(g) /\ k = j + Len(h) /\ i \in Nat \ {0} /\ j \in Nat \ {0}
    BY <1>10, <1>11, <1>12
<1>22. f = Field(2 = 2, "type", T) /\ g = Field(i = 2, "closing_whitespace", W) /\ h = Field(j = 2, "level", V)
  <2>1. (Len(open) = 1 <=> 2 = 2) /\ (Len(a) = 1 <=> i = 2) /\ (Len(b) = 1 <=> j = 2)
      BY <1>4, <1>10, <1>11
  <2> HIDE DEF i, j
  <2>2. (Len(open) = 1) = (2 = 2) /\ (Len(a) = 1) = (i = 2) /\ (Len(b) = 1) = (j = 2)
      BY <2>1, Zenon
  <2> QED BY <2>2, Zenon DEF f, g, h
<1> HIDE DEF object, i, j, k
<1>23. ASSUME NEW p \in Nat \ {0}, object[p] = Shut PROVE \A key : ~ IsAt(object, p, Named(p = 2, key))
  <2>1. (p = 2) \in BOOLEAN
      OBVIOUS
  <2> QED BY <1>23, <2>1, NamesDiffer
<1>24. (T = {} => i = 2) /\ (W = {} => j = i) /\ (V = {} => k = j)
  <2>1. \A values, key, e : values = {} => Field(e, key, values) = <<>>
      BY DEF Field
  <2>2. Len(<<>>) = 0
      OBVIOUS
  <2>3. (T = {} => Len(f) = 0) /\ (W = {} => Len(g) = 0) /\ (V = {} => Len(h) = 0)
      BY <2>1, <2>2 DEF f, g, h
  <2> QED BY <1>21, <2>3
<1>25. V = {} => ~ IsAt(object, j, Named(j = 2, "level"))
    BY <1>20, <1>21, <1>23, <1>24
<1>26. ReadField(object, j, "level") = [at |-> k, values |-> V]
  <2>1. IsAt(object, j, Field(j = 2, "level", V)) /\ k = j + Len(Field(j = 2, "level", V))
      BY <1>19, <1>21, <1>22
  <2>2. object \in Seq(Symbols) /\ j \in Nat \ {0} /\ "level" \in FieldKeys /\ V \in SUBSET Seq(Symbols) /\ IsOptional(V)
      BY <1>3, <1>5, <1>13, <1>21
  <2>3. PICK p \in Nat \ {0} : p = j
      BY <2>2
  <2>4. IsAt(object, p, Field(p = 2, "level", V)) /\ k = p + Len(Field(p = 2, "level", V))
        /\ (V = {} => ~ IsAt(object, p, Named(p = 2, "level")))
      BY <1>25, <2>1, <2>3, Zenon
  <2>5. ReadField(object, p, "level") = [at |-> k, values |-> V]
      BY <2>2, <2>4, FieldRead
  <2> QED BY <2>3, <2>5
<1>27. ASSUME NEW other, other # "level" PROVE ~ IsAt(object, j, Named(j = 2, other))
  <2>1. IsAt(object, j, Field(j = 2, "level", V))
      BY <1>19, <1>22
  <2>2. V = {} => ~ IsAt(object, j, Named(j = 2, other))
      BY <1>20, <1>21, <1>23, <1>24
  <2> QED BY <1>3, <1>5, <1>13, <1>21, <1>27, <2>1, <2>2, FieldHides
<1>28. ReadField(object, i, "closing_whitespace") = [at |-> j, values |-> W]
  <2>1. IsAt(object, i, Field(i = 2, "closing_whitespace", W)) /\ j = i + Len(Field(i = 2, "closing_whitespace", W))
      BY <1>18, <1>21, <1>22
  <2>2. W = {} => ~ IsAt(object, i, Named(i = 2, "closing_whitespace"))
      BY <1>5, <1>24, <1>27
  <2>3. object \in Seq(Symbols) /\ i \in Nat \ {0} /\ "closing_whitespace" \in FieldKeys /\ W \in SUBSET Seq(Symbols)
        /\ IsOptional(W)
      BY <1>3, <1>5, <1>13, <1>21
  <2>4. PICK p \in Nat \ {0} : p = i
      BY <2>3
  <2>5. IsAt(object, p, Field(p = 2, "closing_whitespace", W)) /\ j = p + Len(Field(p = 2, "closing_whitespace", W))
        /\ (W = {} => ~ IsAt(object, p, Named(p = 2, "closing_whitespace")))
      BY <2>1, <2>2, <2>4, Zenon
  <2>6. ReadField(object, p, "closing_whitespace") = [at |-> j, values |-> W]
      BY <2>3, <2>5, FieldRead
  <2> QED BY <2>4, <2>6
<1>29. ~ IsAt(object, i, Named(i = 2, "type"))
  <2>1. IsAt(object, i, Field(i = 2, "closing_whitespace", W))
      BY <1>18, <1>22
  <2>2. W = {} => ~ IsAt(object, i, Named(i = 2, "type"))
      BY <1>5, <1>24, <1>27
  <2> QED BY <1>3, <1>5, <1>13, <1>21, <2>1, <2>2, FieldHides
<1>30. ReadField(object, 2, "type") = [at |-> i, values |-> T]
  <2>1. IsAt(object, 2, Field(2 = 2, "type", T)) /\ i = 2 + Len(Field(2 = 2, "type", T)) /\ 2 \in Nat \ {0}
      BY <1>17, <1>21, <1>22
  <2>2. T = {} => ~ IsAt(object, 2, Named(2 = 2, "type"))
      BY <1>24, <1>29
  <2> QED BY <1>3, <1>5, <1>13, <2>1, <2>2, FieldRead
<1> DEFINE name == The(T, <<"utf8">>)
<1>31. FormatOf(object) = [name |-> IF Len(name) = 1 THEN name[1] ELSE "utf8", whitespace |-> W, metadata |-> The(V, <<>>)]
    BY <1>26, <1>28, <1>30 DEF FormatOf
<1>32. (IF Len(name) = 1 THEN name[1] ELSE "utf8") = format.name
  <2>1. \A x : Len(<<x>>) = 1 /\ <<x>>[1] = x
      OBVIOUS
  <2>2. name = <<format.name>>
    <3>1. CASE format.name = "utf8"
      <4>1. T = {}
          BY <3>1 DEF T, TypeOf
      <4> QED BY <3>1, <4>1, TheIs
    <3>2. CASE format.name # "utf8"
      <4>1. T = {<<format.name>>}
          BY <3>2 DEF T, TypeOf
      <4> QED BY <4>1, TheIs
    <3> QED BY <3>1, <3>2
  <2> QED BY <2>1, <2>2
<1>33. The(V, <<>>) = format.metadata
    BY TheIs DEF V, LevelOf
<1>34. format = [name |-> format.name, whitespace |-> W, metadata |-> format.metadata]
    BY DEF Formats, W
<1>35. FormatOf(object) = format
  <2> HIDE DEF name
  <2> QED BY <1>31, <1>32, <1>33, <1>34
<1>36. Json(format) = open \o mid \o shut
    BY <1>1, <1>16 DEF object
<1> HIDE DEF mid
<1> QED BY <1>1, <1>15, <1>35, <1>36 DEF open, shut, object

FormatText(format) ==
    IF IsDefault(format) THEN <<>> ELSE Chars(Key("format")) \o Chars(Json(format)) \o Chars(Comma)
DefaultFormat == [name |-> "utf8", whitespace |-> {}, metadata |-> <<>>]

LEMMA FormatTextIs ==
    ASSUME NEW line \in Line, NEW i \in Nat \ {0}, NEW s, s.format = DefaultFormat, s = [s EXCEPT !.format = s.format],
           NEW format \in Formats, IsOptional(format.whitespace), \A w \in format.whitespace : \A n \in DOMAIN w : w[n] \in Whitespace,
           IsAt(line, i, FormatText(format)), NEW end, end = i + Len(FormatText(format)),
           IsDefault(format) => At(line, i) # Char("format")
    PROVE  /\ WithFormat(line, [at |-> i, s |-> s]) = [at |-> end, s |-> [s EXCEPT !.format = format]]
           /\ end \in Nat \ {0} /\ (IsDefault(format) => end = i) /\ (~ IsDefault(format) => At(line, i) = Char("format"))
<1> DEFINE r == [at |-> i, s |-> s]
<1>1. r.at = i /\ r.s = s
    OBVIOUS
<1>2. CASE IsDefault(format)
  <2>1. WithFormat(line, r) = r
      BY <1>1, <1>2 DEF WithFormat, Has
  <2>2. FormatText(format) = <<>>
      BY <1>2 DEF FormatText
  <2>3. end = i
    <3>1. Len(<<>>) = 0 /\ i + 0 = i
        OBVIOUS
    <3> QED BY <2>2, <3>1
  <2>4. format = DefaultFormat
      BY <1>2 DEF IsDefault, Formats, DefaultFormat
  <2> QED BY <1>2, <2>1, <2>3, <2>4
<1>3. CASE ~ IsDefault(format)
  <2> DEFINE json == Json(format)
             a == Chars(Key("format"))
             b == Chars(json)
             z == Chars(Comma)
             o == i + Len(a)
             c == o + Len(b)
  <2>1. json \in Seq(Symbols) /\ Key("format") \in Seq(Symbols) /\ Key("format") # <<>> /\ Key("format")[1] = "format"
        /\ Comma \in Seq(Symbols) /\ Comma # <<>>
      BY JsonIsText, WordsAreTexts, OwnSymbols
  <2>2. a \in Line /\ b \in Line /\ z \in Line /\ Len(a) = Len(Key("format")) /\ Len(b) = Len(json) /\ Len(z) = Len(Comma)
      BY <2>1, TextsAreTexts
  <2>3. FormatText(format) = (a \o b) \o z
      BY <1>3 DEF FormatText
  <2> HIDE DEF a, b, z, json
  <2>4. a \o b \in Line /\ Len(a \o b) = Len(a) + Len(b) /\ Len(a) \in Nat /\ Len(b) \in Nat /\ Len(z) \in Nat
      BY <2>2, LinesJoin
  <2>5. Len((a \o b) \o z) = Len(a \o b) + Len(z)
      BY <2>2, <2>4, LinesJoin
  <2>6. o \in Nat \ {0} /\ c \in Nat \ {0} /\ c = i + Len(a \o b) /\ end = c + Len(z)
    <3>1. end = i + (Len(a) + Len(b) + Len(z))
        BY <2>3, <2>4, <2>5
    <3> QED BY <2>4, <3>1
  <2>7. IsAt(line, i, a \o b) /\ IsAt(line, c, z)
    <3>1. IsAt(line, i, (a \o b) \o z)
        BY <2>3
    <3>2. IsAt(line, i, a \o b) /\ IsAt(line, i + Len(a \o b), z)
        BY <2>2, <2>4, <3>1, AtJoined DEF Line
    <3> QED BY <2>6, <3>2, Zenon
  <2>8. IsAt(line, i, a) /\ IsAt(line, o, b)
      BY <2>2, <2>7, AtJoined DEF Line
  <2>9. Expect(line, i, Key("format")) = o /\ At(line, i) = Char("format")
      BY <2>1, <2>2, <2>8, ExpectIs DEF a
  <2>10. Expect(line, c, Comma) = end
      BY <2>1, <2>2, <2>6, <2>7, ExpectIs DEF z
  <2>11. /\ FormatOf(json) = format
         /\ \E mid \in Seq(Symbols) : Leads(mid, "between", "between") /\ json = <<Open>> \o mid \o <<Shut>>
      BY FormatIsRead DEF json
  <2>12. c = o + Len(json) /\ IsAt(line, o, Chars(json))
      BY <2>2, <2>8 DEF b
  <2>13. ReadObject(line, o) = c
    <3>1. PICK mid \in Seq(Symbols) : Leads(mid, "between", "between") /\ json = <<Open>> \o mid \o <<Shut>>
        BY <2>11
    <3>2. o \in Nat \ {0} /\ IsAt(line, o, Chars(json))
        BY <2>6, <2>12
    <3> HIDE DEF o, c
    <3> QED BY <2>12, <3>1, <3>2, ObjectIs
  <2>14. Text(line, o, c) = json
      BY <2>1, <2>6, <2>12, TextIs
  <2>15. IsFormat(json)
      BY <2>11 DEF IsFormat, json
  <2> HIDE DEF o, c, r
  <2>16. WithFormat(line, r) = FormatAt(line, r, o, c)
      BY <1>1, <2>9, <2>13 DEF WithFormat, Has
  <2>17. FormatAt(line, r, o, c) = [at |-> end, s |-> [s EXCEPT !.format = format]]
      BY <1>1, <2>10, <2>11, <2>14, <2>15 DEF FormatAt
  <2>18. end \in Nat \ {0}
      BY <2>4, <2>6
  <2> QED BY <1>3, <2>9, <2>16, <2>17, <2>18 DEF r
<1> QED BY <1>2, <1>3

LEMMA CharsAfter ==
    ASSUME NEW line \in Line, NEW i \in Nat \ {0}, NEW a \in Seq(Symbols), NEW b \in Seq(Symbols),
           IsAt(line, i, Chars(a)), NEW j, j = i + Len(a), IsAt(line, j, Chars(b))
    PROVE  a \o b \in Seq(Symbols) /\ Len(a \o b) = Len(a) + Len(b) /\ IsAt(line, i, Chars(a \o b))
<1> DEFINE c == a \o b
<1>1. /\ c \in Seq(Symbols) /\ Len(c) = Len(a) + Len(b) /\ Len(a) \in Nat /\ Len(b) \in Nat
      /\ \A n \in 1 .. Len(a) : c[n] = a[n]
      /\ \A n \in 1 .. Len(b) : c[Len(a) + n] = b[n]
    OBVIOUS
<1>2. \A s \in Seq(Symbols) : DOMAIN Chars(s) = 1 .. Len(s) /\ \A n \in 1 .. Len(s) : Chars(s)[n] = Char(s[n])
    BY TextsAreTexts DEF Chars
<1> HIDE DEF c
<1>3. ASSUME NEW n \in 1 .. Len(c) PROVE i + n - 1 \in DOMAIN line /\ line[i + n - 1] = Char(c[n])
  <2>1. CASE n \in 1 .. Len(a)
      BY <1>1, <1>2, <2>1 DEF IsAt
  <2>2. CASE n \notin 1 .. Len(a)
    <3>1. PICK m \in 1 .. Len(b) : n = Len(a) + m
      <4>1. n - Len(a) \in 1 .. Len(b) /\ n = Len(a) + (n - Len(a))
          BY <1>1, <2>2
      <4> QED BY <4>1
    <3>2. j + m - 1 = i + n - 1
        BY <1>1, <3>1
    <3>3. j + m - 1 \in DOMAIN line /\ line[j + m - 1] = Char(b[m])
        BY <1>2, <3>1 DEF IsAt
    <3>4. c[n] = b[m]
        BY <1>1, <3>1
    <3> QED BY <3>2, <3>3, <3>4
  <2> QED BY <2>1, <2>2
<1>4. IsAt(line, i, Chars(c))
    BY <1>1, <1>2, <1>3 DEF IsAt
<1> QED BY <1>1, <1>4 DEF c

LEMMA DigestOfIs == \A d \in Digests : IsDigest(DigestToken(d)) /\ DigestOf(DigestToken(d)) = d
<1> TAKE d \in Digests
<1>1. IsDigest(DigestToken(d))
    BY DEF IsDigest
<1> DEFINE e == DigestOf(DigestToken(d))
<1>2. e \in Digests /\ DigestToken(d) = DigestToken(e)
    BY <1>1 DEF DigestOf
<1>3. d \in Seq(Symbols) /\ e \in Seq(Symbols) /\ <<"sha1">> \in Seq(Symbols)
    BY <1>2, LinesAssumption, OwnSymbols, ShortTexts
<1> HIDE DEF e
<1>4. ASSUME NEW a \in Seq(Symbols), NEW x \in Seq(Symbols), NEW y \in Seq(Symbols), a \o x = a \o y PROVE x = y
  <2>1. Len(a \o x) = Len(a) + Len(x) /\ Len(a \o y) = Len(a) + Len(y) /\ Len(a) \in Nat /\ Len(x) \in Nat /\ Len(y) \in Nat
      BY LengthsAdd
  <2>2. Len(x) = Len(y)
      BY <1>4, <2>1
  <2>3. (\A n \in 1 .. Len(x) : (a \o x)[Len(a) + n] = x[n]) /\ \A n \in 1 .. Len(y) : (a \o y)[Len(a) + n] = y[n]
      OBVIOUS
  <2>4. \A n \in 1 .. Len(x) : x[n] = y[n]
      BY <1>4, <2>2, <2>3
  <2> QED BY <2>2, <2>4
<1>5. d = e
    BY <1>2, <1>3, <1>4 DEF DigestToken
<1> QED BY <1>1, <1>5 DEF e

\* The beginning of a line.
LEMMA DigestIs ==
    ASSUME NEW line \in Line, NEW d \in Digests, NEW token, token = DigestToken(d), token \in LineToken,
           IsAt(line, 1, Chars(Start)), NEW i, i = 1 + Len(Start), IsAt(line, i, Quoted("digest", <<token>>)),
           NEW end, end = i + Len(Quoted("digest", <<token>>))
    PROVE  /\ WithDigest(line, Expect(line, 1, Start \o Opening("digest"))) = [at |-> end, s |-> Blank(token)]
           /\ end \in Nat \ {0}
<1> DEFINE word == "digest"
           o == i + Len(Opening(word))
           a == Chars(Opening(word))
<1>1. Start \in Seq(Symbols) /\ Start # <<>> /\ Opening(word) \in Seq(Symbols) /\ word \in Symbols /\ Len(Start) \in Nat
    BY WordsAreTexts, OwnSymbols
<1>2. i \in Nat \ {0}
    BY <1>1
<1> HIDE DEF word
<1>3. o \in 1 .. Len(line) /\ At(line, o) = token /\ end \in Nat \ {0} /\ Expect(line, o + 1, Close) = end
  <2> HIDE DEF o
  <2> QED BY <1>1, <1>2, OneTokenIs DEF word, o
<1>4. IsAt(line, i, a)
  <2> DEFINE t == <<token>>
             z == Chars(Close)
  <2>1. t \in Line /\ z \in Line /\ a \in Line
      BY <1>1, TokensIn, WordsAreTexts, TextsAreTexts
  <2>2. IsAt(line, i, (a \o t) \o z)
      BY DEF Quoted, word
  <2> HIDE DEF t, z, a
  <2>3. a \o t \in Line
      BY <2>1, LinesJoin
  <2>4. IsAt(line, i, a \o t)
      BY <1>2, <2>1, <2>2, <2>3, AtJoined DEF Line
  <2> QED BY <1>2, <2>1, <2>4, AtJoined DEF Line
<1>5. /\ Start \o Opening(word) \in Seq(Symbols) /\ Len(Start \o Opening(word)) = Len(Start) + Len(Opening(word))
      /\ IsAt(line, 1, Chars(Start \o Opening(word)))
    BY <1>1, <1>4, CharsAfter
<1>6. Start \o Opening(word) # <<>>
  <2>1. Len(Start) # 0 /\ Len(Opening(word)) \in Nat /\ Len(<<>>) = 0
      BY <1>1
  <2> QED BY <1>1, <1>5, <2>1
<1>7. Expect(line, 1, Start \o Opening(word)) = o
  <2>1. 1 + (Len(Start) + Len(Opening(word))) = o
    <3>1. Len(Opening(word)) \in Nat
        BY <1>1
    <3> QED BY <1>1, <3>1
  <2>2. Expect(line, 1, Start \o Opening(word)) = 1 + Len(Start \o Opening(word))
    <3>1. PICK literal \in Seq(Symbols) : literal = Start \o Opening(word)
        BY <1>5
    <3>2. literal # <<>> /\ IsAt(line, 1, Chars(literal))
        BY <1>5, <1>6, <3>1, Zenon
    <3>3. Expect(line, 1, literal) = 1 + Len(literal)
        BY <3>2, ExpectIs
    <3> QED BY <3>1, <3>3, Zenon
  <2> QED BY <1>5, <2>1, <2>2
<1>8. IsDigest(token)
    BY DigestOfIs
<1> HIDE DEF o
<1>9. WithDigest(line, o) = [at |-> end, s |-> Blank(token)]
    BY <1>3, <1>8 DEF WithDigest
<1> QED BY <1>3, <1>7, <1>9 DEF word

\* The end of a line.
Whole(s, content) == [ok |-> TRUE, snapshot |-> [s EXCEPT !.content = content]]
LEMMA ContentIs ==
    ASSUME NEW line \in Line, NEW i \in Nat \ {0}, NEW s, NEW content \in Seq(Symbols),
           IsAt(line, i, Chars(Key("content"))), NEW o, o = i + Len(Key("content")), IsAt(line, o, Chars(content)),
           Len(line) = o + Len(content), line[Len(line)] = Char(Shut)
    PROVE  /\ Completed(line, [at |-> i, s |-> s]) = Whole(s, content)
           /\ At(line, i) = Char("content")
<1>1. Key("content") \in Seq(Symbols) /\ Key("content") # <<>> /\ Key("content")[1] = "content"
    BY WordsAreTexts, OwnSymbols
<1>2. Expect(line, i, Key("content")) = o /\ At(line, i) = Char("content") /\ o \in Nat \ {0}
    BY <1>1, ExpectIs
<1>3. o <= Len(line)
    BY <1>2
<1>4. Text(line, o, Len(line)) = content
    BY <1>2, TextIs
<1> DEFINE r == [at |-> i, s |-> s]
<1>5. r.at = i /\ r.s = s
    OBVIOUS
<1>6. ~ (o > Len(line) \/ line[Len(line)] # Char(Shut))
    BY <1>2, <1>3 DEF Line
<1> HIDE DEF r
<1>7. Completed(line, r) = WithContent(line, r, o)
    BY <1>2, <1>5 DEF Completed
<1>8. WithContent(line, r, o) = Whole(s, content)
    BY <1>4, <1>5, <1>6 DEF WithContent, Whole
<1> QED BY <1>2, <1>7, <1>8 DEF r

LEMMA OptionalAt ==
    ASSUME NEW line \in Line, NEW i \in Nat \ {0}, NEW word \in Symbols, NEW values \in SUBSET Line,
           IsAt(line, i, Optional(word, values)), NEW end, end = i + Len(Optional(word, values))
    PROVE  /\ end \in Nat \ {0}
           /\ values = {} => end = i
           /\ values # {} => At(line, i) = Char(word)
<1>1. CASE values = {}
  <2>1. Optional(word, values) = <<>>
      BY <1>1 DEF Optional
  <2>2. Len(<<>>) = 0 /\ i + 0 = i
      OBVIOUS
  <2> QED BY <1>1, <2>1, <2>2
<1>2. CASE values # {}
  <2> DEFINE t == The(values, <<>>)
  <2>1. t \in Line
      BY <1>2, TheIs
  <2>2. Optional(word, values) = Quoted(word, t)
      BY <1>2 DEF Optional
  <2> HIDE DEF t
  <2>3. IsAt(line, i, Quoted(word, t)) /\ end = i + Len(Quoted(word, t))
      BY <2>2, Zenon
  <2>4. PICK o, c : o = i + Len(Opening(word)) /\ c = o + Len(t)
      OBVIOUS
  <2>5. end \in Nat \ {0} /\ At(line, i) = Char(word)
      BY <2>1, <2>3, <2>4, QuotedIs
  <2> QED BY <1>2, <2>5
<1> QED BY <1>1, <1>2

\* What is known of a line when some of it has been read.
Known(d, e, t, u, f, c) == [digest |-> d, expected |-> e, timestamp |-> t, url |-> u, format |-> f, content |-> c]
LEMMA KnownGrows ==
    ASSUME NEW d, NEW e, NEW t, NEW u, NEW f, NEW c
    PROVE  /\ [Known(d, {}, {}, {}, DefaultFormat, <<>>) EXCEPT !.expected = e] = Known(d, e, {}, {}, DefaultFormat, <<>>)
           /\ [Known(d, e, {}, {}, DefaultFormat, <<>>) EXCEPT !.timestamp = t] = Known(d, e, t, {}, DefaultFormat, <<>>)
           /\ [Known(d, e, t, {}, DefaultFormat, <<>>) EXCEPT !.url = u] = Known(d, e, t, u, DefaultFormat, <<>>)
           /\ [Known(d, e, t, u, DefaultFormat, <<>>) EXCEPT !.format = f] = Known(d, e, t, u, f, <<>>)
           /\ [Known(d, e, t, u, f, <<>>) EXCEPT !.content = c] = Known(d, e, t, u, f, c)
           /\ Known(d, {}, {}, {}, DefaultFormat, <<>>).expected = {} /\ Known(d, e, {}, {}, DefaultFormat, <<>>).timestamp = {}
           /\ Known(d, e, t, {}, DefaultFormat, <<>>).url = {} /\ Known(d, e, t, u, DefaultFormat, <<>>).format = DefaultFormat
           /\ Known(d, e, t, u, DefaultFormat, <<>>) = [Known(d, e, t, u, DefaultFormat, <<>>) EXCEPT !.format = DefaultFormat]
<1> DEFINE x == DefaultFormat
           y == <<>>
<1> HIDE DEF x, y
<1>1. /\ [[digest |-> d, expected |-> {}, timestamp |-> {}, url |-> {}, format |-> x, content |-> y] EXCEPT !.expected = e]
            = [digest |-> d, expected |-> e, timestamp |-> {}, url |-> {}, format |-> x, content |-> y]
    OBVIOUS
<1>2. [[digest |-> d, expected |-> e, timestamp |-> {}, url |-> {}, format |-> x, content |-> y] EXCEPT !.timestamp = t]
            = [digest |-> d, expected |-> e, timestamp |-> t, url |-> {}, format |-> x, content |-> y]
    OBVIOUS
<1>3. [[digest |-> d, expected |-> e, timestamp |-> t, url |-> {}, format |-> x, content |-> y] EXCEPT !.url = u]
            = [digest |-> d, expected |-> e, timestamp |-> t, url |-> u, format |-> x, content |-> y]
    OBVIOUS
<1>4. /\ [[digest |-> d, expected |-> e, timestamp |-> t, url |-> u, format |-> x, content |-> y] EXCEPT !.format = f]
            = [digest |-> d, expected |-> e, timestamp |-> t, url |-> u, format |-> f, content |-> y]
      /\ [[digest |-> d, expected |-> e, timestamp |-> t, url |-> u, format |-> x, content |-> y] EXCEPT !.format = x]
            = [digest |-> d, expected |-> e, timestamp |-> t, url |-> u, format |-> x, content |-> y]
    OBVIOUS
<1>5. [[digest |-> d, expected |-> e, timestamp |-> t, url |-> u, format |-> f, content |-> y] EXCEPT !.content = c]
            = [digest |-> d, expected |-> e, timestamp |-> t, url |-> u, format |-> f, content |-> c]
    OBVIOUS
<1>6. /\ [digest |-> d, expected |-> {}, timestamp |-> {}, url |-> {}, format |-> x, content |-> y].expected = {}
      /\ [digest |-> d, expected |-> e, timestamp |-> {}, url |-> {}, format |-> x, content |-> y].timestamp = {}
      /\ [digest |-> d, expected |-> e, timestamp |-> t, url |-> {}, format |-> x, content |-> y].url = {}
      /\ [digest |-> d, expected |-> e, timestamp |-> t, url |-> u, format |-> x, content |-> y].format = x
    OBVIOUS
<1> QED BY <1>1, <1>2, <1>3, <1>4, <1>5, <1>6 DEF Known, x, y

\* A snapshot that can be written, and is one a line can hold.
Lined(s) ==
    /\ s \in Snapshots /\ IsOptional(s.expected) /\ IsOptional(s.timestamp) /\ IsOptional(s.url) /\ IsOptional(s.format.whitespace)
    /\ \A e \in s.expected : Len(e) = 1
    /\ \A w \in s.format.whitespace : \A n \in DOMAIN w : w[n] \in Whitespace
ReadBack(s, ctx) == Known(s.digest, s.expected, s.timestamp, ShownUrl(s, ctx), ShownFormat(s, ctx), s.content)

Follow(line, a, b, ab) ==
    IsAt(line, 1, a) /\ IsAt(line, 1 + Len(a), b) /\ 1 + Len(ab) = (1 + Len(a)) + Len(b) /\ 1 + Len(a) \in Nat \ {0}
LEMMA PartsFollow ==
    ASSUME NEW line \in Line, NEW a \in Line, NEW b \in Line, NEW ab, ab = a \o b, IsAt(line, 1, ab)
    PROVE  Follow(line, a, b, ab)
<1>1. ab \in Line /\ Len(ab) = Len(a) + Len(b) /\ Len(a) \in Nat /\ Len(b) \in Nat
    BY LinesJoin
<1>2. 1 + Len(ab) = (1 + Len(a)) + Len(b) /\ 1 + Len(a) \in Nat \ {0}
    BY <1>1
<1>3. IsAt(line, 1, a) /\ IsAt(line, 1 + Len(a), b)
    BY AtJoined DEF Line
<1> QED BY <1>2, <1>3 DEF Follow

\* Where the parts of a line are.
Placed(line, p1, p2, p3, p4, p5, content) ==
    \E i1, i2, i3, i4, i5, i6, i7 \in Nat \ {0} :
        /\ IsAt(line, 1, Chars(Start)) /\ i1 = 1 + Len(Start)
        /\ IsAt(line, i1, p1) /\ i2 = i1 + Len(p1)
        /\ IsAt(line, i2, p2) /\ i3 = i2 + Len(p2)
        /\ IsAt(line, i3, p3) /\ i4 = i3 + Len(p3)
        /\ IsAt(line, i4, p4) /\ i5 = i4 + Len(p4)
        /\ IsAt(line, i5, p5) /\ i6 = i5 + Len(p5)
        /\ IsAt(line, i6, Chars(Key("content"))) /\ i7 = i6 + Len(Key("content"))
        /\ IsAt(line, i7, Chars(content))
        /\ Len(line) = i7 + Len(content) /\ line[Len(line)] = Char(Shut)
LEMMA PartsArePlaced ==
    ASSUME NEW s \in Snapshots, NEW ctx \in Contexts, NEW line, line = Display(s, ctx)
    PROVE  Placed(line, DigestPart(s), ExpectedPart(s), TimePart(s), UrlPart(s, ctx), FormatPart(s, ctx), s.content)
<1> DEFINE p0 == Chars(Start)
           p1 == DigestPart(s)
           p2 == ExpectedPart(s)
           p3 == TimePart(s)
           p4 == UrlPart(s, ctx)
           p5 == FormatPart(s, ctx)
           p6 == Chars(Key("content"))
           p7 == Chars(s.content)
           p8 == Ending
           w1 == p0 \o p1
           w2 == w1 \o p2
           w3 == w2 \o p3
           w4 == w3 \o p4
           w5 == w4 \o p5
           w6 == w5 \o p6
           w7 == w6 \o p7
<1>1. p0 \in Line /\ p1 \in Line /\ p2 \in Line /\ p3 \in Line /\ p4 \in Line /\ p5 \in Line /\ p6 \in Line /\ p7 \in Line /\ p8 \in Line
    BY PartsAreLines
<1>2. line \in Line /\ line = w7 \o p8
    BY DisplayIsLine, Zenon
<1>3. Len(p0) = Len(Start) /\ Len(p6) = Len(Key("content")) /\ Len(p7) = Len(s.content) /\ Len(p8) = 1 /\ p8[1] = Char(Shut)
  <2>1. s.content \in Seq(Symbols) /\ Start \in Seq(Symbols) /\ Key("content") \in Seq(Symbols)
      BY WordsAreTexts, OwnSymbols DEF Snapshots
  <2>2. Len(p8) = 1 /\ p8[1] = Char(Shut)
      BY DEF Ending, Char
  <2> QED BY <2>1, <2>2, TextsAreTexts
<1> HIDE DEF p0, p1, p2, p3, p4, p5, p6, p7, p8
<1>4. w1 \in Line
    BY <1>1, LinesJoin
<1>5. w2 \in Line
  <2> HIDE DEF w1
  <2> QED BY <1>1, <1>4, LinesJoin
<1>6. w3 \in Line
  <2> HIDE DEF w2
  <2> QED BY <1>1, <1>5, LinesJoin
<1>7. w4 \in Line
  <2> HIDE DEF w3
  <2> QED BY <1>1, <1>6, LinesJoin
<1>8. w5 \in Line
  <2> HIDE DEF w4
  <2> QED BY <1>1, <1>7, LinesJoin
<1>9. w6 \in Line
  <2> HIDE DEF w5
  <2> QED BY <1>1, <1>8, LinesJoin
<1>10. w7 \in Line
  <2> HIDE DEF w6
  <2> QED BY <1>1, <1>9, LinesJoin
<1>11. w1 = p0 \o p1 /\ w2 = w1 \o p2 /\ w3 = w2 \o p3 /\ w4 = w3 \o p4 /\ w5 = w4 \o p5 /\ w6 = w5 \o p6 /\ w7 = w6 \o p7
    BY Zenon
<1> HIDE DEF w1, w2, w3, w4, w5, w6, w7
<1>12. IsAt(line, 1, line)
  <2>1. \A k \in DOMAIN line : 1 + k - 1 = k
      BY <1>2 DEF Line
  <2> QED BY <2>1 DEF IsAt
<1>13. IsAt(line, 1, w7) /\ IsAt(line, 1 + Len(w7), p8) /\ 1 + Len(line) = (1 + Len(w7)) + Len(p8) /\ 1 + Len(w7) \in Nat \ {0}
  <2>2. Follow(line, w7, p8, line)
      BY <1>1, <1>2, <1>10, <1>12, PartsFollow
  <2> QED BY <2>2 DEF Follow
<1>14. IsAt(line, 1, w6) /\ IsAt(line, 1 + Len(w6), p7) /\ 1 + Len(w7) = (1 + Len(w6)) + Len(p7) /\ 1 + Len(w6) \in Nat \ {0}
  <2>1. IsAt(line, 1, w7)
      BY <1>13
  <2>2. Follow(line, w6, p7, w7)
      BY <1>1, <1>2, <1>9, <1>11, <2>1, PartsFollow
  <2> QED BY <2>2 DEF Follow
<1>15. IsAt(line, 1, w5) /\ IsAt(line, 1 + Len(w5), p6) /\ 1 + Len(w6) = (1 + Len(w5)) + Len(p6) /\ 1 + Len(w5) \in Nat \ {0}
  <2>1. IsAt(line, 1, w6)
      BY <1>14
  <2>2. Follow(line, w5, p6, w6)
      BY <1>1, <1>2, <1>8, <1>11, <2>1, PartsFollow
  <2> QED BY <2>2 DEF Follow
<1>16. IsAt(line, 1, w4) /\ IsAt(line, 1 + Len(w4), p5) /\ 1 + Len(w5) = (1 + Len(w4)) + Len(p5) /\ 1 + Len(w4) \in Nat \ {0}
  <2>1. IsAt(line, 1, w5)
      BY <1>15
  <2>2. Follow(line, w4, p5, w5)
      BY <1>1, <1>2, <1>7, <1>11, <2>1, PartsFollow
  <2> QED BY <2>2 DEF Follow
<1>17. IsAt(line, 1, w3) /\ IsAt(line, 1 + Len(w3), p4) /\ 1 + Len(w4) = (1 + Len(w3)) + Len(p4) /\ 1 + Len(w3) \in Nat \ {0}
  <2>1. IsAt(line, 1, w4)
      BY <1>16
  <2>2. Follow(line, w3, p4, w4)
      BY <1>1, <1>2, <1>6, <1>11, <2>1, PartsFollow
  <2> QED BY <2>2 DEF Follow
<1>18. IsAt(line, 1, w2) /\ IsAt(line, 1 + Len(w2), p3) /\ 1 + Len(w3) = (1 + Len(w2)) + Len(p3) /\ 1 + Len(w2) \in Nat \ {0}
  <2>1. IsAt(line, 1, w3)
      BY <1>17
  <2>2. Follow(line, w2, p3, w3)
      BY <1>1, <1>2, <1>5, <1>11, <2>1, PartsFollow
  <2> QED BY <2>2 DEF Follow
<1>19. IsAt(line, 1, w1) /\ IsAt(line, 1 + Len(w1), p2) /\ 1 + Len(w2) = (1 + Len(w1)) + Len(p2) /\ 1 + Len(w1) \in Nat \ {0}
  <2>1. IsAt(line, 1, w2)
      BY <1>18
  <2>2. Follow(line, w1, p2, w2)
      BY <1>1, <1>2, <1>4, <1>11, <2>1, PartsFollow
  <2> QED BY <2>2 DEF Follow
<1>20. IsAt(line, 1, p0) /\ IsAt(line, 1 + Len(p0), p1) /\ 1 + Len(w1) = (1 + Len(p0)) + Len(p1) /\ 1 + Len(p0) \in Nat \ {0}
  <2>1. IsAt(line, 1, w1)
      BY <1>19
  <2>2. Follow(line, p0, p1, w1)
      BY <1>1, <1>2, <1>11, <2>1, PartsFollow
  <2> QED BY <2>2 DEF Follow
<1>21. Len(line) = 1 + Len(w7) /\ line[Len(line)] = Char(Shut)
  <2>1. 1 \in DOMAIN p8 /\ (1 + Len(w7)) + 1 - 1 = 1 + Len(w7)
      BY <1>1, <1>3, <1>10 DEF Line
  <2>2. line[1 + Len(w7)] = p8[1]
      BY <1>13, <2>1 DEF IsAt
  <2>3. Len(line) \in Nat /\ 1 + Len(line) = (1 + Len(w7)) + 1
      BY <1>2, <1>3, <1>13 DEF Line
  <2>4. Len(line) = 1 + Len(w7)
    <3>1. w7 \in Line /\ \A v \in Seq(LineToken) : Len(v) \in Nat
        BY <1>10
    <3>2. Len(w7) \in Nat
        BY <3>1, Zenon DEF Line
    <3>3. \A a, b \in Nat : 1 + a = (1 + b) + 1 => a = 1 + b
        OBVIOUS
    <3> QED BY <2>3, <3>2, <3>3, Zenon
  <2> QED BY <1>3, <2>2, <2>4
<1>22. PICK i1, i2, i3, i4, i5, i6, i7 \in Nat \ {0} :
          i1 = 1 + Len(p0) /\ i2 = 1 + Len(w1) /\ i3 = 1 + Len(w2) /\ i4 = 1 + Len(w3) /\ i5 = 1 + Len(w4) /\ i6 = 1 + Len(w5)
          /\ i7 = 1 + Len(w6)
    BY <1>14, <1>15, <1>16, <1>17, <1>18, <1>19, <1>20
<1>23. /\ IsAt(line, 1, p0) /\ i1 = 1 + Len(Start)
       /\ IsAt(line, i1, p1) /\ i2 = i1 + Len(p1)
       /\ IsAt(line, i2, p2) /\ i3 = i2 + Len(p2)
       /\ IsAt(line, i3, p3) /\ i4 = i3 + Len(p3)
    BY <1>3, <1>17, <1>18, <1>19, <1>20, <1>22, Zenon
<1>24. /\ IsAt(line, i4, p4) /\ i5 = i4 + Len(p4)
       /\ IsAt(line, i5, p5) /\ i6 = i5 + Len(p5)
       /\ IsAt(line, i6, p6) /\ i7 = i6 + Len(Key("content"))
       /\ IsAt(line, i7, p7) /\ Len(line) = i7 + Len(s.content)
    BY <1>3, <1>14, <1>15, <1>16, <1>17, <1>21, <1>22, Zenon
<1>25. Placed(line, p1, p2, p3, p4, p5, s.content)
    BY <1>21, <1>22, <1>23, <1>24, Zenon DEF Placed, p0, p6, p7
<1> QED BY <1>25, Zenon DEF p1, p2, p3, p4, p5

LEMMA WordsDiffer ==
    /\ "expected_digest" \notin {"timestamp", "url", "format", "content"} /\ "timestamp" \notin {"url", "format", "content"}
    /\ "url" \notin {"format", "content"} /\ "format" # "content"
OBVIOUS

\* What is shown of a snapshot is one too.
LEMMA ShownIs ==
    ASSUME NEW s, Lined(s), NEW ctx \in Contexts
    PROVE  /\ ShownFormat(s, ctx) \in Formats /\ IsOptional(ShownFormat(s, ctx).whitespace)
           /\ \A w \in ShownFormat(s, ctx).whitespace : \A n \in DOMAIN w : w[n] \in Whitespace
           /\ ShownUrl(s, ctx) \in SUBSET Seq(Symbols) /\ IsOptional(ShownUrl(s, ctx))
<1>1. ShownFormat(s, ctx) \in Formats /\ ShownUrl(s, ctx) \in SUBSET Seq(Symbols)
    BY PartsAreLines DEF Lined
<1>2. ShownFormat(s, ctx).whitespace \subseteq s.format.whitespace
  <2>1. s.format \in Formats
      BY DEF Lined, Snapshots
  <2> QED BY <2>1 DEF ShownFormat, Formats
<1>3. ShownUrl(s, ctx) \subseteq s.url
    BY DEF ShownUrl
<1> QED BY <1>1, <1>2, <1>3 DEF Lined, IsOptional

LEMMA ParseIs ==
    ASSUME NEW s, Lined(s), NEW ctx \in Contexts, CanDisplay(s, ctx), NEW line, line = Display(s, ctx)
    PROVE  Parse(line) = [ok |-> TRUE, snapshot |-> ReadBack(s, ctx)]
<1> DEFINE d == s.digest
           e == s.expected
           t == s.timestamp
           u == ShownUrl(s, ctx)
           f == ShownFormat(s, ctx)
           c == s.content
           token == DigestToken(d)
           times == {<<x>> : x \in t}
           urls == {Chars(x) : x \in u}
           k1 == Known(d, {}, {}, {}, DefaultFormat, <<>>)
           k2 == Known(d, e, {}, {}, DefaultFormat, <<>>)
           k3 == Known(d, e, t, {}, DefaultFormat, <<>>)
           k4 == Known(d, e, t, u, DefaultFormat, <<>>)
           k5 == Known(d, e, t, u, f, <<>>)
<1>1. s \in Snapshots /\ line \in Line
    BY DisplayIsLine DEF Lined
<1>2. /\ d \in Digests /\ e \in SUBSET Line /\ t \in SUBSET Timestamps /\ u \in SUBSET Seq(Symbols) /\ f \in Formats /\ c \in Seq(Symbols)
      /\ IsOptional(e) /\ IsOptional(t) /\ IsOptional(u) /\ IsOptional(f.whitespace) /\ \A x \in e : Len(x) = 1
      /\ \A w \in f.whitespace : \A n \in DOMAIN w : w[n] \in Whitespace
      /\ \A x \in u : ~ NeedsEscaping(x)
    BY ShownIs DEF Lined, Snapshots, CanDisplay
<1>3. token \in LineToken
  <2>1. d \in Seq(Symbols) /\ <<"sha1">> \in Seq(Symbols) /\ Len(<<"sha1">>) = 1
      BY <1>2, LinesAssumption, OwnSymbols, ShortTexts
  <2> QED BY <2>1 DEF DigestToken, LineToken
<1>4. times \in SUBSET Line /\ urls \in SUBSET Line /\ (times = {} <=> t = {}) /\ (urls = {} <=> u = {})
  <2>1. t \subseteq LineToken
      BY <1>2, LinesAssumption
  <2>2. \A x \in t : <<x>> \in Line
      BY <2>1, TokensIn
  <2>3. \A x \in u : Chars(x) \in Line
      BY <1>2, TextsAreTexts
  <2> QED BY <2>2, <2>3
<1>5. k1 \in Snapshots /\ k2 \in Snapshots /\ k3 \in Snapshots
  <2>1. DefaultFormat \in Formats /\ <<>> \in Seq(Symbols)
    <3>1. "utf8" \in Symbols
        BY SymbolsAssumption
    <3> QED BY <3>1 DEF DefaultFormat, Formats
  <2> HIDE DEF d, e, t, u, f, c
  <2> QED BY <1>2, <2>1 DEF Known, Snapshots
<1>6. Placed(line, Quoted("digest", <<token>>), Optional("expected_digest", e), Optional("timestamp", times),
            Optional("url", urls), FormatText(f), c)
  <2>1. /\ DigestPart(s) = Quoted("digest", <<token>>) /\ ExpectedPart(s) = Optional("expected_digest", e)
        /\ TimePart(s) = Optional("timestamp", times) /\ UrlPart(s, ctx) = Optional("url", urls)
        /\ FormatPart(s, ctx) = FormatText(f)
      BY DEF DigestPart, ExpectedPart, TimePart, UrlPart, FormatPart, FormatText
  <2>2. Placed(line, DigestPart(s), ExpectedPart(s), TimePart(s), UrlPart(s, ctx), FormatPart(s, ctx), c)
      BY <1>1, PartsArePlaced
  <2> HIDE DEF d, e, t, u, f, token, times, urls, c
  <2> QED BY <2>1, <2>2, Zenon
<1>7. Blank(token) = k1
    BY <1>2, DigestOfIs DEF Blank, Known, DefaultFormat
<1>8. /\ [k1 EXCEPT !.expected = e] = k2 /\ [k2 EXCEPT !.timestamp = t] = k3 /\ [k3 EXCEPT !.url = u] = k4
      /\ [k4 EXCEPT !.format = f] = k5 /\ [k5 EXCEPT !.content = c] = ReadBack(s, ctx)
      /\ k1.expected = {} /\ k2.timestamp = {} /\ k3.url = {} /\ k4.format = DefaultFormat /\ k4 = [k4 EXCEPT !.format = k4.format]
  <2> HIDE DEF d, e, t, u, f, c
  <2>1. k4.format = DefaultFormat /\ k4 = [k4 EXCEPT !.format = DefaultFormat]
      BY KnownGrows
  <2>2. ReadBack(s, ctx) = Known(d, e, t, u, f, c)
      BY DEF ReadBack, d, e, t, u, f, c
  <2> HIDE DEF k1, k2, k3, k4, k5
  <2>3. k4 = [k4 EXCEPT !.format = k4.format]
      BY <2>1
  <2> QED BY <2>1, <2>2, <2>3, KnownGrows DEF k1, k2, k3, k4, k5
<1> HIDE DEF d, e, t, u, f, c, token, times, urls, k1, k2, k3, k4, k5
<1>9. PICK i1, i2, i3, i4, i5, i6, i7 \in Nat \ {0} :
          /\ IsAt(line, 1, Chars(Start)) /\ i1 = 1 + Len(Start)
          /\ IsAt(line, i1, Quoted("digest", <<token>>)) /\ i2 = i1 + Len(Quoted("digest", <<token>>))
          /\ IsAt(line, i2, Optional("expected_digest", e)) /\ i3 = i2 + Len(Optional("expected_digest", e))
          /\ IsAt(line, i3, Optional("timestamp", times)) /\ i4 = i3 + Len(Optional("timestamp", times))
          /\ IsAt(line, i4, Optional("url", urls)) /\ i5 = i4 + Len(Optional("url", urls))
          /\ IsAt(line, i5, FormatText(f)) /\ i6 = i5 + Len(FormatText(f))
          /\ IsAt(line, i6, Chars(Key("content"))) /\ i7 = i6 + Len(Key("content"))
          /\ IsAt(line, i7, Chars(c))
          /\ Len(line) = i7 + Len(c) /\ line[Len(line)] = Char(Shut)
    BY <1>6, Zenon DEF Placed
<1>10. /\ IsAt(line, 1, Chars(Start)) /\ i1 = 1 + Len(Start)
       /\ IsAt(line, i1, Quoted("digest", <<token>>)) /\ i2 = i1 + Len(Quoted("digest", <<token>>))
    BY <1>9, Zenon
<1>11. IsAt(line, i2, Optional("expected_digest", e)) /\ i3 = i2 + Len(Optional("expected_digest", e))
    BY <1>9, Zenon
<1>12. IsAt(line, i3, Optional("timestamp", times)) /\ i4 = i3 + Len(Optional("timestamp", times))
    BY <1>9, Zenon
<1>13. IsAt(line, i4, Optional("url", urls)) /\ i5 = i4 + Len(Optional("url", urls))
    BY <1>9, Zenon
<1>14. IsAt(line, i5, FormatText(f)) /\ i6 = i5 + Len(FormatText(f))
    BY <1>9, Zenon
<1>15. /\ IsAt(line, i6, Chars(Key("content"))) /\ i7 = i6 + Len(Key("content"))
       /\ IsAt(line, i7, Chars(c)) /\ Len(line) = i7 + Len(c) /\ line[Len(line)] = Char(Shut)
    BY <1>9, Zenon
<1>16. Completed(line, [at |-> i6, s |-> k5]) = [ok |-> TRUE, snapshot |-> ReadBack(s, ctx)] /\ At(line, i6) = Char("content")
  <2>1. line \in Line /\ c \in Seq(Symbols) /\ i6 \in Nat \ {0} /\ ReadBack(s, ctx) = [k5 EXCEPT !.content = c]
      BY <1>1, <1>2, <1>8, <1>9, Zenon
  <2>2. IsAt(line, i6, Chars(Key("content"))) /\ i7 = i6 + Len(Key("content")) /\ IsAt(line, i7, Chars(c))
      BY <1>15, Zenon
  <2>3. Len(line) = i7 + Len(c) /\ line[Len(line)] = Char(Shut)
      BY <1>15, Zenon
  <2>4. At(line, i6) = Char("content")
      BY <2>1, <2>2, <2>3, ContentIs, Zenon
  <2>5. Completed(line, [at |-> i6, s |-> k5]) = Whole(k5, c)
      BY <2>1, <2>2, <2>3, ContentIs
  <2> QED BY <2>1, <2>4, <2>5 DEF Whole
<1>17. IsDefault(f) => At(line, i5) # Char("format")
  <2>1. IsDefault(f) => i6 = i5
    <3>1. IsDefault(f) => FormatText(f) = <<>>
        BY DEF FormatText
    <3>2. Len(<<>>) = 0
        OBVIOUS
    <3> QED BY <1>9, <1>14, <3>1, <3>2
  <2> QED BY <1>16, <2>1, CharsDiffer, WordsDiffer
<1>18. /\ WithFormat(line, [at |-> i5, s |-> k4]) = [at |-> i6, s |-> k5]
       /\ At(line, i5) \in {Char("format"), Char("content")}
  <2>1. /\ WithFormat(line, [at |-> i5, s |-> k4]) = [at |-> i6, s |-> [k4 EXCEPT !.format = f]]
        /\ (IsDefault(f) => i6 = i5) /\ (~ IsDefault(f) => At(line, i5) = Char("format"))
    <3>1. k4.format = DefaultFormat /\ k4 = [k4 EXCEPT !.format = k4.format]
        BY <1>8
    <3>2. /\ line \in Line /\ f \in Formats /\ IsOptional(f.whitespace)
          /\ \A w \in f.whitespace : \A n \in DOMAIN w : w[n] \in Whitespace
        BY <1>1, <1>2
    <3> QED BY <1>9, <1>14, <1>17, <3>1, <3>2, FormatTextIs
  <2> QED BY <1>8, <1>16, <2>1
<1>19. (urls = {} => i5 = i4) /\ (urls # {} => At(line, i4) = Char("url"))
  <2>1. "url" \in Symbols /\ line \in Line /\ urls \in SUBSET Line
      BY <1>1, <1>4, OwnSymbols
  <2> QED BY <1>9, <1>13, <2>1, OptionalAt, SMTT(30)
<1>20. (times = {} => i4 = i3) /\ (times # {} => At(line, i3) = Char("timestamp"))
  <2>1. "timestamp" \in Symbols /\ line \in Line /\ times \in SUBSET Line
      BY <1>1, <1>4, OwnSymbols
  <2> QED BY <1>9, <1>12, <2>1, OptionalAt, SMTT(30)
<1>21. (e = {} => i3 = i2) /\ (e # {} => At(line, i2) = Char("expected_digest"))
  <2>1. "expected_digest" \in Symbols /\ line \in Line /\ e \in SUBSET Line
      BY <1>1, <1>2, OwnSymbols, Zenon
  <2>2. i2 \in Nat \ {0}
      BY <1>9, Zenon
  <2> QED BY <1>11, <2>1, <2>2, OptionalAt
<1>22. At(line, i4) \in {Char("url"), Char("format"), Char("content")}
    BY <1>18, <1>19
<1>23. At(line, i3) \in {Char("timestamp"), Char("url"), Char("format"), Char("content")}
    BY <1>20, <1>22
<1>24. u = {} => At(line, i4) # Char("url")
    BY <1>4, <1>18, <1>19, CharsDiffer, WordsDiffer
<1>25. t = {} => At(line, i3) # Char("timestamp")
    BY <1>4, <1>20, <1>22, CharsDiffer, WordsDiffer
<1>26. e = {} => At(line, i2) # Char("expected_digest")
    BY <1>21, <1>23, CharsDiffer, WordsDiffer
<1>27. WithUrl(line, [at |-> i4, s |-> k3]) = [at |-> i5, s |-> k4]
  <2>1. WithUrl(line, [at |-> i4, s |-> k3]) = [at |-> i4 + Len(Optional("url", urls)), s |-> [k3 EXCEPT !.url = u]]
    <3>1. k3 \in Snapshots /\ k3.url = {} /\ line \in Line
        BY <1>1, <1>5, <1>8
    <3>2. u \in SUBSET Seq(Symbols) /\ IsOptional(u) /\ \A x \in u : ~ NeedsEscaping(x)
        BY <1>2
    <3> QED BY <1>9, <1>13, <1>24, <3>1, <3>2, UrlIs DEF urls
  <2> QED BY <1>8, <1>13, <2>1
<1>28. WithTimestamp(line, [at |-> i3, s |-> k2]) = [at |-> i4, s |-> k3]
  <2>1. WithTimestamp(line, [at |-> i3, s |-> k2]) = [at |-> i3 + Len(Optional("timestamp", times)), s |-> [k2 EXCEPT !.timestamp = t]]
    <3>1. k2 \in Snapshots /\ k2.timestamp = {} /\ line \in Line
        BY <1>1, <1>5, <1>8
    <3>2. t \in SUBSET Timestamps /\ IsOptional(t)
        BY <1>2
    <3> QED BY <1>9, <1>12, <1>25, <3>1, <3>2, TimestampIs DEF times
  <2> QED BY <1>8, <1>12, <2>1
<1>29. WithExpected(line, [at |-> i2, s |-> k1]) = [at |-> i3, s |-> k2]
  <2>1. WithExpected(line, [at |-> i2, s |-> k1]) = [at |-> i2 + Len(Optional("expected_digest", e)), s |-> [k1 EXCEPT !.expected = e]]
    <3>1. k1 \in Snapshots /\ k1.expected = {} /\ line \in Line
        BY <1>1, <1>5, <1>8
    <3>2. e \in SUBSET Line /\ IsOptional(e) /\ \A x \in e : Len(x) = 1
        BY <1>2, Zenon
    <3>3. i2 \in Nat \ {0}
        BY <1>9, Zenon
    <3> QED BY <1>11, <1>26, <3>1, <3>2, <3>3, ExpectedIs
  <2> QED BY <1>8, <1>11, <2>1
<1>30. WithDigest(line, Expect(line, 1, Start \o Opening("digest"))) = [at |-> i2, s |-> k1]
  <2>1. WithDigest(line, Expect(line, 1, Start \o Opening("digest"))) = [at |-> i2, s |-> Blank(token)]
    <3>1. d \in Digests /\ token = DigestToken(d) /\ line \in Line
        BY <1>1, <1>2 DEF token
    <3> QED BY <1>3, <1>10, <3>1, DigestIs
  <2> QED BY <1>7, <2>1
<1> QED BY <1>16, <1>18, <1>27, <1>28, <1>29, <1>30, Zenon DEF Parse

\* The digests that captures were expected to have are one token of a line,
\* as 32 characters are.
ExpectedAreDigests == \A cdx \in Cdx : \A e \in cdx.expected : Len(e) = 1

LEMMA BuiltIsLined ==
    ASSUME ExpectedAreDigests, NEW f \in Digests, NEW cdx \in Cdx, NEW ctx \in Contexts
    PROVE  Lined(Build(f, cdx, ctx))
<1> DEFINE s == Build(f, cdx, ctx)
<1>1. s \in Snapshots
    BY BuildIsSnapshot
<1>2. s.expected = cdx.expected /\ s.timestamp = cdx.timestamp /\ s.url = cdx.url /\ s.format.whitespace = Closing(f, ctx)
    BY DEF Build
<1>3. IsOptional(cdx.expected) /\ IsOptional(cdx.timestamp) /\ IsOptional(cdx.url) /\ \A e \in cdx.expected : Len(e) = 1
    BY CdxAssumption DEF ExpectedAreDigests
<1>4. IsOptional(Closing(f, ctx))
    BY FileIsText
<1>5. ASSUME NEW w \in Closing(f, ctx) PROVE \A n \in DOMAIN w : w[n] \in Whitespace
  <2>1. Closing(f, ctx) = {w}
      BY <1>4 DEF IsOptional
  <2>2. The(Closing(f, ctx), ctx.whitespace) = w
      BY <2>1, TheIs
  <2>3. Closes(w, Decoded(f))
      BY <2>2, FileIsText
  <2>4. w \in Seq(Symbols) /\ \A n \in 1 .. Len(w) : w[n] \in Whitespace
      BY <2>3 DEF Closes
  <2> QED BY <2>4
<1> HIDE DEF s
<1> QED BY <1>1, <1>2, <1>3, <1>4, <1>5 DEF Lined, s

LEMMA ReadBackIs ==
    ASSUME NEW s, NEW ctx
    PROVE  /\ ReadBack(s, ctx).digest = s.digest /\ ReadBack(s, ctx).expected = s.expected
           /\ ReadBack(s, ctx).timestamp = s.timestamp /\ ReadBack(s, ctx).url = ShownUrl(s, ctx)
           /\ ReadBack(s, ctx).format = ShownFormat(s, ctx) /\ ReadBack(s, ctx).content = s.content
BY DEF ReadBack, Known

LEMMA ShownFormatIs ==
    ASSUME NEW s, s.format \in Formats, NEW ctx
    PROVE  /\ ShownFormat(s, ctx).name = s.format.name /\ ShownFormat(s, ctx).metadata = s.format.metadata
           /\ ShownFormat(s, ctx).whitespace = s.format.whitespace \ {ctx.whitespace}
           /\ ShownFormat(s, ctx) \in Formats
BY DEF ShownFormat, Formats

\* What is read again is shown again as it was.
LEMMA ShownAgain ==
    ASSUME NEW s \in Snapshots, NEW ctx \in Contexts, NEW r, r = ReadBack(s, ctx)
    PROVE  ShownUrl(r, ctx) = ShownUrl(s, ctx) /\ ShownFormat(r, ctx) = ShownFormat(s, ctx)
<1>1. /\ r.digest = s.digest /\ r.expected = s.expected /\ r.timestamp = s.timestamp /\ r.url = ShownUrl(s, ctx)
      /\ r.format = ShownFormat(s, ctx) /\ r.content = s.content
    BY ReadBackIs
<1>2. ShownUrl(r, ctx) = ShownUrl(s, ctx)
  <2>1. CASE ctx.query
      BY <1>1, <2>1 DEF ShownUrl
  <2>2. CASE ~ ctx.query
      BY <1>1, <2>2 DEF ShownUrl
  <2> QED BY <2>1, <2>2
<1>3. s.format \in Formats
    BY DEF Snapshots
<1>4. ShownFormat(r, ctx) = ShownFormat(s, ctx)
  <2> DEFINE a == ShownFormat(s, ctx)
             b == ShownFormat(r, ctx)
  <2>1. a \in Formats /\ a.whitespace = s.format.whitespace \ {ctx.whitespace}
      BY <1>3, ShownFormatIs
  <2>2. /\ b \in Formats /\ b.name = a.name /\ b.metadata = a.metadata
        /\ b.whitespace = a.whitespace \ {ctx.whitespace}
      BY <1>1, <2>1, ShownFormatIs
  <2> HIDE DEF a, b
  <2>3. b.whitespace = a.whitespace
      BY <2>1, <2>2
  <2>4. a = [name |-> a.name, whitespace |-> a.whitespace, metadata |-> a.metadata]
      BY <2>1 DEF Formats
  <2>5. b = [name |-> b.name, whitespace |-> b.whitespace, metadata |-> b.metadata]
      BY <2>2 DEF Formats
  <2>6. a = b
      BY <2>2, <2>3, <2>4, <2>5, Zenon
  <2> QED BY <2>6 DEF a, b
<1> QED BY <1>2, <1>4

LEMMA DisplayAgain ==
    ASSUME NEW s \in Snapshots, NEW ctx \in Contexts, NEW r, r = ReadBack(s, ctx)
    PROVE  Display(r, ctx) = Display(s, ctx)
<1>1. r.digest = s.digest /\ r.expected = s.expected /\ r.timestamp = s.timestamp /\ r.content = s.content
    BY ReadBackIs
<1>2. ShownUrl(r, ctx) = ShownUrl(s, ctx) /\ ShownFormat(r, ctx) = ShownFormat(s, ctx)
    BY ShownAgain
<1> QED BY <1>1, <1>2, Zenon DEF Display

\* A file that can be packed is encoded again to itself.
LEMMA BuiltVerifies ==
    ASSUME NEW f \in Digests, NEW cdx \in Cdx, NEW ctx \in Contexts, CanBuild(f, ctx), NEW r, r = ReadBack(Build(f, cdx, ctx), ctx)
    PROVE  Verifies(r, ctx)
<1> DEFINE s == Build(f, cdx, ctx)
           W == Closing(f, ctx)
           full == Content(f, ctx) \o The(W, ctx.whitespace)
<1>1. s.digest = f /\ s.content = Content(f, ctx) /\ s.format.name = Format(f).name /\ s.format.whitespace = W
      /\ s.format.metadata = Format(f).metadata /\ s.format \in Formats
  <2>1. s \in Snapshots
      BY BuildIsSnapshot
  <2>2. s.format \in Formats
      BY <2>1 DEF Snapshots
  <2> QED BY <2>2 DEF Build
<1> HIDE DEF s
<1>2. r.digest = f /\ r.content = Content(f, ctx) /\ r.format = ShownFormat(s, ctx)
    BY <1>1, ReadBackIs DEF s
<1>3. r.format.name = Format(f).name /\ r.format.metadata = Format(f).metadata /\ r.format.whitespace = W \ {ctx.whitespace}
    BY <1>1, <1>2, ShownFormatIs
<1>4. IsOptional(W) /\ full = Decoded(f)
    BY FileIsText
<1>5. The(W \ {ctx.whitespace}, ctx.whitespace) = The(W, ctx.whitespace)
  <2>1. CASE W = {}
      BY <2>1
  <2>2. CASE W # {}
    <3>1. PICK w \in W : W = {w}
        BY <1>4, <2>2 DEF IsOptional
    <3>2. CASE w = ctx.whitespace
      <4>1. W \ {ctx.whitespace} = {}
          BY <3>1, <3>2
      <4> QED BY <3>1, <3>2, <4>1, TheIs
    <3>3. CASE w # ctx.whitespace
      <4>1. W \ {ctx.whitespace} = W
          BY <3>1, <3>3
      <4> QED BY <3>1, <4>1, TheIs
    <3> QED BY <3>2, <3>3
  <2> QED BY <2>1, <2>2
<1>6. Effective(r, ctx) = The(W, ctx.whitespace)
    BY <1>3, <1>5 DEF Effective
<1>7. r.content \o Effective(r, ctx) = Decoded(f)
    BY <1>2, <1>4, <1>6
<1>8. CASE IsGzip(f)
  <2>1. Format(f).name = "gzip" /\ "gzip" # "utf8"
      BY <1>8 DEF CanBuild
  <2>2. GzipEncode(Decoded(f), Format(f).metadata) = f
      BY <2>1, FormatAssumption
  <2>3. Encode(r, ctx) = f
      BY <1>3, <1>7, <2>1, <2>2, Zenon DEF Encode
  <2> QED BY <1>2, <1>3, <2>1, <2>3 DEF Verifies, Supported
<1>9. CASE ~ IsGzip(f)
  <2>1. Format(f).name = "utf8"
      BY <1>9 DEF CanBuild
  <2>2. Decoded(f) = f
      BY <1>9 DEF Decoded
  <2>3. Encode(r, ctx) = f
      BY <1>3, <1>7, <2>1, <2>2, Zenon DEF Encode
  <2> QED BY <1>2, <1>3, <2>1, <2>3 DEF Verifies, Supported
<1> QED BY <1>8, <1>9

LEMMA UrlIsSaid ==
    ASSUME NEW f \in Digests, NEW cdx \in Cdx, NEW ctx \in Contexts, NEW p, p = Build(f, cdx, ctx), NEW r, r = ReadBack(p, ctx)
    PROVE  r.url = p.url \/ (r.url = {} /\ ctx.query /\ p.url = Inferred(r.content))
<1>1. r.url = ShownUrl(p, ctx) /\ r.content = p.content
    BY ReadBackIs
<1>2. p.url = cdx.url /\ p.content = Content(f, ctx)
    BY DEF Build
<1>3. IsOptional(p.url) /\ IsOptional(Inferred(p.content))
    BY <1>2, CdxAssumption, FormatAssumption
<1>4. CASE ~ ctx.query
    BY <1>1, <1>4 DEF ShownUrl
<1>5. CASE ctx.query
  <2>1. r.url = p.url \ Inferred(p.content)
      BY <1>1, <1>5 DEF ShownUrl
  <2>2. CASE \E u \in p.url : u \in Inferred(p.content)
    <3>1. PICK u \in p.url : u \in Inferred(p.content)
        BY <2>2
    <3>2. p.url = {u} /\ Inferred(p.content) = {u}
        BY <1>3, <3>1 DEF IsOptional
    <3> QED BY <1>1, <1>5, <2>1, <3>2
  <2>3. CASE ~ \E u \in p.url : u \in Inferred(p.content)
    <3>1. r.url = p.url
        BY <2>1, <2>3
    <3> QED BY <3>1
  <2> QED BY <2>2, <2>3
<1> QED BY <1>4, <1>5

-----------------------------------------------------------------------------
(* What has been packed: files of the site, in the order of their digests,  *)
(* and while it is packed, the lines that show them.                        *)
IsPacked(s, ctx) ==
  \E f \in Digests, cdx \in Cdx : s = Build(f, cdx, ctx) /\ CanBuild(f, ctx) /\ CanDisplay(s, ctx)
PackedAscend == \A i \in DOMAIN packed : i > 1 => Before(packed[i - 1].digest, packed[i].digest)
StillToCome == packed # <<>> => \A g \in files : Before(packed[Len(packed)].digest, g)
PackInv ==
  /\ packed \in Seq(Snapshots) /\ \A i \in DOMAIN packed : IsPacked(packed[i], site)
  /\ PackedAscend
  /\ pc = "pack" => Len(lines) = Len(packed) /\ Intact /\ StillToCome

LEMMA PackInvInit == SnapshotInit => PackInv
<1> SUFFICES ASSUME SnapshotInit PROVE PackInv
    OBVIOUS
<1>1. packed = <<>> /\ lines = <<>>
    BY DEF SnapshotInit
<1>2. Len(packed) = 0 /\ DOMAIN packed = {} /\ packed \in Seq(Snapshots) /\ Len(lines) = 0
    BY <1>1
<1>3. lines = [i \in DOMAIN packed |-> Display(packed[i], site)]
    BY <1>1, <1>2
<1> QED BY <1>1, <1>2, <1>3 DEF PackInv, PackedAscend, StillToCome, Intact

LEMMA PackedAppends ==
    ASSUME Given, PackInv, pc = "pack", files # {}, lines \in Seq(Line), NEW f \in files, NEW cdx \in Cdx,
           \A g \in files \ {f} : Before(f, g), files' = files \ {f}, CanBuild(f, site),
           NEW s, s = Build(f, cdx, site), CanDisplay(s, site),
           packed' = Append(packed, s), lines' = Append(lines, Display(s, site)), pc' = pc, site' = site
    PROVE  PackInv'
<1>1. f \in Digests /\ site \in Contexts
    BY DEF Given
<1>2. s \in Snapshots /\ s.digest = f
    BY <1>1, BuildIsSnapshot DEF Build
<1>3. /\ packed \in Seq(Snapshots) /\ PackedAscend /\ Len(lines) = Len(packed) /\ Intact /\ StillToCome
      /\ \A i \in DOMAIN packed : IsPacked(packed[i], site)
    BY DEF PackInv
<1>4. /\ packed' \in Seq(Snapshots) /\ Len(packed') = Len(packed) + 1 /\ packed'[Len(packed) + 1] = s
      /\ \A i \in 1 .. Len(packed) : packed'[i] = packed[i]
    BY <1>2, <1>3
<1>5. DOMAIN packed = 1 .. Len(packed) /\ DOMAIN packed' = 1 .. Len(packed) + 1 /\ Len(packed) \in Nat
    BY <1>3, <1>4
<1>6. IsPacked(s, site)
    BY <1>1 DEF IsPacked
<1>7. \A i \in DOMAIN packed' : IsPacked(packed'[i], site)
    BY <1>3, <1>4, <1>5, <1>6
<1>8. PackedAscend'
  <2> SUFFICES ASSUME NEW i \in DOMAIN packed', i > 1
               PROVE  Before(packed'[i - 1].digest, packed'[i].digest)
      BY DEF PackedAscend
  <2>1. CASE i = Len(packed) + 1
    <3>1. Len(packed) >= 1 /\ packed # <<>>
        BY <1>5, <2>1
    <3>2. Before(packed[Len(packed)].digest, f)
        BY <1>3, <3>1 DEF StillToCome
    <3>3. i - 1 = Len(packed) /\ packed'[i - 1] = packed[Len(packed)] /\ packed'[i] = s
        BY <1>4, <1>5, <2>1, <3>1
    <3> QED BY <1>2, <3>2, <3>3
  <2>2. CASE i # Len(packed) + 1
    <3>1. i \in DOMAIN packed /\ i - 1 \in 1 .. Len(packed)
        BY <1>5, <2>2
    <3>2. packed'[i] = packed[i] /\ packed'[i - 1] = packed[i - 1]
        BY <1>4, <1>5, <3>1
    <3> QED BY <1>3, <3>1, <3>2 DEF PackedAscend
  <2> QED BY <2>1, <2>2
<1> DEFINE shown == Display(s, site)
<1>s. shown \in Line /\ lines' = Append(lines, shown)
    BY <1>1, <1>2, DisplayIsLine
<1> HIDE DEF shown
<1>9. Len(lines') = Len(packed')
  <2>1. Len(lines') = Len(lines) + 1
      BY <1>s
  <2> QED BY <1>3, <1>4, <2>1
<1>10. Intact'
  <2>1. lines = [i \in DOMAIN packed |-> Display(packed[i], site)]
      BY <1>3 DEF Intact
  <2>2. \A i \in 1 .. Len(packed) : lines[i] = Display(packed[i], site)
      BY <1>5, <2>1
  <2>3. /\ lines' \in Seq(Line) /\ lines'[Len(packed) + 1] = shown
        /\ \A i \in 1 .. Len(packed) : lines'[i] = lines[i]
      BY <1>3, <1>s
  <2>4. shown = Display(s, site)
      BY DEF shown
  <2>a. ASSUME NEW i \in DOMAIN packed' PROVE lines'[i] = Display(packed'[i], site)
    <3>1. CASE i = Len(packed) + 1
        BY <1>4, <2>3, <2>4, <3>1
    <3>2. CASE i \in 1 .. Len(packed)
      <4>1. lines'[i] = lines[i] /\ lines[i] = Display(packed[i], site) /\ packed'[i] = packed[i]
          BY <1>4, <2>2, <2>3, <3>2, Zenon
      <4> QED BY <4>1, Zenon
    <3>3. i = Len(packed) + 1 \/ i \in 1 .. Len(packed)
        BY <1>5
    <3> QED BY <3>1, <3>2, <3>3, Zenon
  <2>d. \A q \in Seq(Line) : DOMAIN q = 1 .. Len(q) /\ q = [i \in DOMAIN q |-> q[i]]
      OBVIOUS
  <2>b. DOMAIN lines' = 1 .. Len(lines') /\ lines' = [i \in DOMAIN lines' |-> lines'[i]]
      BY <2>3, <2>d, Zenon
  <2>c. DOMAIN lines' = DOMAIN packed'
      BY <1>4, <1>5, <1>9, <2>b
  <2>5. lines' = [i \in DOMAIN packed' |-> Display(packed'[i], site)]
      BY <2>a, <2>b, <2>c, Zenon
  <2> QED BY <2>5 DEF Intact
<1>11. StillToCome'
    BY <1>2, <1>4, <1>5 DEF StillToCome
<1>12. packed' \in Seq(Snapshots) /\ (\A i \in DOMAIN packed' : IsPacked(packed'[i], site')) /\ PackedAscend'
    BY <1>4, <1>7, <1>8
<1> QED BY <1>9, <1>10, <1>11, <1>12 DEF PackInv

LEMMA PackInvStep == Given /\ lines \in Seq(Line) /\ PackInv /\ [SnapshotNext]_lineVars => PackInv'
<1> SUFFICES ASSUME Given, lines \in Seq(Line), PackInv, [SnapshotNext]_lineVars PROVE PackInv'
    OBVIOUS
<1>1. CASE Pack
  <2>1. pc = "pack" /\ files # {} /\ site' = site
      BY <1>1 DEF Pack
  <2>2. PICK f \in files, cdx \in Cdx :
          /\ \A g \in files \ {f} : Before(f, g)
          /\ files' = files \ {f}
          /\ LET snapshot == Build(f, cdx, site)
             IN IF ~CanBuild(f, site) THEN UNCHANGED <<packed, lines, pc>>
                ELSE IF CanDisplay(snapshot, site)
                THEN packed' = Append(packed, snapshot) /\ lines' = Append(lines, Display(snapshot, site)) /\ UNCHANGED pc
                ELSE pc' = "failed" /\ UNCHANGED <<packed, lines>>
      BY <1>1 DEF Pack
  <2> DEFINE s == Build(f, cdx, site)
  <2>3. CASE ~ CanBuild(f, site)
    <3>1. packed' = packed /\ lines' = lines /\ pc' = pc /\ files' \subseteq files
        BY <2>2, <2>3
    <3> QED BY <2>1, <3>1 DEF PackInv, PackedAscend, Intact, StillToCome
  <2>4. CASE CanBuild(f, site) /\ CanDisplay(s, site)
    <3>1. packed' = Append(packed, s) /\ lines' = Append(lines, Display(s, site)) /\ pc' = pc /\ files' = files \ {f}
        BY <2>2, <2>4
    <3> QED BY <2>1, <2>2, <2>4, <3>1, PackedAppends
  <2>5. CASE CanBuild(f, site) /\ ~ CanDisplay(s, site)
    <3>1. packed' = packed /\ pc' = "failed"
        BY <2>2, <2>5
    <3> QED BY <2>1, <3>1 DEF PackInv, PackedAscend
  <2> QED BY <2>3, <2>4, <2>5
<1>2. CASE HandOver
  <2>1. packed' = packed /\ site' = site /\ pc' # "pack"
      BY <1>2 DEF HandOver
  <2> QED BY <2>1 DEF PackInv, PackedAscend
<1>3. CASE ResolveContext \/ VerifyLine \/ ValidateLine \/ StartExport \/ ExportLine
  <2>1. packed' = packed /\ site' = site /\ pc # "pack"
      BY <1>3 DEF ResolveContext, VerifyLine, ValidateLine, StartExport, ExportLine, source
  <2>2. pc' # "pack"
      BY <1>3, <2>1 DEF ResolveContext, VerifyLine, ValidateLine, StartExport, ExportLine
  <2> QED BY <2>1, <2>2 DEF PackInv, PackedAscend
<1>4. CASE UNCHANGED lineVars
  <2>1. packed' = packed /\ site' = site /\ pc' = pc /\ lines' = lines /\ files' = files
      BY <1>4 DEF lineVars, source
  <2> QED BY <2>1 DEF PackInv, PackedAscend, Intact, StillToCome
<1> QED BY <1>1, <1>2, <1>3, <1>4 DEF SnapshotNext

\* Every line that was written is read again as what it shows.
LEMMA PackedIsRead ==
    ASSUME ExpectedAreDigests, NEW ctx \in Contexts, NEW p, IsPacked(p, ctx), NEW line, line = Display(p, ctx)
    PROVE  Parsed(line) /\ Snapshot(line) = ReadBack(p, ctx)
<1>1. PICK f \in Digests, cdx \in Cdx : p = Build(f, cdx, ctx) /\ CanBuild(f, ctx) /\ CanDisplay(p, ctx)
    BY DEF IsPacked
<1>2. Lined(p)
    BY <1>1, BuiltIsLined
<1>3. Parse(line) = [ok |-> TRUE, snapshot |-> ReadBack(p, ctx)]
    BY <1>1, <1>2, ParseIs
<1> QED BY <1>3 DEF Parsed, Snapshot

LEMMA PackedIsRestored ==
    ASSUME NEW ctx \in Contexts, NEW p, IsPacked(p, ctx), NEW r, r = ReadBack(p, ctx)
    PROVE  /\ Verifies(r, ctx) /\ r.digest = p.digest
           /\ r.expected = p.expected /\ r.timestamp = p.timestamp
           /\ r.url = p.url \/ (r.url = {} /\ ctx.query /\ p.url = Inferred(r.content))
           /\ Display(r, ctx) = Display(p, ctx)
<1>1. PICK f \in Digests, cdx \in Cdx : p = Build(f, cdx, ctx) /\ CanBuild(f, ctx) /\ CanDisplay(p, ctx)
    BY DEF IsPacked
<1>2. p \in Snapshots
    BY <1>1, BuildIsSnapshot
<1>3. Verifies(r, ctx)
    BY <1>1, BuiltVerifies
<1>4. r.url = p.url \/ (r.url = {} /\ ctx.query /\ p.url = Inferred(r.content))
    BY <1>1, UrlIsSaid
<1>5. Display(r, ctx) = Display(p, ctx)
    BY <1>2, DisplayAgain
<1>6. r.digest = p.digest /\ r.expected = p.expected /\ r.timestamp = p.timestamp
    BY ReadBackIs
<1> QED BY <1>3, <1>4, <1>5, <1>6

\* A line that was written is read again as the snapshot of its file, whatever
\* the file, its site and its capture are, if the digests that captures were
\* expected to have are digests: the line encodes to the bytes of the file, has
\* the capture it was given, and written again is the same line.
THEOREM LinesAreRestored == ExpectedAreDigests => (SnapshotSpec => []LinesRestoreFiles)
<1> SUFFICES ASSUME ExpectedAreDigests PROVE SnapshotSpec => []LinesRestoreFiles
    OBVIOUS
<1>1. SnapshotInit => PackInv
    BY PackInvInit
<1>2. Given /\ ReadersInv /\ PackInv /\ [SnapshotNext]_lineVars => PackInv'
  <2>1. ReadersInv => lines \in Seq(Line)
      BY DEF ReadersInv, ReadersType
  <2> QED BY <2>1, PackInvStep
<1>3. Given /\ PackInv => LinesRestoreFiles
  <2> SUFFICES ASSUME Given, PackInv, pc = "pack", lines # <<>>
               PROVE  /\ Parsed(lines[Len(lines)])
                      /\ LET s == Snapshot(lines[Len(lines)])
                             p == packed[Len(packed)]
                         IN /\ Verifies(s, site) /\ s.digest = p.digest
                            /\ s.expected = p.expected /\ s.timestamp = p.timestamp
                            /\ s.url = p.url \/ (s.url = {} /\ site.query /\ p.url = Inferred(s.content))
                            /\ Display(s, site) = lines[Len(lines)]
      BY DEF LinesRestoreFiles
  <2> DEFINE p == packed[Len(packed)]
             line == lines[Len(lines)]
             s == Snapshot(line)
  <2>1. /\ packed \in Seq(Snapshots) /\ Len(lines) = Len(packed) /\ Intact
        /\ \A i \in DOMAIN packed : IsPacked(packed[i], site)
      BY DEF PackInv
  <2>2. lines = [i \in DOMAIN packed |-> Display(packed[i], site)]
      BY <2>1 DEF Intact
  <2>3. packed # <<>>
      BY <2>2
  <2>4. Len(packed) \in DOMAIN packed
      BY <2>1, <2>3
  <2>5. line = Display(p, site) /\ IsPacked(p, site)
      BY <2>1, <2>2, <2>4
  <2>6. site \in Contexts
      BY DEF Given
  <2> HIDE DEF p, line
  <2>7. Parsed(line) /\ s = ReadBack(p, site)
      BY <2>5, <2>6, PackedIsRead
  <2> HIDE DEF s
  <2>8. /\ Verifies(s, site) /\ s.digest = p.digest
        /\ s.expected = p.expected /\ s.timestamp = p.timestamp
        /\ s.url = p.url \/ (s.url = {} /\ site.query /\ p.url = Inferred(s.content))
        /\ Display(s, site) = Display(p, site)
      BY <2>5, <2>6, <2>7, PackedIsRestored
  <2> QED BY <2>5, <2>7, <2>8, Zenon DEF p, line, s
<1> QED BY <1>1, <1>2, <1>3, ReadersInvHolds, PTL DEF SnapshotSpec

-----------------------------------------------------------------------------
(* What the readers find in lines as they were written.                     *)

LEMMA IntactIsRead ==
    ASSUME ExpectedAreDigests, Given, PackInv, Intact
    PROVE  /\ DOMAIN lines = DOMAIN packed
           /\ \A i \in DOMAIN lines :
                /\ Parsed(lines[i]) /\ Snapshot(lines[i]) = ReadBack(packed[i], site)
                /\ Verifies(Snapshot(lines[i]), site) /\ Digest(i) = packed[i].digest
                /\ packed[i] \in Snapshots
<1>1. site \in Contexts
    BY DEF Given
<1>2. lines = [i \in DOMAIN packed |-> Display(packed[i], site)]
    BY DEF Intact
<1>3. DOMAIN lines = DOMAIN packed
    BY <1>2
<1>4. ASSUME NEW i \in DOMAIN lines
      PROVE  /\ Parsed(lines[i]) /\ Snapshot(lines[i]) = ReadBack(packed[i], site)
             /\ Verifies(Snapshot(lines[i]), site) /\ Digest(i) = packed[i].digest
             /\ packed[i] \in Snapshots
  <2> DEFINE p == packed[i]
             line == lines[i]
             r == Snapshot(line)
  <2>1. line = Display(p, site)
      BY <1>2, <1>3
  <2>2. IsPacked(p, site)
      BY <1>3 DEF PackInv
  <2>3. p \in Snapshots
      BY <1>3 DEF PackInv
  <2> HIDE DEF p, line
  <2>4. Parsed(line) /\ r = ReadBack(p, site)
      BY <1>1, <2>1, <2>2, PackedIsRead
  <2> HIDE DEF r
  <2>5. Verifies(r, site) /\ r.digest = p.digest
      BY <1>1, <2>2, <2>4, PackedIsRestored
  <2> QED BY <2>3, <2>4, <2>5, Zenon DEF p, line, r, Digest
<1> QED BY <1>3, <1>4

LEMMA Cancelled ==
    ASSUME NEW a \in Seq(Symbols), NEW v \in Seq(Symbols), NEW w \in Seq(Symbols), a \o v = a \o w
    PROVE  v = w
<1>1. Len(a \o v) = Len(a) + Len(v) /\ Len(a \o w) = Len(a) + Len(w)
    OBVIOUS
<1>2. Len(v) = Len(w) /\ Len(v) \in Nat /\ Len(a) \in Nat
    BY <1>1
<1>3. ASSUME NEW k \in 1 .. Len(v) PROVE v[k] = w[k]
  <2>1. (a \o v)[Len(a) + k] = v[k]
      BY <1>2
  <2>2. (a \o w)[Len(a) + k] = w[k]
      BY <1>2
  <2> QED BY <2>1, <2>2
<1> QED BY <1>2, <1>3

LEMMA CandidatesAre ==
    /\ Len(Candidates) = 3
    /\ \A g \in 1 .. Len(Candidates) : Candidates[g] \in Seq(Symbols) /\ Candidates[g] # <<>>
<1>1. {"\r", "\n"} \subseteq Symbols
    BY SymbolsAssumption
<1>2. Len(Candidates) = 3
    BY DEF Candidates
<1>3. \A g \in 1 .. 3 : g = 1 \/ g = 2 \/ g = 3
    OBVIOUS
<1>4. Candidates[1] \in Seq(Symbols) /\ Candidates[2] \in Seq(Symbols) /\ Candidates[3] \in Seq(Symbols)
    BY <1>1 DEF Candidates
<1>5. Candidates[1] # <<>> /\ Candidates[2] # <<>> /\ Candidates[3] # <<>>
    BY DEF Candidates
<1> QED BY <1>2, <1>3, <1>4, <1>5

\* A sample verifies with the whitespace of its site, and with no other.
LEMMA SamplesTell ==
    ASSUME ExpectedAreDigests, Given, PackInv, Intact, NEW i \in DOMAIN lines, IsSample(lines[i]),
           NEW ctx, ctx.whitespace \in Seq(Symbols)
    PROVE  Verifies(Snapshot(lines[i]), ctx) <=> ctx.whitespace = site.whitespace
<1> DEFINE r == Snapshot(lines[i])
<1>1. r.format.name = "utf8" /\ r.format.whitespace = {}
    BY DEF IsSample, Qualifies, Snapshot
<1>2. Verifies(r, site) /\ packed[i] \in Snapshots /\ r = ReadBack(packed[i], site)
    BY IntactIsRead
<1>3. r.content \in Seq(Symbols)
  <2>1. r.content = packed[i].content
      BY <1>2, ReadBackIs
  <2> QED BY <1>2, <2>1 DEF Snapshots
<1>4. site.whitespace \in Seq(Symbols)
  <2>1. Whitespace \subseteq Symbols
      BY SymbolsAssumption DEF Whitespace
  <2>2. site.whitespace \in Seq(Whitespace)
      BY LinesAssumption DEF Given
  <2> QED BY <2>1, <2>2
<1> HIDE DEF r
<1>5. ASSUME NEW c PROVE Verifies(r, c) <=> r.content \o c.whitespace = r.digest
  <2>1. Effective(r, c) = c.whitespace
      BY <1>1 DEF Effective, The
  <2> QED BY <1>1, <2>1 DEF Verifies, Supported, Encode
<1>6. r.content \o site.whitespace = r.digest
    BY <1>2, <1>5
<1>7. Verifies(r, ctx) <=> r.content \o ctx.whitespace = r.content \o site.whitespace
    BY <1>5, <1>6
<1>8. r.content \o ctx.whitespace = r.content \o site.whitespace <=> ctx.whitespace = site.whitespace
    BY <1>3, <1>4, Cancelled
<1> QED BY <1>7, <1>8 DEF r

-----------------------------------------------------------------------------
(* The context that is inferred *)

\* If there are samples enough, then the first line that is one is among them.
LEMMA SamplesThere ==
    ASSUME ReadersType, HasSamples(lines)
    PROVE  \E i \in DOMAIN lines : i \in Samples(lines) /\ IsSample(lines[i])
<1> DEFINE S == SampleLines(lines)
<1>1. DOMAIN lines = 1 .. Len(lines) /\ Len(lines) \in Nat /\ SampleSize \in Nat \ {0}
    BY LinesAssumption DEF ReadersType
<1>2. S \subseteq 1 .. Len(lines) /\ \A i \in S : IsSample(lines[i])
    BY <1>1 DEF SampleLines
<1>3. S # {}
  <2>1. ~ (0 >= SampleSize)
      BY <1>1
  <2> QED BY <2>1, FS_EmptySet DEF HasSamples
<1> HIDE DEF S
<1>4. PICK m \in S : \A j \in S : m <= j
    BY <1>1, <1>2, <1>3, NatHasLeast
<1>5. {j \in S : j <= m} = {m}
  <2>1. ASSUME NEW j \in S, j <= m PROVE j = m
    <3>1. m \in Int /\ j \in Int /\ m <= j
        BY <1>2, <1>4
    <3> QED BY <2>1, <3>1
  <2>2. m \in Int
      BY <1>2
  <2>3. m <= m
      BY <2>2
  <2> QED BY <2>1, <2>3
<1>6. Cardinality({j \in S : j <= m}) <= SampleSize
  <2>1. Cardinality({m}) = 1
      BY FS_Singleton
  <2>2. 1 <= SampleSize
      BY <1>1
  <2> QED BY <1>5, <2>1, <2>2, Zenon
<1>7. m \in Samples(lines)
    BY <1>4, <1>6 DEF Samples, FirstOf, S
<1> QED BY <1>1, <1>2, <1>4, <1>7

LEMMA InferredIsSound ==
    ASSUME ExpectedAreDigests, Given, ReadersType, PackInv, Intact,
           NEW ctx, ctx = Inference(lines)
    PROVE  /\ ctx.whitespace \in {site.whitespace, <<>>}
           /\ IsCandidate(site.whitespace) /\ HasSamples(lines) => ctx.whitespace = site.whitespace
<1>1. ASSUME NEW w PROVE InContext(w).whitespace = w
    BY DEF InContext
<1>2. ctx.whitespace = IF HasSamples(lines) /\ Fitting(lines) # {} THEN Candidates[Min(Fitting(lines))] ELSE <<>>
    BY <1>1 DEF Inference, BestOf
<1>3. CASE ~ HasSamples(lines)
    BY <1>2, <1>3
<1>4. CASE HasSamples(lines)
  <2>1. PICK first \in DOMAIN lines : first \in Samples(lines) /\ IsSample(lines[first])
      BY <1>4, SamplesThere
  <2>2. \A i \in Samples(lines) : i \in DOMAIN lines /\ IsSample(lines[i])
      BY DEF Samples, FirstOf, SampleLines
  <2>3. DOMAIN Candidates = 1 .. 3 /\ \A k \in 1 .. 3 : Candidates[k] \in Seq(Symbols)
      BY CandidatesAre DEF Candidates
  <2>4. ASSUME NEW k \in DOMAIN Candidates PROVE k \in Fitting(lines) <=> Candidates[k] = site.whitespace
    <3> DEFINE guess == InContext(Candidates[k])
    <3>1. guess.whitespace = Candidates[k] /\ guess.whitespace \in Seq(Symbols)
        BY <1>1, <2>3
    <3>2. k \in Fitting(lines) <=> \A i \in Samples(lines) : Verifies(Snapshot(lines[i]), guess)
        BY DEF Fitting
    <3> HIDE DEF guess
    <3>3. \A i \in Samples(lines) : Verifies(Snapshot(lines[i]), guess) <=> guess.whitespace = site.whitespace
        BY <2>2, <3>1, SamplesTell
    <3> QED BY <2>1, <3>1, <3>2, <3>3
  <2>5. Fitting(lines) # {} => Min(Fitting(lines)) \in Fitting(lines) /\ Min(Fitting(lines)) \in DOMAIN Candidates
    <3> DEFINE F == Fitting(lines)
    <3>1. F \subseteq 1 .. 3
        BY <2>3 DEF Fitting
    <3> HIDE DEF F
    <3> SUFFICES ASSUME F # {} PROVE Min(F) \in F /\ Min(F) \in 1 .. 3
        BY <2>3 DEF F
    <3>2. PICK m \in F : \A j \in F : m <= j
        BY <3>1, NatHasLeast
    <3>3. Min(F) = m
      <4>1. F \in SUBSET Int
          BY <3>1
      <4> QED BY <3>2, <4>1, MinIs
    <3> QED BY <3>1, <3>2, <3>3
  <2>6. Fitting(lines) # {} => ctx.whitespace = site.whitespace
      BY <1>2, <1>4, <2>4, <2>5
  <2>7. IsCandidate(site.whitespace) => Fitting(lines) # {}
      BY <2>4 DEF IsCandidate
  <2> QED BY <1>2, <2>6, <2>7
<1> QED BY <1>3, <1>4

LEMMA SoundStep ==
    ASSUME ExpectedAreDigests, Given, ReadersType, PackInv, InferenceIsSound, [SnapshotNext]_lineVars
    PROVE  InferenceIsSound'
<1>1. CASE StartExport
  <2>1. UNCHANGED <<lines, packed, site>> /\ (pc' = "export" => exportAs' = Inference(lines))
      BY <1>1 DEF StartExport, source
  <2>2. Intact' <=> Intact
      BY <2>1 DEF Intact
  <2> SUFFICES ASSUME pc' = "export", Intact
               PROVE  /\ exportAs'.whitespace \in {site.whitespace, <<>>}
                      /\ IsCandidate(site.whitespace) /\ HasSamples(lines) => exportAs'.whitespace = site.whitespace
      BY <2>1, <2>2 DEF InferenceIsSound
  <2> QED BY <2>1, InferredIsSound
<1>2. CASE ExportLine \/ UNCHANGED lineVars
  <2>1. UNCHANGED <<lines, packed, site, exportAs>> /\ (pc' = "export" => pc = "export")
      BY <1>2 DEF ExportLine, lineVars, source, exporting
  <2>2. Intact' <=> Intact
      BY <2>1 DEF Intact
  <2> QED BY <2>1, <2>2 DEF InferenceIsSound
<1>3. CASE Pack \/ HandOver \/ ResolveContext \/ VerifyLine \/ ValidateLine
  <2>1. pc' # "export"
      BY <1>3 DEF Pack, HandOver, ResolveContext, VerifyLine, ValidateLine
  <2> QED BY <2>1 DEF InferenceIsSound
<1> QED BY <1>1, <1>2, <1>3 DEF SnapshotNext

\* Each digest of a clean file is in it once.
LEMMA CleanAreDistinct ==
    ASSUME ReadersType, Clean
    PROVE  Cardinality({Digest(i) : i \in DOMAIN lines}) = Len(lines)
<1> DEFINE All == {Digest(i) : i \in DOMAIN lines}
           digest == [i \in DOMAIN lines |-> Digest(i)]
<1>1. DOMAIN lines = 1 .. Len(lines) /\ Len(lines) \in Nat
    BY DEF ReadersType
<1>2. IsFiniteSet(DOMAIN lines) /\ Cardinality(DOMAIN lines) = Len(lines)
  <2>1. \A n \in Nat : IsFiniteSet(1 .. n) /\ Cardinality(1 .. n) = n
    <3> SUFFICES ASSUME NEW n \in Nat PROVE IsFiniteSet(1 .. n) /\ Cardinality(1 .. n) = n
        OBVIOUS
    <3>1. IsFiniteSet(1 .. n) /\ Cardinality(1 .. n) = IF 1 > n THEN 0 ELSE n - 1 + 1
        BY FS_Interval
    <3>2. 1 > n => n = 0
        OBVIOUS
    <3> QED BY <3>1, <3>2
  <2> QED BY <1>1, <2>1, Zenon
<1>3. ASSUME NEW i \in DOMAIN lines, NEW j \in DOMAIN lines, Digest(i) = Digest(j) PROVE i = j
  <2>1. /\ Digest(i) \in Digests /\ ~ (Before(Digest(i), Digest(j)) /\ Before(Digest(j), Digest(i)))
        /\ i < j => Before(Digest(i), Digest(j))
        /\ j < i => Before(Digest(j), Digest(i))
      BY <1>1, <1>3, CleanAscends, OrderAssumption
  <2>2. i < j \/ i = j \/ j < i
      BY <1>1
  <2> QED BY <1>3, <2>1, <2>2
<1>4. digest \in Surjection(DOMAIN lines, All)
    BY DEF Surjection
<1>5. digest \in Injection(DOMAIN lines, All)
    BY <1>3 DEF Injection, IsInjective
<1> HIDE DEF digest, All
<1>6. Cardinality(All) = Cardinality(DOMAIN lines)
    BY <1>2, <1>4, <1>5, FS_Surjection
<1> QED BY <1>2, <1>6 DEF All

\* Lines as they were written are a clean file, for who knows their whitespace.
LEMMA IntactIsClean ==
    ASSUME ExpectedAreDigests, Given, ReadersType, PackInv, Intact, context.whitespace = site.whitespace
    PROVE  Clean
<1> SUFFICES ASSUME NEW i \in 1 .. Len(lines)
             PROVE  Good(i) /\ (i > 1 => Before(Digest(i - 1), Digest(i)))
    BY DEF Clean, CleanTo
<1>1. DOMAIN lines = 1 .. Len(lines) /\ Len(lines) \in Nat
    BY DEF ReadersType
<1>2. /\ DOMAIN packed = DOMAIN lines
      /\ \A k \in DOMAIN lines : Parsed(lines[k]) /\ Verifies(Snapshot(lines[k]), site) /\ Digest(k) = packed[k].digest
    BY IntactIsRead
<1>3. Verifies(Snapshot(lines[i]), context)
    BY <1>1, <1>2, OnlyWhitespaceCounts
<1>4. ASSUME i > 1 PROVE Before(Digest(i - 1), Digest(i))
  <2>1. i - 1 \in DOMAIN lines /\ i \in DOMAIN lines
      BY <1>1, <1>4
  <2>2. Before(packed[i - 1].digest, packed[i].digest)
      BY <1>2, <1>4, <2>1 DEF PackInv, PackedAscend
  <2> QED BY <1>2, <2>1, <2>2, Zenon
<1> QED BY <1>1, <1>2, <1>3, <1>4 DEF Good

LEMMA ReadersDoAgree ==
    ASSUME ExpectedAreDigests, Given, ReadersInv, PackInv
    PROVE  ReadersAgree
<1> SUFFICES ASSUME outcome.validate # "none"
             PROVE  /\ (outcome.validate = "clean")
                         <=> (outcome.verify = "clean" /\ \A i \in DOMAIN lines : ~ TooLong(lines[i]))
                    /\ outcome.verify = "clean" =>
                         /\ \A i \in DOMAIN lines : Encode(Snapshot(lines[i]), context) = Snapshot(lines[i]).digest
                         /\ Cardinality({Snapshot(lines[i]).digest : i \in DOMAIN lines}) = Len(lines)
                    /\ Intact /\ context.whitespace = site.whitespace => outcome.verify = "clean"
    BY DEF ReadersAgree
<1>1. /\ ReadersType /\ (outcome.verify = "clean" <=> Clean)
      /\ outcome.validate = "clean" <=> Clean /\ \A i \in DOMAIN lines : ~ TooLong(lines[i])
    BY DEF ReadersInv, OutcomeInv, NoneTooLong
<1>2. ASSUME Clean
      PROVE  /\ \A i \in DOMAIN lines : Encode(Snapshot(lines[i]), context) = Snapshot(lines[i]).digest
             /\ Cardinality({Snapshot(lines[i]).digest : i \in DOMAIN lines}) = Len(lines)
  <2>1. DOMAIN lines = 1 .. Len(lines)
      BY <1>1 DEF ReadersType
  <2>2. \A i \in DOMAIN lines : Good(i)
      BY <1>1, <1>2, <2>1, CleanAscends
  <2>3. Cardinality({Digest(i) : i \in DOMAIN lines}) = Len(lines)
      BY <1>1, <1>2, CleanAreDistinct
  <2> QED BY <2>2, <2>3 DEF Good, Verifies, Digest
<1>3. Intact /\ context.whitespace = site.whitespace => Clean
    BY <1>1, IntactIsClean
<1> QED BY <1>1, <1>2, <1>3

\* The readers are right about any file: lines as they were written are never
\* exported with the whitespace of another site, and with samples enough with
\* that of their own; in one context validate finds clean what verify does,
\* unless it stops at a line that is too long; in a clean file no digest is
\* twice and each line encodes to its digest; and lines as they were written
\* are such files in the context of their site, if the digests that captures
\* were expected to have are digests.
THEOREM ReadersAreAlwaysRight == ExpectedAreDigests => (SnapshotSpec => []ReadersAreRight)
<1> SUFFICES ASSUME ExpectedAreDigests PROVE SnapshotSpec => []ReadersAreRight
    OBVIOUS
<1>1. SnapshotInit => PackInv /\ InferenceIsSound
    BY PackInvInit DEF SnapshotInit, InferenceIsSound
<1>2. ReadersInv => ReadersType /\ lines \in Seq(Line)
    BY DEF ReadersInv, ReadersType
<1>3. Given /\ ReadersInv /\ PackInv /\ InferenceIsSound /\ [SnapshotNext]_lineVars => PackInv' /\ InferenceIsSound'
    BY <1>2, PackInvStep, SoundStep
<1>4. Given /\ ReadersInv /\ PackInv /\ InferenceIsSound => ReadersAreRight
    BY ReadersDoAgree DEF ReadersAreRight
<1> QED BY <1>1, <1>3, <1>4, ReadersInvHolds, PTL DEF SnapshotSpec
=============================================================================
