------------------------------ MODULE MCFormats ------------------------------
(***************************************************************************)
(* The formats of files, one at a time: a behaviour is one compression     *)
(* with Go's algorithm, the writing of one compressed stream, the search   *)
(* for the parameters of one archive, or one file of snapshot lines and    *)
(* its readers; the others are at rest.                                    *)
(***************************************************************************)
EXTENDS GoDeflate, GoHuffman, GzipArchives, SnapshotLines, TLC

Words == {<<0, 0, 0, 0, 0, 0, 0>>, <<0, 1, 0, 1, 0>>, <<1, 2, 0, 1, 2, 2>>, <<2>>, <<0, 1, 2, 0, 1>>}
MCContents ==
    {<<>>} \cup Words \cup {a \o b : a \in Words, b \in Words}
    \cup {a \o b \o c \o d \o b : a \in Words, b \in Words, c \in Words, d \in Words}
MCHashOf(bytes) == FoldLeft(+, 0, [k \in DOMAIN bytes |-> k * bytes[k]]) % HashSize
MCLevels ==
    {[good |-> 4, lazy |-> 3, nice |-> 3, chain |-> 2], [good |-> 4, lazy |-> 5, nice |-> 5, chain |-> 4]}

Byte(b) == LiteralToken(b)
Match(l, o) == [length |-> l, offset |-> o, byte |-> 0]
Repeat(t, n) == [i \in 1 .. n |-> t]
MatchTails ==
    {<<>>, <<Match(258, 32768), Match(3, 1), Match(10, 4)>>,
     <<Match(257, 257), Match(115, 16385), Match(35, 6), Match(5, 24577), Match(5, 12288)>>}
MCTokens ==
    {<<>>, <<Byte(0)>>, Repeat(Byte(97), 3) \o <<Match(3, 1)>>,
     <<Byte(1), Byte(2)>> \o Repeat(Byte(3), 2) \o Repeat(Byte(4), 4) \o Repeat(Byte(5), 8)
        \o Repeat(Byte(6), 16)}
    \cup {Repeat(Byte(97), a) \o Repeat(Byte(98), b) \o Repeat(Byte(200), c) \o Repeat(Byte(10), d) \o m :
             a \in {1, 7}, b \in {0, 3}, c \in {0, 5}, d \in {1, 9}, m \in MatchTails}
Size(toks) == FoldLeft(LAMBDA n, t : n + (IF t.length = 0 THEN 1 ELSE t.length), 0, toks)
Held(toks) ==
    [i \in 1 .. Size(toks) |->
        IF i <= Len(toks) /\ toks[i].length = 0 THEN toks[i].byte ELSE 7]
StoredBlock(toks, held) ==
    [tokens |-> toks, input |-> IF held THEN Held(toks) ELSE <<>>, held |-> held, eof |-> FALSE]
LastBlock == StoredBlock(Repeat(Byte(98), 12) \o Repeat(Byte(3), 2), TRUE)
MCStreams ==
    {<<StoredBlock(t, h)>> : t \in MCTokens, h \in BOOLEAN}
    \cup {<<StoredBlock(t, h), LastBlock>> : t \in MCTokens, h \in BOOLEAN}

\* Short texts compress alike; some levels of a library do the same.
MCClassOf(c, l, t) ==
    CASE Len(t) = 1 -> 0
      [] Len(t) # 1 /\ c = "go" -> 10 + l
      [] Len(t) # 1 /\ c = "zlib" -> IF l \in {4, 5} THEN 24 ELSE 20 + l
      [] OTHER -> IF Len(t) = 2 THEN 20 + l ELSE 30 + l
MCHidden(class, t) ==
    CASE class = 28 -> <<1>>
      [] class = 39 /\ 2 \in {t[i] : i \in DOMAIN t} -> <<Len(t)>>
      [] OTHER -> <<>>
Wrap(p, t) == [sound |-> TRUE, tail |-> FALSE, by |-> p] @@ Reproduce(p, t)
Splits ==
    {<< <<>>, <<>> >>, << <<1>>, <<>> >>, << <<1, 2>>, <<>> >>, << <<1, 2>>, <<1>> >>,
     << <<1, 1, 2, 1>>, <<1, 3>> >>, << <<2, 1, 1, 2, 1>>, <<2>> >>,
     << <<1, 1, 1, 1, 1, 1>>, <<>> >>, << <<1, 0>>, <<>> >>}
MadeByZlib ==
    {Wrap(Params(c, l, m, o, s[2], e), s[1]) :
        c \in {"zlib", "zlib-ng"}, l \in {1, 5, 8, 9}, m \in {0, 7}, o \in OsBytes, e \in {0, 1, 2}, s \in Splits}
MadeByGo == {Wrap(Params("go", l, 0, 255, <<>>, 0), s[1]) : l \in 4 .. 9, s \in Splits}
Plain == Wrap(Params("zlib", 5, 7, 3, <<>>, 0), <<1, 2>>)
ZlibData(t) == Data("zlib", 5, t)
Bodies ==
    {ZlibData(<<1, 2>>) \o <<Final>>,
     <<Marker>> \o ZlibData(<<1, 2>>) \o <<Marker, Final>>,
     ZlibData(<<1>>) \o <<Marker, Marker>> \o ZlibData(<<2>>) \o <<Marker, Final>>,
     ZlibData(<<1>>) \o <<Marker>> \o ZlibData(<<2>>) \o <<Final>>,
     Data("zlib", 2, <<1, 2>>) \o <<Marker>> \o Data("zlib", 3, <<2, 2>>) \o <<Marker, Final>>,
     ZlibData(<<1, 2>>) \o Repeat(Marker, 5) \o <<Final>>}
Unmade(a) == [a EXCEPT !.by = NoParams]
Strange ==
    {Unmade([Plain EXCEPT !.sound = FALSE]), Unmade([Plain EXCEPT !.tail = TRUE]),
     Unmade([Plain EXCEPT !.header.os = 0]), Unmade([Plain EXCEPT !.header.flags = 8]),
     Unmade([Plain EXCEPT !.header.xfl = 3]), Unmade(Wrap(Params("go", 3, 0, 255, <<>>, 0), <<1, 2>>))}
    \cup {Unmade([Plain EXCEPT !.body = b]) : b \in Bodies}
MCArchives == MadeByZlib \cup MadeByGo \cup Strange
MCTexts == {<<>>, <<1, 2, 1>>} \cup {Repeat(1, n) : n \in 18 .. 21}
MCMetadata ==
    {Params(c, l, 7, 3, f, e) :
        c \in {"go", "zlib", "zlib-ng"}, l \in {0, 3, 9, 10},
        f \in {<<>>, <<0>>, <<3>>, <<1, 2>>, <<2, 1>>, <<2, 2>>, <<1, 19>>}, e \in {0, 3}}

MCSymbols ==
    {Quote, Escape, Open, Shut, Sep, Colon, "n", "r", "t", " ", "\t", "\r", "\n", "sha1", "gz", "utf8", "gzip",
     "digest", "expected_digest", "timestamp", "url", "format", "content", "type", "closing_whitespace", "level"}
    \cup {"5", "m", "odd", "t1", "u", "x", "y", "zip"}
MCCode(c) ==
    CASE c = "gz" -> 9 [] c = "x" -> 1 [] c = "\n" -> 2 [] c = "\r" -> 3 [] c = " " -> 4 [] c = "5" -> 5
      [] c = "m" -> 6 [] c = "u" -> 7 [] OTHER -> 8
Zipped == <<"gz", "5", "u", " ", "\r", "\n">>
MCFiles ==
    {<<"x", "\r", "\n">>, <<"x", "\n">>, <<"m", "\r", "\n">>, <<"u", "}", "\r", "\n">>, <<"\n">>,
     <<"x", "\n", "\r">>, <<"x">>, Zipped}
MCFileSets ==
    kSubset(2, MCFiles)
    \cup {{<<"x", "\r", "\n">>, <<"m", "\r", "\n">>, <<"x", "\n">>},
          {<<"x", "\n">>, <<"\n">>, <<"x">>, <<"u", "}", "\r", "\n">>},
          {<<"x">>, <<"x", "\n", "x", "\n">>}, {<<"x">>, <<"gz", "odd", "u">>}}
MCRequests ==
    {{<<"x">>, <<"x", "\n">>, Zipped},
     {<<"m", "\r", "\n">>, <<"x", "\r", "\n">>, <<"u">>, <<"u", "}", "\r", "\n">>}}
MCContexts ==
    {[whitespace |-> <<"\n">>, query |-> TRUE]}
    \cup {[whitespace |-> w, query |-> FALSE] : w \in {<<"\r", "\n">>, <<"\n">>, <<" ">>}}
Capture(e, t, u) == [expected |-> e, timestamp |-> t, url |-> u]
MCDigests == UNION (MCFileSets \cup MCRequests)
MCCdx ==
    {Capture({}, {}, {}), Capture({}, {}, {<<Quote>>}),
     Capture({<<DigestToken(<<"x">>)>>}, {<<"t1">>}, {<<"u">>})}
\* A digest the archive's index lists need not be one.
MCCdxAny == {Capture({<<Char("x"), Char("y")>>}, {<<"t1">>}, {<<"u">>})} \cup MCCdx
MCTimestamps == {<<"t1">>}
MCFormat(b) ==
    CASE IsGzip(b) /\ b[2] # "odd" -> [name |-> "gzip", metadata |-> <<b[2]>>]
      [] ~IsGzip(b) /\ b[1] = "m" -> [name |-> "utf8", metadata |-> <<Quote, "}">>]
      [] OTHER -> [name |-> "utf8", metadata |-> <<>>]
MCInferred(c) == IF c # <<>> /\ c[1] = "u" THEN {<<"u">>} ELSE {}
Renamed(line) ==
    Display([Snapshot(line) EXCEPT !.format.name = "zip"], InContext(<<>>))
Broken(line) ==
    {SubSeq(line, 1, Len(line) - 1), SubSeq(line, 1, Len(line) - 2) \o Chars(<<"}">>), Renamed(line)}
MCDamaged(ls) ==
    IF Len(ls) # 2 THEN {}
    ELSE {<<ls[2], ls[1]>>, <<ls[1], ls[1], ls[2]>>, <<ls[1], <<>>, ls[2]>>}
         \cup {<<ls[1], b>> : b \in Broken(ls[2])} \cup {<<b, ls[2]>> : b \in Broken(ls[1])}
MCUndamaged(ls) == {}
MCTooLong(line) == Len(line) > 60
-----------------------------------------------------------------------------
\* A format that is not the one at work.
DeflateAtRest ==
    /\ data = <<>>
    /\ params = [good |-> 4, lazy |-> 3, nice |-> 3, chain |-> 2]
    /\ taken = 0 /\ windowEnd = 0 /\ index = 0 /\ blockStart = 0
    /\ window = <<>>
    /\ byteAvailable = FALSE /\ length = 0 /\ offset = 0
    /\ chainHead = 0 /\ hashOffset = 0
    /\ hash = [head |-> <<>>, prev |-> <<>>]
    /\ tokens = <<>> /\ blocks = <<>> /\ sync = FALSE
    /\ step = "rest"
HuffmanAtRest ==
    /\ stream = <<>> /\ current = 0
    /\ freq = <<>> /\ codes = <<>> /\ lengths = <<>> /\ sizes = <<>> /\ out = <<>>
    /\ phase = "rest"
GzipAtRest ==
    /\ archive = Plain
    /\ content = <<>> /\ level = 4 /\ compressor = "zlib"
    /\ marks = <<>> /\ flushes = <<>> /\ trailing = 0 /\ found = NoParams
    /\ text = <<>> /\ encoded = [is |-> "nothing"] /\ panicked = FALSE
    /\ stage = "rest"
LinesAtRest ==
    /\ files = {} /\ site = [whitespace |-> <<>>, query |-> FALSE]
    /\ packed = <<>> /\ lines = <<>>
    /\ context = InContext(<<>>)
    /\ at = 1 /\ last = {} /\ counts = NoCounts
    /\ outcome = [verify |-> "none", validate |-> "none"]
    /\ asked = {} /\ exportAs = InContext(<<>>) /\ requested = {} /\ exported = <<>>
    /\ pc = "rest"

NotDeflate == UNCHANGED <<huffmanVars, gzipVars, lineVars>>
NotHuffman == UNCHANGED <<deflateVars, gzipVars, lineVars>>
NotGzip == UNCHANGED <<deflateVars, huffmanVars, lineVars>>
NotLines == UNCHANGED <<deflateVars, huffmanVars, gzipVars>>

FormatInit ==
    \/ DeflateInit /\ HuffmanAtRest /\ GzipAtRest /\ LinesAtRest
    \/ DeflateAtRest /\ HuffmanInit /\ GzipAtRest /\ LinesAtRest
    \/ DeflateAtRest /\ HuffmanAtRest /\ GzipInit /\ LinesAtRest
    \/ DeflateAtRest /\ HuffmanAtRest /\ GzipAtRest /\ SnapshotInit
FormatNext ==
    \/ DeflateNext /\ NotDeflate
    \/ HuffmanNext /\ NotHuffman
    \/ GzipNext /\ NotGzip
    \/ SnapshotNext /\ NotLines
FormatSpec == FormatInit /\ [][FormatNext]_<<deflateVars, huffmanVars, gzipVars, lineVars>>
LinesSpec ==
    /\ DeflateAtRest /\ HuffmanAtRest /\ GzipAtRest /\ SnapshotInit
    /\ [][SnapshotNext /\ NotLines]_<<deflateVars, huffmanVars, gzipVars, lineVars>>
=============================================================================
