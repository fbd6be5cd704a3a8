--------------------------- MODULE SnapshotLines ---------------------------
(***************************************************************************)
(* crates/json: a stored file as a line of JSON Lines, and back.  A        *)
(* context is the whitespace that closes most files of a site and a query  *)
(* for the URL.  Files are packed in the order of their digests; then the  *)
(* lines are read: they are verified (verify_file, validate_lines) in a    *)
(* context that is given or inferred from samples, and some files are      *)
(* exported again, in a context that is always inferred.                   *)
(*                                                                         *)
(* A text is a sequence of characters, a file of its bytes: a text, or     *)
(* <<"gz", level>> and a text.  The digest of a file is its bytes, which   *)
(* have no collisions.  A line is a sequence of tokens: a character, a     *)
(* word of the schema, a timestamp, or a digest, in place of its 32        *)
(* characters.  An optional value is the set of its values.                *)
(***************************************************************************)
EXTENDS Integers, Sequences, FiniteSetsExt

CONSTANTS Symbols,           \* characters, and words of the schema
          Digests,           \* all that files, lines and requests may have
          FileSets,          \* the files to be packed
          Cdx,               \* [expected, timestamp, url] of a file
          Timestamps,
          Format(_),         \* of a file's bytes, by the caller: [name, metadata]
          Contexts,          \* [whitespace, query]
          Damaged(_),        \* a file of lines: what may be found in its place
          TooLong(_),        \* a line that archivindex_lines does not read
          Inferred(_),       \* a content: the URL that the query gives
          Code(_),           \* the order of characters
          Requests,          \* what is asked of export: sets of digests
          SampleSize

VARIABLES files, site, packed, lines, context, at, last, counts, outcome,
          asked, exportAs, requested, exported, pc
source == <<files, site, packed, lines>>
exporting == <<asked, exportAs, requested, exported>>
lineVars == <<source, context, at, last, counts, outcome, exporting, pc>>

Whitespace == {" ", "\t", "\r", "\n"}
Candidates == << <<"\n">>, <<"\r", "\n">>, <<"\r", "\r", "\n">> >>
InContext(whitespace) == [whitespace |-> whitespace, query |-> FALSE]
Quote == "\""
Escape == "\\"
Open == "{"
Shut == "}"
Sep == ","
Colon == ":"

Char(c) == <<c>>
Chars(s) == [i \in DOMAIN s |-> Char(s[i])]
DigestToken(d) == <<"sha1">> \o d
LineToken == Seq(Symbols) \ {<<>>}
Line == Seq(LineToken)
IsDigest(token) == \E d \in Digests : token = DigestToken(d)
DigestOf(token) == CHOOSE d \in Digests : IsDigest(token) => token = DigestToken(d)
IsOptional(values) == \A v, w \in values : v = w
The(values, default) == IF values = {} THEN default ELSE CHOOSE v \in values : TRUE

Before(d, e) ==
  \E k \in 0 .. Len(d) :
    /\ k < Len(e) /\ \A i \in 1 .. k : d[i] = e[i]
    /\ k < Len(d) => Code(d[k + 1]) < Code(e[k + 1])

ASSUME SymbolsAssumption ==
  {Quote, Escape, Open, Shut, Sep, Colon, "n", "r", "t", " ", "\t", "\r", "\n", "sha1", "gz", "utf8", "gzip",
   "digest", "expected_digest", "timestamp", "url", "format", "content", "type", "closing_whitespace", "level"}
    \subseteq Symbols
ASSUME OrderAssumption ==
  /\ \A d, e \in Digests : (Before(d, e) \/ d = e \/ Before(e, d)) /\ ~ (Before(d, e) /\ Before(e, d))
  /\ \A c, d, e \in Digests : Before(c, d) /\ Before(d, e) => Before(c, e)
ASSUME LinesAssumption ==
  /\ Digests \subseteq Seq(Symbols) /\ Digests # {}
  /\ FileSets \subseteq SUBSET Digests /\ Requests \subseteq SUBSET Digests
  /\ Contexts \subseteq [whitespace : Seq(Whitespace), query : BOOLEAN]
  /\ Timestamps \subseteq LineToken
  /\ SampleSize \in Nat \ {0}
ASSUME CdxAssumption ==
  \A cdx \in Cdx :
    /\ cdx \in [expected : SUBSET Line, timestamp : SUBSET Timestamps, url : SUBSET Seq(Symbols)]
    /\ IsOptional(cdx.expected) /\ IsOptional(cdx.timestamp) /\ IsOptional(cdx.url)

-----------------------------------------------------------------------------
(* Formats: plain text, and gzip as far as its codec is one (GzipArchives). *)
IsGzip(bytes) == Len(bytes) >= 2 /\ bytes[1] = "gz"
Decoded(bytes) == IF IsGzip(bytes) THEN SubSeq(bytes, 3, Len(bytes)) ELSE bytes
GzipEncode(text, metadata) ==
  IF metadata = <<>> \/ metadata[1] = "odd" THEN text ELSE <<"gz", metadata[1]>> \o text

Back(s, j) == s[Len(s) + 1 - j]
(* How far the end of the text is that of the default, and how far it is    *)
(* whitespace.  The mutant reads the default from its start.                *)
AgreesFromFront(text, default, j) == Back(text, j) = default[j]
Agrees(text, default, j) == Back(text, j) = Back(default, j)
Matched(text, default) ==
  Max({k \in 0 .. Min({Len(text), Len(default)}) : \A j \in 1 .. k : Agrees(text, default, j)})
CharsRead(text, default) ==
  Max({n \in Matched(text, default) .. Len(text) :
         \A j \in Matched(text, default) + 1 .. n : Back(text, j) \in Whitespace})
NonDefaultWhitespace(text, default) ==
  LET n == CharsRead(text, default)
  IN IF Matched(text, default) = Len(default) /\ n = Len(default) THEN {}
     ELSE {SubSeq(text, Len(text) - n + 1, Len(text))}

Effective(snapshot, ctx) == The(snapshot.format.whitespace, ctx.whitespace)

(* unprocessed_snapshot, with what the caller has found.                    *)
Closing(bytes, ctx) == NonDefaultWhitespace(Decoded(bytes), ctx.whitespace)
Content(bytes, ctx) ==
  SubSeq(Decoded(bytes), 1, Len(Decoded(bytes)) - Len(The(Closing(bytes, ctx), ctx.whitespace)))
ASSUME FormatAssumption ==
  \A f \in Digests :
    /\ Format(f) \in [name : Symbols, metadata : Seq(Symbols)]
    /\ Format(f).name = "gzip" => GzipEncode(Decoded(f), Format(f).metadata) = f
    /\ \A ctx \in Contexts : IsOptional(Inferred(Content(f, ctx)))
CanBuild(bytes, ctx) ==
  /\ Format(bytes).name = (IF IsGzip(bytes) THEN "gzip" ELSE "utf8")
  /\ \A i \in DOMAIN Content(bytes, ctx) : Content(bytes, ctx)[i] \notin {"\r", "\n"}
Build(bytes, cdx, ctx) ==
  [digest |-> bytes, expected |-> cdx.expected, timestamp |-> cdx.timestamp, url |-> cdx.url,
   format |-> [name |-> Format(bytes).name, whitespace |-> Closing(bytes, ctx),
               metadata |-> Format(bytes).metadata],
   content |-> Content(bytes, ctx)]

Supported(snapshot) == snapshot.format.name \in {"utf8", "gzip"}
Encode(snapshot, ctx) ==
  LET full == snapshot.content \o Effective(snapshot, ctx)
  IN IF snapshot.format.name = "utf8" THEN full ELSE GzipEncode(full, snapshot.format.metadata)
Verifies(snapshot, ctx) == Supported(snapshot) /\ Encode(snapshot, ctx) = snapshot.digest

-----------------------------------------------------------------------------
(* A snapshot as a line.  Json is what serde makes of a format object.      *)
Escaped(c) == CASE c = Quote -> <<Escape, Quote>>
                [] c = Escape -> <<Escape, Escape>>
                [] c = "\n" -> <<Escape, "n">> [] c = "\r" -> <<Escape, "r">> [] c = "\t" -> <<Escape, "t">>
                [] OTHER -> <<c>>
EscapedText(s) ==
  LET text[n \in 0 .. Len(s)] == IF n = 0 THEN <<>> ELSE text[n - 1] \o Escaped(s[n])
  IN text[Len(s)]
(* A field of an object, if there is a value; a comma before all but the first. *)
Named(first, key) == (IF first THEN <<>> ELSE <<Sep>>) \o <<Quote, key, Quote, Colon, Quote>>
Field(first, key, values) ==
  IF values = {} THEN <<>> ELSE Named(first, key) \o EscapedText(The(values, <<>>)) \o <<Quote>>
With(object, key, values) == object \o Field(Len(object) = 1, key, values)
TypeOf(format) == IF format.name = "utf8" THEN {} ELSE {<<format.name>>}
LevelOf(format) == IF format.metadata = <<>> THEN {} ELSE {format.metadata}
Json(format) ==
  With(With(With(<<Open>>, "type", TypeOf(format)), "closing_whitespace", format.whitespace),
       "level", LevelOf(format)) \o <<Shut>>

IsDefault(format) == format.name = "utf8" /\ format.whitespace = {} /\ format.metadata = <<>>
NeedsEscaping(s) == \E i \in DOMAIN s : s[i] \in {Quote, Escape, "\t", "\r", "\n"}

ShownUrl(snapshot, ctx) == IF ctx.query THEN snapshot.url \ Inferred(snapshot.content) ELSE snapshot.url
ShownFormat(snapshot, ctx) == [snapshot.format EXCEPT !.whitespace = @ \ {ctx.whitespace}]

Start == <<Open, Quote>>
Key(word) == <<word, Quote, Colon>>
Opening(word) == <<word, Quote, Colon, Quote>>
Comma == <<Sep, Quote>>
Close == <<Quote, Sep, Quote>>
Quoted(word, tokens) == Chars(Opening(word)) \o tokens \o Chars(Close)
Optional(word, values) == IF values = {} THEN <<>> ELSE Quoted(word, The(values, <<>>))
CanDisplay(snapshot, ctx) ==
  /\ \A e \in snapshot.expected : \A i \in DOMAIN e : IsDigest(e[i]) \/ ~NeedsEscaping(e[i])
  /\ \A u \in ShownUrl(snapshot, ctx) : ~NeedsEscaping(u)
Display(snapshot, ctx) ==
  LET format == ShownFormat(snapshot, ctx)
  IN Chars(Start) \o Quoted("digest", <<DigestToken(snapshot.digest)>>)
     \o Optional("expected_digest", snapshot.expected)
     \o Optional("timestamp", {<<t>> : t \in snapshot.timestamp})
     \o Optional("url", {Chars(u) : u \in ShownUrl(snapshot, ctx)})
     \o (IF IsDefault(format) THEN <<>> ELSE Chars(Key("format")) \o Chars(Json(format)) \o Chars(Comma))
     \o Chars(Key("content")) \o Chars(snapshot.content) \o << <<Shut>> >>

-----------------------------------------------------------------------------
(* Reading a line.  A position past the end stands for InvalidLine.         *)
At(line, i) == IF i \in DOMAIN line THEN line[i] ELSE <<>>
Expect(line, i, literal) ==
  IF i + Len(literal) - 1 <= Len(line) /\ SubSeq(line, i, i + Len(literal) - 1) = Chars(literal)
  THEN i + Len(literal) ELSE Len(line) + 1

(* read_object_value: the depth of braces, and whether it is in a string.   *)
Scanned(c, t) ==
  IF t.inString THEN [t EXCEPT !.at = @ + 1, !.escaped = ~t.escaped /\ c = Char(Escape),
                               !.inString = t.escaped \/ c # Char(Quote)]
  ELSE [t EXCEPT !.at = @ + 1, !.inString = (c = Char(Quote)),
                 !.depth = IF c = Char(Open) THEN @ + 1 ELSE IF c = Char(Shut) THEN @ - 1 ELSE @]
ObjectEnd(line, i) ==
  LET scan[n \in 0 .. Len(line)] ==
        IF n = 0 THEN [at |-> i + 1, depth |-> 1, inString |-> FALSE, escaped |-> FALSE]
        ELSE LET t == scan[n - 1]
             IN IF t.depth = 0 \/ t.at > Len(line) THEN t ELSE Scanned(line[t.at], t)
  IN scan[Len(line)].at
ReadObject(line, i) == IF At(line, i) = Char(Open) THEN ObjectEnd(line, i) ELSE Len(line) + 1
ReadString(line, i) ==
  LET ends == {e \in i .. Len(line) : line[e] \in {Char(Quote), Char(Escape)}}
  IN IF ends # {} /\ line[Min(ends)] = Char(Quote) THEN Min(ends) ELSE Len(line) + 1

(* serde's reading of a format object: a value to its quote, and the whole. *)
Unescaped(c) == CASE c = "n" -> "\n" [] c = "r" -> "\r" [] c = "t" -> "\t" [] OTHER -> c
ReadOn(object, t) ==
  CASE t.at > Len(object) \/ object[t.at] = Quote -> t
    [] t.at < Len(object) /\ object[t.at] = Escape ->
         [at |-> t.at + 2, value |-> Append(t.value, Unescaped(object[t.at + 1]))]
    [] OTHER -> [at |-> t.at + 1, value |-> Append(t.value, object[t.at])]
ReadValue(object, i) ==
  LET reading[n \in 0 .. Len(object)] ==
        IF n = 0 THEN [at |-> i, value |-> <<>>] ELSE ReadOn(object, reading[n - 1])
  IN reading[Len(object)]
IsAt(s, i, part) == \A k \in DOMAIN part : i + k - 1 \in DOMAIN s /\ s[i + k - 1] = part[k]
(* From a place of the object: the value of a key, if it is there.          *)
ReadField(object, i, key) ==
  LET opening == Named(i = 2, key)
      t == ReadValue(object, i + Len(opening))
  IN IF IsAt(object, i, opening) THEN [at |-> t.at + 1, values |-> {t.value}] ELSE [at |-> i, values |-> {}]
FormatOf(object) ==
  LET type == ReadField(object, 2, "type")
      closing == ReadField(object, type.at, "closing_whitespace")
      level == ReadField(object, closing.at, "level")
      name == The(type.values, <<"utf8">>)
  IN [name |-> IF Len(name) = 1 THEN name[1] ELSE "utf8",
      whitespace |-> closing.values, metadata |-> The(level.values, <<>>)]
IsFormat(object) ==
  /\ Json(FormatOf(object)) = object
  /\ \A w \in FormatOf(object).whitespace : \A i \in DOMAIN w : w[i] \in Whitespace

(* How far a line is read, and what has been found so far.                  *)
Has(line, r, word) == At(line, r.at) = Char(word)
Opened(line, r, word) == Expect(line, r.at, Opening(word))
Text(line, i, j) == [k \in 1 .. j - i |-> line[i + k - 1][1]]
Blank(token) ==
  [digest |-> DigestOf(token), expected |-> {}, timestamp |-> {}, url |-> {},
   format |-> [name |-> "utf8", whitespace |-> {}, metadata |-> <<>>], content |-> <<>>]
Refused(line, r) == [r EXCEPT !.at = Len(line) + 1]

WithDigest(line, i) ==
  [at |-> IF IsDigest(At(line, i)) THEN Expect(line, i + 1, Close) ELSE Len(line) + 1,
   s  |-> Blank(At(line, i))]
Expected(line, r, i) == IF i > Len(line) THEN Refused(line, r)
                        ELSE [at |-> Expect(line, i + 1, Close), s |-> [r.s EXCEPT !.expected = {<<line[i]>>}]]
WithExpected(line, r) ==
  IF Has(line, r, "expected_digest") THEN Expected(line, r, Opened(line, r, "expected_digest")) ELSE r
Timestamp(line, r, i) == IF At(line, i) \notin Timestamps THEN Refused(line, r)
                         ELSE [at |-> Expect(line, i + 1, Close), s |-> [r.s EXCEPT !.timestamp = {line[i]}]]
WithTimestamp(line, r) ==
  IF Has(line, r, "timestamp") THEN Timestamp(line, r, Opened(line, r, "timestamp")) ELSE r
Url(line, r, i, j) == [at |-> Expect(line, j, Close), s |-> [r.s EXCEPT !.url = {Text(line, i, j)}]]
WithUrl(line, r) ==
  IF Has(line, r, "url")
  THEN Url(line, r, Opened(line, r, "url"), ReadString(line, Opened(line, r, "url"))) ELSE r
FormatAt(line, r, i, j) ==
  IF ~IsFormat(Text(line, i, j)) THEN Refused(line, r)
  ELSE [at |-> Expect(line, j, Comma), s |-> [r.s EXCEPT !.format = FormatOf(Text(line, i, j))]]
WithFormat(line, r) ==
  LET i == Expect(line, r.at, Key("format"))
  IN IF Has(line, r, "format") THEN FormatAt(line, r, i, ReadObject(line, i)) ELSE r
WithContent(line, r, i) ==
  IF i > Len(line) \/ line[Len(line)] # Char(Shut) THEN [ok |-> FALSE]
  ELSE [ok |-> TRUE, snapshot |-> [r.s EXCEPT !.content = Text(line, i, Len(line))]]
Completed(line, r) == WithContent(line, r, Expect(line, r.at, Key("content")))
Parse(line) ==
  Completed(line, WithFormat(line, WithUrl(line, WithTimestamp(line, WithExpected(line,
    WithDigest(line, Expect(line, 1, Start \o Opening("digest"))))))))
Parsed(line) == Parse(line).ok
Snapshot(line) == Parse(line).snapshot

-----------------------------------------------------------------------------
(* Context::infer.  The first lines that leave their closing whitespace to  *)
(* the context are samples, and a candidate has to verify each of them.     *)
(* The mutant takes lines that say themselves what closes them.             *)
AnySample(line) == Parsed(line) /\ Snapshot(line).format.name = "utf8"
Qualifies(p) == p.ok /\ p.snapshot.format.name = "utf8" /\ p.snapshot.format.whitespace = {}
IsSample(line) == Qualifies(Parse(line))
SampleLines(ls) == {i \in DOMAIN ls : IsSample(ls[i])}
HasSamples(ls) == Cardinality(SampleLines(ls)) >= SampleSize
FirstOf(found) == {i \in found : Cardinality({j \in found : j <= i}) <= SampleSize}
Samples(ls) == FirstOf(SampleLines(ls))
Fitting(ls) ==
  {k \in DOMAIN Candidates : \A i \in Samples(ls) : Verifies(Snapshot(ls[i]), InContext(Candidates[k]))}
BestOf(fitting) == IF fitting = {} THEN <<>> ELSE Candidates[Min(fitting)]
Inference(ls) == InContext(IF HasSamples(ls) THEN BestOf(Fitting(ls)) ELSE <<>>)
(* It reads up to the last sample that it needs, and a line too long before *)
(* that is an error.                                                        *)
CanInfer(ls) ==
  \A i \in DOMAIN ls : TooLong(ls[i]) => HasSamples(ls) /\ \A j \in Samples(ls) : j < i

-----------------------------------------------------------------------------
NoCounts == [verified |-> 0, invalid |-> 0, outOfOrder |-> 0]
SnapshotInit ==
  /\ files \in FileSets /\ site \in Contexts
  /\ packed = <<>> /\ lines = <<>>
  /\ context = InContext(<<>>)
  /\ at = 1 /\ last = {} /\ counts = NoCounts /\ outcome = [verify |-> "none", validate |-> "none"]
  /\ asked = {} /\ exportAs = InContext(<<>>) /\ requested = {} /\ exported = <<>>
  /\ pc = "pack"

(* The next file of the site becomes a line, or is skipped.                 *)
Pack ==
  /\ pc = "pack" /\ files # {}
  /\ \E f \in files, cdx \in Cdx :
       /\ \A g \in files \ {f} : Before(f, g)
       /\ files' = files \ {f}
       /\ LET snapshot == Build(f, cdx, site)
          IN IF ~CanBuild(f, site) THEN UNCHANGED <<packed, lines, pc>>
             ELSE IF CanDisplay(snapshot, site)
             THEN packed' = Append(packed, snapshot) /\ lines' = Append(lines, Display(snapshot, site)) /\ UNCHANGED pc
             ELSE pc' = "failed" /\ UNCHANGED <<packed, lines>>
  /\ UNCHANGED <<site, context, at, last, counts, outcome, exporting>>

(* The lines come into other hands.                                         *)
HandOver ==
  /\ pc = "pack" /\ files = {}
  /\ lines' \in {lines} \cup (Damaged(lines) \cap Seq(Line))
  /\ pc' = "resolve"
  /\ UNCHANGED <<files, site, packed, context, at, last, counts, outcome, exporting>>

(* resolve_context, for verify: that of --format, whatever the file, or     *)
(* what can be inferred from the file.                                      *)
ResolveContext ==
  /\ pc = "resolve"
  /\ \/ context' \in Contexts /\ pc' = "verify"
     \/ IF CanInfer(lines) THEN context' = Inference(lines) /\ pc' = "verify"
        ELSE pc' = "failed" /\ UNCHANGED context
  /\ UNCHANGED <<source, at, last, counts, outcome, exporting>>

InOrder(digest) == \A d \in last : Before(d, digest)
(* verify_file: stops at a line that is none, and goes by every other line. *)
VerifyLine ==
  /\ pc = "verify"
  /\ IF at > Len(lines) \/ ~Parsed(lines[at])
     THEN /\ outcome' = [outcome EXCEPT !.verify = IF at <= Len(lines) THEN "stopped"
                                                  ELSE IF counts.invalid + counts.outOfOrder > 0 THEN "problems" ELSE "clean"]
          /\ at' = 1 /\ last' = {} /\ counts' = NoCounts /\ pc' = "validate"
     ELSE LET snapshot == Snapshot(lines[at])
              ok == Verifies(snapshot, context)
              ordered == InOrder(snapshot.digest)
          IN /\ counts' = [verified |-> counts.verified + (IF ok THEN 1 ELSE 0),
                           invalid |-> counts.invalid + (IF ok THEN 0 ELSE 1),
                           outOfOrder |-> counts.outOfOrder + (IF ordered THEN 0 ELSE 1)]
             /\ last' = {snapshot.digest} /\ at' = at + 1
             /\ UNCHANGED <<outcome, pc>>
  /\ UNCHANGED <<source, context, exporting>>

(* validate_lines: stops at a line that is blank or too long, and goes by   *)
(* the good lines.                                                          *)
ValidateLine ==
  /\ pc = "validate"
  /\ IF at > Len(lines) \/ lines[at] = <<>> \/ TooLong(lines[at])
     THEN /\ outcome' = [outcome EXCEPT !.validate = IF at <= Len(lines) THEN "stopped"
                                                    ELSE IF counts.invalid + counts.outOfOrder > 0 THEN "problems" ELSE "clean"]
          /\ at' = 1 /\ last' = {} /\ counts' = NoCounts /\ pc' = "ask"
     ELSE LET snapshot == Snapshot(lines[at])
              ok == Parsed(lines[at]) /\ Verifies(snapshot, context)
              ordered == InOrder(snapshot.digest)
          IN /\ counts' = [verified |-> counts.verified + (IF ok /\ ordered THEN 1 ELSE 0),
                           invalid |-> counts.invalid + (IF ok THEN 0 ELSE 1),
                           outOfOrder |-> counts.outOfOrder + (IF ok /\ ~ordered THEN 1 ELSE 0)]
             /\ last' = IF ok /\ ordered THEN {snapshot.digest} ELSE last
             /\ at' = at + 1
             /\ UNCHANGED <<outcome, pc>>
  /\ UNCHANGED <<source, context, exporting>>

-----------------------------------------------------------------------------
(* export has no --format: whatever context the lines were verified in, it  *)
(* infers its own.                                                          *)
StartExport ==
  /\ pc = "ask"
  /\ asked' \in Requests /\ requested' = asked'
  /\ IF CanInfer(lines) THEN exportAs' = Inference(lines) /\ pc' = "export"
     ELSE pc' = "failed" /\ UNCHANGED exportAs
  /\ UNCHANGED <<source, context, at, last, counts, outcome, exported>>

(* The digests asked for are sorted, without repetitions, and gone through  *)
(* with the lines: `requested` are those that are still to come.  The       *)
(* mutant passes what it has reached.                                       *)
SkipPast(digest) == {r \in requested : Before(digest, r)}
SkipTo(digest) == {r \in requested : ~Before(r, digest)}
\* export_snapshot: the file is written and then read again and looked at.
OnDisk(snapshot) == [name |-> snapshot.digest, bytes |-> Encode(snapshot, exportAs)]
ExportLine ==
  /\ pc = "export"
  /\ IF requested = {} \/ at > Len(lines) THEN pc' = "done" /\ UNCHANGED <<requested, exported, at>>
     ELSE IF ~Parsed(lines[at]) \/ TooLong(lines[at])
     THEN pc' = "failed" /\ UNCHANGED <<requested, exported, at>>
     ELSE LET snapshot == Snapshot(lines[at])
              left == SkipTo(snapshot.digest)
          IN /\ at' = at + 1
             /\ IF snapshot.digest \notin left
                THEN requested' = left /\ UNCHANGED <<exported, pc>>
                ELSE IF ~Supported(snapshot) THEN pc' = "failed" /\ UNCHANGED <<requested, exported>>
                ELSE /\ requested' = left \ {snapshot.digest}
                     /\ exported' = Append(exported, OnDisk(snapshot))
                     /\ pc' = IF Verifies(snapshot, exportAs) THEN pc ELSE "failed"
  /\ UNCHANGED <<source, context, last, counts, outcome, asked, exportAs>>

SnapshotNext == \/ Pack \/ HandOver \/ ResolveContext \/ VerifyLine \/ ValidateLine
                \/ StartExport \/ ExportLine
SnapshotDone == pc \in {"failed", "done"}
SnapshotSpec == SnapshotInit /\ [][SnapshotNext]_lineVars

-----------------------------------------------------------------------------
(* "producing the canonical JSONL line" (exact.rs:184): what was written    *)
(* can be read.                                                             *)
WrittenLinesParse ==
  pc = "pack" /\ lines # <<>> => Parsed(lines[Len(lines)])

(* A line that was written is read again, as the snapshot of its file: its  *)
(* capture is the one it was given, it encodes to the bytes of the file,    *)
(* and written again it is the same line.                                   *)
LinesRestoreFiles ==
  pc = "pack" /\ lines # <<>> =>
    /\ Parsed(lines[Len(lines)])
    /\ LET s == Snapshot(lines[Len(lines)])
           p == packed[Len(packed)]
       IN /\ Verifies(s, site) /\ s.digest = p.digest
          /\ s.expected = p.expected /\ s.timestamp = p.timestamp
          /\ s.url = p.url \/ (s.url = {} /\ site.query /\ p.url = Inferred(s.content))
          /\ Display(s, site) = lines[Len(lines)]

Intact == lines = [i \in DOMAIN packed |-> Display(packed[i], site)]
IsCandidate(whitespace) == \E i \in DOMAIN Candidates : Candidates[i] = whitespace

(* Lines as they were written are never exported with the whitespace of     *)
(* another site; and with samples enough, with that of their own.           *)
InferenceIsSound ==
  pc = "export" /\ Intact =>
    /\ exportAs.whitespace \in {site.whitespace, <<>>}
    /\ IsCandidate(site.whitespace) /\ HasSamples(lines) => exportAs.whitespace = site.whitespace

(* In one context the two readers of a file agree: validate finds clean     *)
(* what verify does, unless it stops at a line that is too long.  A clean   *)
(* file has no digest twice, and each line encodes to its own; and lines    *)
(* as they were written are clean in the context of their site.             *)
ReadersAgree ==
  outcome.validate # "none" =>
    /\ (outcome.validate = "clean")
         <=> (outcome.verify = "clean" /\ \A i \in DOMAIN lines : ~TooLong(lines[i]))
    /\ outcome.verify = "clean" =>
         /\ \A i \in DOMAIN lines : Encode(Snapshot(lines[i]), context) = Snapshot(lines[i]).digest
         /\ Cardinality({Snapshot(lines[i]).digest : i \in DOMAIN lines}) = Len(lines)
    /\ Intact /\ context.whitespace = site.whitespace => outcome.verify = "clean"

(* A file that is exported under a digest has it, except the last of an     *)
(* export that fails.  Of a file that validate finds clean, all that is     *)
(* asked for is exported; or the context inferred is not the one it is      *)
(* clean in, and export fails at the first file that this context gives     *)
(* other bytes.                                                             *)
ExportIsExact ==
  /\ \A i \in DOMAIN exported :
       /\ exported[i].name \in asked
       /\ exported[i].bytes # exported[i].name => i = Len(exported) /\ pc = "failed"
  /\ outcome.validate = "clean" =>
       /\ pc = "failed" => /\ exportAs.whitespace # context.whitespace
                           /\ \E i \in DOMAIN exported : exported[i].bytes # exported[i].name
       /\ pc = "done" => {exported[i].name : i \in DOMAIN exported}
                          = asked \cap {Snapshot(lines[i]).digest : i \in DOMAIN lines}

(* Readers are right about a file, whichever command, and whether they were *)
(* told its whitespace or have inferred it.                                 *)
ReadersAreRight == InferenceIsSound /\ ReadersAgree
=============================================================================
