---------------------------- MODULE GzipArchives ----------------------------
(***************************************************************************)
(* crates/json-gzip: the parameters with which a gzip archive can be made  *)
(* again from its text are found by trying (infer), and what is found, or  *)
(* comes from elsewhere as metadata, is used to make it (codec, encode).   *)
(*                                                                         *)
(* An archive is [header, body, sound, tail, by]: `sound` if a reader of   *)
(* gzip accepts it, `tail` if bytes follow the stream, `by` how it was     *)
(* made.  A body is a sequence of parts: the compressed data of a text, an *)
(* empty stored block (a marker), the end of a stream of zlib's or of      *)
(* Go's.  What compressors make of a text is told apart by ClassOf only.   *)
(* A text is a sequence of units, of which NotText is not UTF-8.           *)
(***************************************************************************)
EXTENDS Integers, Sequences, SequencesExt, FiniteSetsExt

CONSTANTS Archives,
          Metadata,             \* params that come with a snapshot, not from inference
          Texts,                \* what is encoded with them
          NotText,
          ClassOf(_, _, _),     \* what compressor and level make of a text
          Hidden(_, _),         \* class, text: how far the text has come out where its data
                                \* happen to contain the bytes of a marker
          MaxDecompressedLen, MaxExtraFlushes,
          CounterMax, OutSlack, FlushMarkerLen

MaxContentLen == (CounterMax - OutSlack - FlushMarkerLen * (MaxExtraFlushes + 1)) \div 2
ASSUME LengthsAssumption == 4 * MaxDecompressedLen <= MaxContentLen

VARIABLES archive, content, level, compressor, marks, flushes, trailing, found,
          text, encoded, panicked, stage
candidate == <<level, compressor>>
layout == <<marks, flushes, trailing>>
output == <<text, encoded, panicked>>
gzipVars == <<archive, content, candidate, layout, found, output, stage>>

Params(c, l, m, o, f, e) ==
  [compressor |-> c, level |-> l, mtime |-> m, os |-> o, flushes |-> f, extra |-> e]
NoParams == Params("none", 0, 0, 255, <<>>, 0)

Part(is, class, chunk) == [is |-> is, class |-> class, text |-> chunk]
Data(c, l, chunk) == IF chunk = <<>> THEN <<>> ELSE <<Part("data", ClassOf(c, l, chunk), chunk)>>
Marker == Part("marker", 0, <<>>)
Final == Part("final", 0, <<>>)
GoClose == Part("close", 0, <<>>)      \* an empty stored block too, the last

Header(m, x, o) == [flags |-> 0, mtime |-> m, xfl |-> x, os |-> o]
XflForLevel(l) == CASE l = 9 -> 2 [] l = 1 -> 4 [] OTHER -> 0
GoHeader(l) == Header(0, XflForLevel(l), 255)
OsBytes == {3, 255}

TextOf(body) == FlattenSeq([i \in DOMAIN body |-> body[i].text])
Bytes(a) == [header |-> a.header, body |-> a.body, tail |-> a.tail]

ReproduceGo(chunk, l) ==
  [header |-> GoHeader(l), body |-> Data("go", l, chunk) \o <<GoClose>>, tail |-> FALSE]

-----------------------------------------------------------------------------
(* zlib_stream: the calls made for a text, and what zlib does at each.      *)
Chunks(f, chunk) ==
  [i \in 1 .. Len(f) + 1 |-> SubSeq(chunk, (IF i = 1 THEN 0 ELSE f[i - 1]) + 1,
                                           IF i > Len(f) THEN Len(chunk) ELSE f[i])]

Call(flush, chunk) == [flush |-> flush, text |-> chunk]
ExtraFlushes(n) == [i \in 1 .. 2 * n |-> Call(IF i % 2 = 1 THEN "none" ELSE "sync", <<>>)]
Calls(p, chunk) ==
  LET chunks == Chunks(p.flushes, chunk)
  IN [i \in DOMAIN chunks |-> Call("sync", chunks[i])] \o ExtraFlushes(p.extra) \o <<Call("finish", <<>>)>>

(* A flush straight after another, and with nothing to write, is refused.   *)
Deflated(p, s, call) ==
  CASE call.flush = "sync" /\ call.text = <<>> /\ s.last = "sync" -> [s EXCEPT !.ok = FALSE]
    [] call.flush = "sync" -> [s EXCEPT !.out = @ \o Data(p.compressor, p.level, call.text) \o <<Marker>>,
                                        !.last = "sync"]
    [] call.flush = "finish" -> [s EXCEPT !.out = Append(@, Final), !.last = "finish"]
    [] OTHER -> [s EXCEPT !.last = call.flush]
Stream(p, chunk) ==
  FoldLeft(LAMBDA s, call: Deflated(p, s, call), [out |-> <<>>, last |-> "none", ok |-> TRUE],
           Calls(p, chunk))

Fits(n, mid) == 2 * n + FlushMarkerLen * mid <= 2 * MaxContentLen
OutLen(p, n) == 2 * n + OutSlack + FlushMarkerLen * (Len(p.flushes) + 1 + p.extra)

Reproduce(p, chunk) ==
  IF p.compressor = "go" THEN ReproduceGo(chunk, p.level)
  ELSE [header |-> Header(p.mtime, XflForLevel(p.level), p.os), body |-> Stream(p, chunk).out, tail |-> FALSE]

(* What an assertion, a slice or a cast of the code would not survive.      *)
Panics(p, chunk) ==
  LET f == p.flushes
  IN IF p.compressor = "go" THEN p.level \notin 4 .. 9
     ELSE \/ \E i \in DOMAIN f : f[i] > Len(chunk) \/ (i > 1 /\ f[i] < f[i - 1])
          \/ ~Fits(Len(chunk), Len(f)) \/ p.level \notin 0 .. 9
          \/ OutLen(p, Len(chunk)) > CounterMax
          \/ ~Stream(p, chunk).ok

Ascend(f) == \A i \in 1 .. Len(f) - 1 : f[i] < f[i + 1]
IsReproducible(p) ==
  IF p.compressor = "go" THEN p.level \in 4 .. 9 /\ p.extra = 0 /\ p.flushes = <<>>
  ELSE p.level <= 9 /\ ~(p.flushes # <<>> /\ p.flushes[1] = 0) /\ Ascend(p.flushes)

SupportsContentLen(p, n) ==
  p.compressor = "go" \/ ((p.flushes = <<>> \/ p.flushes[Len(p.flushes)] < n) /\ Fits(n, Len(p.flushes)))

-----------------------------------------------------------------------------
GzipInit ==
  /\ archive \in Archives
  /\ content = <<>> /\ level = 4 /\ compressor = "zlib"
  /\ marks = <<>> /\ flushes = <<>> /\ trailing = 0 /\ found = NoParams
  /\ text = <<>> /\ encoded = [is |-> "nothing"] /\ panicked = FALSE
  /\ stage = "decompress"

Decompress ==
  /\ stage = "decompress"
  /\ LET t == TextOf(archive.body)
         ok == archive.sound /\ Len(t) <= MaxDecompressedLen /\ \A i \in DOMAIN t : t[i] # NotText
     IN IF ok THEN content' = t /\ stage' = "go" ELSE stage' = "unsupported" /\ UNCHANGED content
  /\ UNCHANGED <<archive, candidate, layout, found, output>>

(* find_go_level, one level after the other.                                *)
TryGo ==
  /\ stage = "go"
  /\ IF archive.header = GoHeader(level) /\ ReproduceGo(content, level) = Bytes(archive)
     THEN found' = Params("go", level, 0, 255, <<>>, 0) /\ stage' = "found" /\ UNCHANGED level
     ELSE /\ level' = IF level = 9 THEN 1 ELSE level + 1
          /\ stage' = IF level = 9 THEN "header" ELSE "go"
          /\ UNCHANGED found
  /\ UNCHANGED <<archive, content, compressor, layout, output>>

(* How much text has come out at each place where the bytes of a marker are *)
(* found; -1 if the stream has ended before.                                *)
MarkOffsets(a) ==
  FoldLeft(LAMBDA s, part:
             CASE part.is = "data" -> LET h == Hidden(part.class, part.text)
                                      IN [at |-> s.at + Len(part.text),
                                          marks |-> s.marks \o [i \in DOMAIN h |-> s.at + h[i]]]
               [] part.is = "final" -> s
               [] OTHER -> [s EXCEPT !.marks = Append(@, s.at)],
           [at |-> 0, marks |-> <<>>], a.body).marks
  \o (IF a.tail THEN <<-1>> ELSE <<>>)

ReadHeader ==
  /\ stage = "header"
  /\ IF archive.header.os \in OsBytes THEN marks' = MarkOffsets(archive) /\ stage' = "layout"
     ELSE stage' = "unsupported" /\ UNCHANGED marks
  /\ UNCHANGED <<archive, content, candidate, flushes, trailing, found, output>>

(* The mutant takes a flush of nothing for one it can repeat.               *)
RepresentsAll(offset) == TRUE
Represents(offset) == offset # 0 /\ (flushes = <<>> \/ flushes[Len(flushes)] # offset)
(* flush_layout at the next marker.                                         *)
WalkMarker ==
  /\ stage = "layout" /\ marks # <<>>
  /\ marks' = Tail(marks)
  /\ LET offset == Head(marks)
     IN CASE offset = Len(content) -> trailing' = trailing + 1 /\ UNCHANGED <<flushes, stage>>
          [] offset # Len(content) /\ offset # -1 /\ Represents(offset) ->
               flushes' = Append(flushes, offset) /\ UNCHANGED <<trailing, stage>>
          [] OTHER -> stage' = "unsupported" /\ UNCHANGED <<flushes, trailing>>
  /\ UNCHANGED <<archive, content, candidate, found, output>>

Extra == IF trailing = 0 THEN 0 ELSE trailing - 1
EndLayout ==
  /\ stage = "layout" /\ marks = <<>>
  /\ stage' = IF Extra <= MaxExtraFlushes THEN "zlib" ELSE "unsupported"
  /\ UNCHANGED <<archive, content, candidate, layout, found, output>>

(* infer_zlib: zlib's levels, then those of zlib-ng.                        *)
TryZlib ==
  /\ stage = "zlib"
  /\ LET p == Params(compressor, level, archive.header.mtime, archive.header.os, flushes, Extra)
         tried == XflForLevel(level) = archive.header.xfl
     IN /\ panicked' = (tried /\ Panics(p, content))
        /\ IF tried /\ Reproduce(p, content) = Bytes(archive)
           THEN found' = p /\ stage' = "found" /\ UNCHANGED candidate
           ELSE /\ level' = IF level = 9 THEN 1 ELSE level + 1
                /\ compressor' = IF level = 9 THEN "zlib-ng" ELSE compressor
                /\ stage' = IF level = 9 /\ compressor = "zlib-ng" THEN "unsupported" ELSE "zlib"
                /\ UNCHANGED found
  /\ UNCHANGED <<archive, content, layout, text, encoded>>

(* The codec's encode, with metadata that may be anything or unreadable.    *)
EncodeWith(p, chunk) ==
  LET screened == p # NoParams /\ IsReproducible(p) /\ SupportsContentLen(p, Len(chunk))
  IN /\ text' = chunk
     /\ panicked' = (screened /\ Panics(p, chunk))
     /\ encoded' = IF screened /\ ~Panics(p, chunk) THEN [is |-> "archive", bytes |-> Reproduce(p, chunk)]
                   ELSE [is |-> "text", bytes |-> chunk]

EncodeFound ==
  /\ stage = "found" /\ EncodeWith(found, content)
  /\ stage' = "encoded"
  /\ UNCHANGED <<archive, content, candidate, layout, found>>

EncodeOther ==
  /\ stage = "unsupported"
  /\ \E p \in Metadata \cup {NoParams}, chunk \in Texts : EncodeWith(p, chunk)
  /\ stage' = "other"
  /\ UNCHANGED <<archive, content, candidate, layout, found>>

GzipNext == \/ Decompress \/ TryGo \/ ReadHeader \/ WalkMarker \/ EndLayout \/ TryZlib
            \/ EncodeFound \/ EncodeOther
GzipDone == stage \in {"encoded", "other"}
GzipSpec == GzipInit /\ [][GzipNext]_gzipVars

-----------------------------------------------------------------------------
(* What inference returns passes the screens of the codec, and encoding the *)
(* text with it gives the archive, byte for byte; whatever the metadata of  *)
(* a snapshot say, and while candidates are tried, no assertion, slice or   *)
(* 32-bit counter of the code fails.                                        *)
EncodingRestores ==
  /\ stage = "encoded" => /\ encoded.is = "archive" /\ encoded.bytes = Bytes(archive)
                       /\ text = TextOf(archive.body)
  /\ ~panicked

(* An archive made as the supported producers make them is not given up on, *)
(* unless its data happen to contain a marker.                              *)
SupportedAreFound ==
  stage = "unsupported" /\ archive.by # NoParams =>
    \/ ~archive.sound
    \/ Len(TextOf(archive.body)) > MaxDecompressedLen
    \/ \E i \in DOMAIN archive.body : LET part == archive.body[i]
                                      IN part.is = "data" /\ Hidden(part.class, part.text) # <<>>
    \/ \E i \in DOMAIN TextOf(archive.body) : TextOf(archive.body)[i] = NotText

(* Inference and encoding are inverse to each other, where the codec claims *)
(* an archive, and it claims what its producers make.                       *)
CodecRoundTrips == EncodingRestores /\ SupportedAreFound
=============================================================================
