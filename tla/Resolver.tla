------------------------------ MODULE Resolver ------------------------------
(***************************************************************************)
(* crates/json-processing/src/process/resolver.rs: which capture a digest  *)
(* is given, among all captures of all CDX files, and what else was found. *)
(*                                                                         *)
(* A digest is an integer: a valid SHA-1 is above 0, any other text a CDX  *)
(* index may hold is below.  The metadata of a capture, its timestamp and  *)
(* URL in their order, is a number above 0.  A resolver is a record of the *)
(* fields of Resolver.                                                     *)
(***************************************************************************)
EXTENDS Integers, Sequences, FiniteSets

Valid(digest) == digest > 0
NoCapture == 0

NewResolver == [todo |-> {}, invalid |-> {}, done |-> <<>>]

\* load_digests.
LoadDigests(r, digests) == [r EXCEPT !.todo = @ \cup digests]

\* read_invalid_digests: the log's pairs of an actual and an expected digest, as far as the actual
\* one is wanted (known_invalid_digests as a set of pairs).
ReadInvalid(r, log) == [r EXCEPT !.invalid = @ \cup {e \in log : e.actual \in r.todo}]

\* ResolvedMetadataSet::default.
NothingFound == [primary |-> NoCapture, other |-> {}, by_invalid |-> {}]
Of(done, d) == IF d \in DOMAIN done THEN done[d] ELSE NothingFound
Put(done, d, set) == [x \in DOMAIN done \cup {d} |-> IF x = d THEN set ELSE done[x]]

\* add_valid: the earliest capture is the primary one, whatever order they come in.
AddValidKeepsFirst(set, metadata) ==
    IF set.primary = NoCapture THEN [set EXCEPT !.primary = metadata]
    ELSE IF set.primary = metadata THEN set
    ELSE [set EXCEPT !.other = @ \cup {metadata}]
AddValid(set, metadata) ==
    CASE set.primary = NoCapture -> [set EXCEPT !.primary = metadata]
      [] set.primary = metadata -> set
      [] set.primary < metadata /\ set.primary # NoCapture ->
           [set EXCEPT !.other = @ \cup {metadata}]
      [] OTHER ->
           [set EXCEPT !.primary = metadata, !.other = @ \cup {set.primary}]

\* add_invalid.
AddInvalid(set, pairs) == [set EXCEPT !.by_invalid = @ \cup pairs]

\* The valid matches of a file are applied first, each to the digest the item has.
ApplyValid(r, items) ==
    LET upTo[n \in 0 .. Len(items)] ==
          IF n = 0 THEN r.done
          ELSE LET d == items[n].digest
                   done == upTo[n - 1]
               IN  IF Valid(d) /\ d \in r.todo
                   THEN Put(done, d, AddValid(Of(done, d), items[n].metadata))
                   ELSE done
    IN  [r EXCEPT !.done = upTo[Len(items)]]

\* Then those of the digests the log expected, each to all digests that came instead.
ApplyInvalid(r, items) ==
    LET Found(d) == {<<items[n].digest, items[n].metadata>> :
                       n \in {k \in DOMAIN items : \E e \in r.invalid :
                               e.actual = d /\ e.expected = items[k].digest}}
        reached == {d \in {e.actual : e \in r.invalid} : Found(d) # {}}
    IN  [r EXCEPT !.done =
           [d \in DOMAIN r.done \cup reached |->
             AddInvalid(Of(r.done, d), Found(d))]]
ApplyFile(r, items) == ApplyInvalid(ApplyValid(r, items), items)

\* A file is the sequence of its items, or none of them could be read: <<NoItems>>.
NoItems == [digest |-> 0, metadata |-> NoCapture]
Unread == <<NoItems>>
\* The files of a chunk are matched in parallel and applied in path order, up to the first that
\* could not be read or parsed.
UpToFirstUnread(files) ==
    IF \E i \in DOMAIN files : files[i] = Unread
    THEN SubSeq(files, 1, (CHOOSE i \in DOMAIN files :
                             /\ files[i] = Unread
                             /\ \A j \in 1 .. i - 1 : files[j] # Unread) - 1)
    ELSE files
ApplyChunk(r, files) ==
    LET sound == UpToFirstUnread(files)
        upTo[n \in 0 .. Len(sound)] == IF n = 0 THEN r ELSE ApplyFile(upTo[n - 1], sound[n])
    IN  upTo[Len(sound)]

\* to_resolution: the primary capture, or the earliest under an expected digest (the least of those
\* digests if several have it); all others are warnings.
Least(S) == CHOOSE x \in S : \A y \in S : x <= y
ToResolution(set) ==
    IF set.primary # NoCapture
    THEN [metadata |-> set.primary, expected |-> 0,
          extra_valid |-> set.other, extra_invalid |-> set.by_invalid]
    ELSE LET m == Least({p[2] : p \in set.by_invalid})
             e == Least({p[1] : p \in {q \in set.by_invalid : q[2] = m}})
         IN  [metadata |-> m, expected |-> e,
              extra_valid |-> {}, extra_invalid |-> set.by_invalid \ {<<e, m>>}]

\* lookup and missing.
Resolved(r) == DOMAIN r.done
Lookup(r, d) == ToResolution(r.done[d])
Missing(r) == r.todo \ DOMAIN r.done
=============================================================================
