----------------------------- MODULE LineChecks -----------------------------
(***************************************************************************)
(* crates/json-processing/src/process/check.rs and the judgement of one    *)
(* line in src/stream/mod.rs: what is found wrong with the lines of a file *)
(* of snapshots, in two ways that differ in what an order is kept of.      *)
(*                                                                         *)
(* A line is what parsing and verifying it says: "blank", "unparsed", or a *)
(* snapshot whose digest is "valid", a "mismatch" or of an "unsupported"   *)
(* format, with its metadata.  Lists of the summaries hold line numbers.   *)
(***************************************************************************)
EXTENDS Integers, Sequences

Verdict == {"blank", "unparsed", "valid", "mismatch", "unsupported"}
SnapshotLine ==
    [digest : Nat \ {0},
     verdict : Verdict,
     timestamp : BOOLEAN,                       \* it has one
     url : {"none", "given", "inferred"},       \* inferred: the context derives the same
     expected : {"none", "other", "own"}]       \* own: the snapshot's own digest

\* check::Summary::default, and last_digest.
EmptyCheck ==
    [line_count |-> 0, valid_digest_count |-> 0, schema_errors |-> <<>>,
     digest_mismatches |-> <<>>, unsupported_formats |-> <<>>, missing_timestamp_count |-> 0,
     url_without_timestamp |-> <<>>, redundant_expected_digest |-> <<>>, redundant_url |-> <<>>,
     out_of_order |-> <<>>, duplicates |-> <<>>, last |-> 0]

When(condition, list, n) == IF condition THEN Append(list, n) ELSE list
One(condition) == IF condition THEN 1 ELSE 0

\* One turn of the loop of check_source: a line that cannot be parsed counts, but only a snapshot
\* moves the digest the next is compared with.
CheckLine(s, n, l) ==
    CASE l.verdict = "blank" -> s
      [] l.verdict = "unparsed" ->
           [s EXCEPT !.line_count = @ + 1, !.schema_errors = Append(@, n)]
      [] OTHER ->
           [s EXCEPT !.line_count = @ + 1,
                     !.valid_digest_count = @ + One(l.verdict = "valid"),
                     !.digest_mismatches = When(l.verdict = "mismatch", @, n),
                     !.unsupported_formats = When(l.verdict = "unsupported", @, n),
                     !.missing_timestamp_count = @ + One(~ l.timestamp),
                     !.url_without_timestamp = When(~ l.timestamp /\ l.url # "none", @, n),
                     !.redundant_expected_digest = When(l.expected = "own", @, n),
                     !.redundant_url = When(l.url = "inferred", @, n),
                     !.out_of_order = When(s.last > l.digest, @, n),
                     !.duplicates = When(s.last = l.digest, @, n),
                     !.last = l.digest]

\* check_source of a file that can be read to its end.
Checked(lines) ==
    LET upTo[n \in 0 .. Len(lines)] ==
          IF n = 0 THEN EmptyCheck ELSE CheckLine(upTo[n - 1], n, lines[n])
    IN  upTo[Len(lines)]

\* Summary::is_successful.
CheckSucceeds(s) ==
    /\ s.schema_errors = <<>>
    /\ s.digest_mismatches = <<>>
    /\ s.unsupported_formats = <<>>
    /\ s.url_without_timestamp = <<>>
    /\ s.redundant_expected_digest = <<>>
    /\ s.redundant_url = <<>>
    /\ s.out_of_order = <<>>
    /\ s.duplicates = <<>>
-----------------------------------------------------------------------------
\* StreamValidation::default, and last_digest of validate_with.
EmptyValidation ==
    [valid_count |-> 0, invalid_lines |-> <<>>, unexpected_digests |-> <<>>,
     unsupported_formats |-> <<>>, out_of_order |-> <<>>, duplicates |-> <<>>, last |-> 0]

\* validate_one, and what validate_with does with it: only a digest accepted in order moves the
\* comparison point.
Judge(v, n, l) ==
    CASE l.verdict \in {"blank", "unparsed"} -> [v EXCEPT !.invalid_lines = Append(@, n)]
      [] l.verdict = "mismatch" -> [v EXCEPT !.unexpected_digests = Append(@, n)]
      [] l.verdict = "unsupported" -> [v EXCEPT !.unsupported_formats = Append(@, n)]
      [] l.verdict = "valid" ->
           [v EXCEPT !.valid_count = @ + One(l.digest > v.last),
                     !.duplicates = When(l.digest = v.last, @, n),
                     !.out_of_order = When(l.digest < v.last, @, n),
                     !.last = IF l.digest > v.last THEN l.digest ELSE @]

\* StreamValidation::is_successful.
ValidationSucceeds(v) ==
    /\ v.invalid_lines = <<>>
    /\ v.unexpected_digests = <<>>
    /\ v.unsupported_formats = <<>>
    /\ v.out_of_order = <<>>
    /\ v.duplicates = <<>>
=============================================================================
