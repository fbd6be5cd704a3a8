------------------------------- MODULE Enhance -------------------------------
(***************************************************************************)
(* crates/json-processing/src/process/enhance.rs: the snapshots of a file  *)
(* that have no timestamp are given that of their earliest capture, a      *)
(* batch at a time, and all are written to a new file in their order.  A   *)
(* lookup that has nothing for a snapshot's own digest is tried again with *)
(* the digest the CDX index declared for it.                               *)
(*                                                                         *)
(* Digests are integers, valid above 0 (Resolver); timestamps are numbers  *)
(* above 0, and 0 stands for none of either.                               *)
(***************************************************************************)
EXTENDS SnapshotOutput, FiniteSets

CONSTANTS
    SnapshotFiles,  \* what the input may hold
    BadSnapshot,    \* a line the SnapshotReader fails on
    CaptureIndexes, \* what the lookup may know: functions from digests to sets of timestamps
    ExpectedLogs,   \* what expected_digests may give: functions from digests to digests
    BatchSize

SnapshotRecord == [digest : Nat \ {0}, time : Nat, expected : Int]

ASSUME EnhanceAssumption ==
    /\ SnapshotFiles \subseteq Seq(SnapshotRecord \cup {BadSnapshot})
    /\ BadSnapshot \notin SnapshotRecord
    /\ \A captures \in CaptureIndexes : \A d \in DOMAIN captures : captures[d] \subseteq Nat \ {0}
    /\ \A entries \in ExpectedLogs : \A d \in DOMAIN entries : entries[d] \in Int
    /\ BatchSize \in Nat \ {0}

VARIABLES
    unreadLines,    \* the rest of the input
    batch,
    written,        \* how many snapshots of the batch went to the writer
    known,          \* the captures
    log,            \* the expected digests
    enhanced,       \* the writer
    counts,         \* Summary
    phase,          \* "open", "read", "flush", "write", "finish" or "done"
    finalFlush,     \* the input is at its end
    enhanceError,   \* why the loop ended
    enhanceResult,  \* what enhance returned
    whole           \* the input as it was opened

enhanceVars == <<unreadLines, batch, written, known, log, enhanced, counts, phase, finalFlush,
                 enhanceError, enhanceResult, whole>>

EnhanceInit ==
    /\ whole \in SnapshotFiles
    /\ unreadLines = whole
    /\ known \in CaptureIndexes
    /\ log \in ExpectedLogs
    /\ batch = <<>>
    /\ written = 0
    /\ enhanced = NewWriter
    /\ counts = [read |-> 0, written |-> 0, skipped_duplicate |-> 0, enhanced |-> 0,
                 already_enhanced |-> 0, unmatched |-> <<>>]
    /\ phase = "open"
    /\ finalFlush = FALSE
    /\ enhanceError = NoError
    /\ enhanceResult = NoError

\* enhance: the log, the input and the temporary file of the output are opened, or nothing.
OpenEnhance ==
    /\ phase = "open"
    /\ \/ phase' = "read" /\ UNCHANGED enhanceResult
       \/ phase' = "done" /\ enhanceResult' \in {"InvalidDigestDb", "Io"}
    /\ UNCHANGED <<unreadLines, batch, written, known, log, enhanced, counts, finalFlush,
                   enhanceError, whole>>

\* A failure leaves the loop, and the batch that was not written with it.
Leave(error) ==
    /\ enhanceError' = error
    /\ phase' = "finish"

\* The next snapshot joins the batch, which is flushed when it is full.
ReadSnapshot ==
    /\ phase = "read"
    /\ unreadLines # <<>>
    /\ unreadLines' = Tail(unreadLines)
    /\ IF Head(unreadLines) = BadSnapshot
       THEN Leave("Read") /\ UNCHANGED <<batch, counts>>
       ELSE /\ batch' = Append(batch, Head(unreadLines))
            /\ counts' = [counts EXCEPT !.read = @ + 1]
            /\ phase' = IF Len(batch) + 1 = BatchSize THEN "flush" ELSE "read"
            /\ UNCHANGED enhanceError
    /\ UNCHANGED <<written, known, log, enhanced, finalFlush, enhanceResult, whole>>

\* What is left is flushed when the input is at its end.
NoFinalFlush ==
    /\ phase = "read"
    /\ unreadLines = <<>>
    /\ phase' = "finish"
    /\ finalFlush' = TRUE
    /\ UNCHANGED <<unreadLines, batch, written, known, log, enhanced, counts, enhanceError,
                   enhanceResult, whole>>
FinalFlush ==
    /\ phase = "read"
    /\ unreadLines = <<>>
    /\ phase' = "flush"
    /\ finalFlush' = TRUE
    /\ UNCHANGED <<unreadLines, batch, written, known, log, enhanced, counts, enhanceError,
                   enhanceResult, whole>>
-----------------------------------------------------------------------------
(* flush_batch *)

Earliest(times) == CHOOSE t \in times : \A u \in times : t <= u
CapturesOf(digest) == IF digest \in DOMAIN known THEN known[digest] ELSE {}

\* The digest to retry with: the snapshot's own expected digest, or the log's; neither if it is not
\* a valid digest.
Fallback(s) ==
    IF s.expected > 0 THEN s.expected
    ELSE IF s.digest \in DOMAIN log /\ log[s.digest] > 0 THEN log[s.digest]
    ELSE 0

Pending == {i \in DOMAIN batch : batch[i].time = 0}
Rank(S, i) == Cardinality({j \in S : j <= i})
Enumerated(S) == CHOOSE q \in [1 .. Cardinality(S) -> S] : \A i, j \in DOMAIN q : i < j => q[i] < q[j]

\* A lookup may return fewer entries than it was asked for: the first `few` of those of S.
Answers(S, few, i, digest) == IF Rank(S, i) <= few THEN CapturesOf(digest) ELSE {}

\* The lookup and its retry, and what they say of each snapshot of the batch.
LookUp(few, fewer) ==
    /\ phase = "flush"
    /\ LET Own(i) == Answers(Pending, few, i, batch[i].digest)
           resolved == {i \in Pending : Own(i) # {}}
           retried == {i \in Pending \ resolved : Fallback(batch[i]) # 0}
           Found(i) == IF i \in retried
                       THEN Answers(retried, fewer, i, Fallback(batch[i]))
                       ELSE Own(i)
           matched == {i \in Pending : Found(i) # {}}
           none == Enumerated(Pending \ matched)
       IN  /\ few <= Cardinality(Pending)
           /\ fewer <= Cardinality(retried)
           /\ batch' = [i \in DOMAIN batch |->
                IF i \notin matched THEN batch[i]
                ELSE [digest |-> batch[i].digest,
                      time |-> Earliest(Found(i)),
                      expected |-> IF i \in resolved THEN 0 ELSE batch[i].expected]]
           /\ counts' = [counts EXCEPT
                !.already_enhanced = @ + Cardinality(DOMAIN batch \ Pending),
                !.enhanced = @ + Cardinality(matched),
                !.unmatched = @ \o [k \in DOMAIN none |-> batch[none[k]].digest]]
    /\ phase' = "write"
    /\ UNCHANGED <<unreadLines, written, known, log, enhanced, finalFlush, enhanceError,
                   enhanceResult, whole>>

LookupFails ==
    /\ phase = "flush"
    /\ Pending # {}
    /\ counts' = [counts EXCEPT !.already_enhanced = @ + Cardinality(DOMAIN batch \ Pending)]
    /\ Leave("Lookup")
    /\ UNCHANGED <<unreadLines, batch, written, known, log, enhanced, finalFlush, enhanceResult,
                   whole>>

\* A snapshot with the digest written before it is dropped, and counted.
WriteSnapshot(ok) ==
    /\ phase = "write"
    /\ written < Len(batch)
    /\ LET s == batch[written + 1]
       IN  IF Repeats(enhanced, s.digest)
           THEN /\ ok
                /\ counts' = [counts EXCEPT !.skipped_duplicate = @ + 1]
                /\ UNCHANGED enhanced
           ELSE /\ enhanced' = IF ok THEN Written(enhanced, s) ELSE enhanced
                /\ counts' = IF ok THEN [counts EXCEPT !.written = @ + 1] ELSE counts
    /\ IF ok
       THEN written' = written + 1 /\ UNCHANGED <<enhanceError, phase>>
       ELSE Leave("Io") /\ UNCHANGED written
    /\ UNCHANGED <<unreadLines, batch, known, log, finalFlush, enhanceResult, whole>>

BatchWritten ==
    /\ phase = "write"
    /\ written = Len(batch)
    /\ batch' = <<>>
    /\ written' = 0
    /\ phase' = IF finalFlush THEN "finish" ELSE "read"
    /\ UNCHANGED <<unreadLines, known, log, enhanced, counts, finalFlush, enhanceError,
                   enhanceResult, whole>>
-----------------------------------------------------------------------------
\* The writer is finished also when the work failed.
FinishEnhanced(outcome) ==
    /\ phase = "finish"
    /\ enhanced' = Finished(enhanced, outcome)
    /\ enhanceResult' = PreferLoopError(enhanceError, FinishError(outcome))
    /\ phase' = "done"
    /\ UNCHANGED <<unreadLines, batch, written, known, log, counts, finalFlush, enhanceError, whole>>

EnhanceNext ==
    \/ OpenEnhance
    \/ ReadSnapshot \/ FinalFlush
    \/ \E few, fewer \in 0 .. BatchSize : LookUp(few, fewer)
    \/ LookupFails \/ BatchWritten
    \/ \E ok \in BOOLEAN : WriteSnapshot(ok)
    \/ \E outcome \in Outcomes : FinishEnhanced(outcome)

EnhanceSpec == EnhanceInit /\ [][EnhanceNext]_enhanceVars
-----------------------------------------------------------------------------
EnhanceTypeOK ==
    /\ whole \in SnapshotFiles
    /\ known \in CaptureIndexes
    /\ log \in ExpectedLogs
    /\ Len(batch) <= BatchSize
    /\ written \in 0 .. Len(batch)
    /\ enhanced \in WriterType(SnapshotRecord)
    /\ phase \in {"open", "read", "flush", "write", "finish", "done"}
    /\ finalFlush \in BOOLEAN
    /\ enhanceError \in {NoError, "Read", "Lookup", "Io"}
    /\ enhanceResult \in {NoError, "InvalidDigestDb", "Read", "Lookup", "Io"}

\* What may be written for a line of the input: the line, or that with the time of a capture.
MayBecome(s, o) ==
    \/ o = s
    \/ /\ o.digest = s.digest /\ s.time = 0
       /\ \/ /\ CapturesOf(s.digest) # {}
             /\ o.time = Earliest(CapturesOf(s.digest))
             /\ o.expected = 0
          \/ /\ CapturesOf(Fallback(s)) # {}
             /\ o.time = Earliest(CapturesOf(Fallback(s)))
             /\ o.expected = s.expected

\* The lines that went to the writer, and those of them whose digest is not that of the line before.
Processed == 1 .. counts.read - (Len(batch) - written)
RunStarts == {i \in Processed : i = 1 \/ whole[i - 1].digest # whole[i].digest}

\* No line is lost without a trace: each that was read is written, dropped as a repetition of the
\* one before, or still in the batch, and a success has read and classified all of them.  What was
\* written are the lines of the input in their order, unchanged or with the time of the earliest
\* capture of the digest itself, which makes an expected digest obsolete, or of the expected digest.
\* The output is finished whatever failed, and any failure is returned, that of a directory sync
\* too: the output is visible then, as it may be with the lines before a failure of the loop, but
\* only a success says that it is published and whole (enhance_into, flush_batch, write.rs:204-209).
EnhanceLosesNothing ==
    /\ EnhanceTypeOK
    /\ counts.read = counts.written + counts.skipped_duplicate + (Len(batch) - written)
    /\ Len(enhanced.lines) = Cardinality(RunStarts)
    /\ \A i \in RunStarts : MayBecome(whole[i], enhanced.lines[Rank(RunStarts, i)])
    /\ phase = "done" /\ enhanceResult = NoError =>
         /\ counts.read = Len(whole)
         /\ batch = <<>>
         /\ counts.read = counts.enhanced + counts.already_enhanced + Len(counts.unmatched)
    /\ phase = "done" /\ enhanceResult \notin {NoError, "InvalidDigestDb"}
         /\ enhanced.output = "open" => counts.read = 0
    /\ phase = "done" =>
         (enhanceResult = NoError <=> enhanced.output = "published" /\ enhanceError = NoError)
=============================================================================
