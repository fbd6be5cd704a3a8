----------------------------- MODULE TwoWayMerge -----------------------------
(***************************************************************************)
(* crates/json-processing/src/process/merge.rs: two sorted JSONL files are *)
(* merged into one.  The next line of each side is looked at before either *)
(* is taken; a line both sides have is written once, the shorter one when  *)
(* they differ; a line that is broken or out of order ends the merge, and  *)
(* what was written by then is kept.                                       *)
(*                                                                         *)
(* A line is a digest and a text, of which only the length is compared.    *)
(***************************************************************************)
EXTENDS SnapshotOutput, FiniteSets

CONSTANTS
    MergeFiles, \* what each of the two inputs may hold
    TextSize,   \* the length of each text
    Unparsed,   \* a line that does not begin with a digest
    Unreadable  \* a line the reader fails on

Side == {"first", "second"}
Line == [digest : Nat \ {0}, text : DOMAIN TextSize]

ASSUME TwoWayAssumption ==
    /\ MergeFiles \subseteq Seq(Line \cup {Unparsed, Unreadable})
    /\ TextSize \in [DOMAIN TextSize -> Nat]
    /\ Unparsed \notin Line
    /\ Unreadable \notin Line

VARIABLES
    file,       \* the lines of each input
    number,     \* how many of them were taken
    last,       \* the digest taken last from each
    merged,     \* the writer of the output
    summary,    \* Summary: counts by source, the digests both had, the collisions
    failure,    \* why the loop ended
    culprit,    \* the side an input error names
    stage,      \* "open", "merge", "finish" or "done"
    outcome     \* what merge_zst returned

twoWayVars == <<file, number, last, merged, summary, failure, culprit, stage, outcome>>

TwoWayInit ==
    /\ file \in [Side -> MergeFiles]
    /\ number = [s \in Side |-> 0]
    /\ last = [s \in Side |-> NoDigest]
    /\ merged = NewWriter
    /\ summary = [first |-> 0, second |-> 0, both |-> <<>>, collisions |-> {}]
    /\ failure = NoError
    /\ culprit = "first"
    /\ stage = "open"
    /\ outcome = NoError

\* merge_zst: both inputs are opened and the temporary file of the output is created, or nothing.
OpenTwo ==
    /\ stage = "open"
    /\ \/ stage' = "merge" /\ UNCHANGED outcome
       \/ stage' = "done" /\ outcome' = "Io"
    /\ UNCHANGED <<file, number, last, merged, summary, failure, culprit>>

Spent(s) == number[s] = Len(file[s])
Head1(s) == file[s][number[s] + 1]
\* FileState::peek: Done, Bad or Ready.
Spoiled(s) == ~ Spent(s) /\ Head1(s) \in {Unparsed, Unreadable}
Ready(s) == ~ Spent(s) /\ ~ Spoiled(s)

\* MergeIter::next_unfused: lines are taken only while neither side has a bad one next.
NoFlawOnBoth == \E s \in Side : ~ Spoiled(s)
NoFlaw == \A s \in Side : ~ Spoiled(s)

\* The sides whose next line goes to the output now: the lesser digest, or both if they are equal.
Due == {s \in Side : Ready(s) /\ \A t \in Side : Ready(t) => Head1(s).digest <= Head1(t).digest}

\* SourceLine::value of the lines taken from the sides S.
Value(S) ==
    IF S = Side /\ TextSize[Head1("first").text] < TextSize[Head1("second").text]
    THEN Head1("first")
    ELSE Head1(IF "second" \in S THEN "second" ELSE "first")

\* FileState::take_ok refuses a digest that does not sort after the one taken before it.
OutOfOrder(s) == Head1(s).digest <= last[s]

Advance(S) == number' = [s \in Side |-> number[s] + (IF s \in S THEN 1 ELSE 0)]

Fail(error, s) ==
    /\ failure' = error
    /\ culprit' = s
    /\ stage' = "finish"
    /\ UNCHANGED <<file, merged, summary, outcome>>

\* take_error: a bad line is surfaced as soon as it is next, the first side's before the second's.
Surface(s) ==
    /\ stage = "merge"
    /\ Spoiled(s)
    /\ s = "second" => ~ Spoiled("first")
    /\ Advance({s})
    /\ Fail(IF Head1(s) = Unparsed THEN "InvalidLine" ELSE "ReadIo", s)
    /\ UNCHANGED last

\* What merge_into records of a line written for the sides S.
Summarised(S) ==
    LET one == Head1("first")
        two == Head1("second")
    IN  CASE S = {"first"} -> [summary EXCEPT !.first = @ + 1]
          [] S = {"second"} -> [summary EXCEPT !.second = @ + 1]
          [] S = Side ->
               [summary EXCEPT
                  !.both = Append(@, one.digest),
                  !.collisions = IF one.text = two.text THEN @
                                 ELSE @ \cup {<<one.digest, number["first"] + 1,
                                                number["second"] + 1>>}]

\* One line that is sound goes to the output, or writing it fails.
TakeDue(written) ==
    /\ stage = "merge"
    /\ NoFlaw
    /\ Due # {}
    /\ \A s \in Due : ~ OutOfOrder(s)
    /\ Advance(Due)
    /\ last' = [s \in Side |-> IF s \in Due THEN Head1(s).digest ELSE last[s]]
    /\ IF written
       THEN /\ merged' = Written(merged, Value(Due))
            /\ summary' = Summarised(Due)
            /\ UNCHANGED <<failure, stage>>
       ELSE /\ failure' = "Io"
            /\ stage' = "finish"
            /\ UNCHANGED <<merged, summary>>
    /\ UNCHANGED <<file, culprit, outcome>>

\* take_ok fails: the iterator gives the error and is done.  Of a line both have, the first side's
\* has been taken by then.
Unsorted(s) ==
    /\ stage = "merge"
    /\ NoFlaw
    /\ s \in Due
    /\ OutOfOrder(s)
    /\ s = "second" => ~ ("first" \in Due /\ OutOfOrder("first"))
    /\ LET taken == IF s = "second" THEN Due \ {s} ELSE {}
       IN  /\ Advance(taken \cup {s})
           /\ last' = [t \in Side |-> IF t \in taken THEN Head1(t).digest ELSE last[t]]
    /\ Fail("Order", s)

Exhausted ==
    /\ stage = "merge"
    /\ \A s \in Side : Spent(s)
    /\ stage' = "finish"
    /\ UNCHANGED <<file, number, last, merged, summary, failure, culprit, outcome>>

\* The writer is finished whether the loop failed or not.
FinishMerged(finished) ==
    /\ stage = "finish"
    /\ merged' = Finished(merged, finished)
    /\ outcome' = PreferLoopError(failure, FinishError(finished))
    /\ stage' = "done"
    /\ UNCHANGED <<file, number, last, summary, failure, culprit>>

TwoWayNext ==
    \/ OpenTwo
    \/ \E s \in Side : Surface(s) \/ Unsorted(s)
    \/ \E ok \in BOOLEAN : TakeDue(ok)
    \/ \E finished \in Outcomes : FinishMerged(finished)
    \/ Exhausted

TwoWaySpec == TwoWayInit /\ [][TwoWayNext]_twoWayVars
-----------------------------------------------------------------------------
SummaryType ==
    [first : Nat, second : Nat, both : Seq(Nat), collisions : SUBSET (Nat \X Nat \X Nat)]

TwoWayTypeOK ==
    /\ file \in [Side -> MergeFiles]
    /\ number \in [Side -> Nat]
    /\ \A s \in Side : number[s] <= Len(file[s])
    /\ last \in [Side -> Nat]
    /\ merged \in WriterType(Line)
    /\ summary \in SummaryType
    /\ failure \in {NoError, "Io", "Order", "InvalidLine", "ReadIo"}
    /\ culprit \in Side
    /\ stage \in {"open", "merge", "finish", "done"}
    /\ outcome \in {NoError, "Io", "Order", "InvalidLine", "ReadIo"}

Succeeded == stage = "done" /\ outcome = NoError

\* How many lines of an input there are before the first that is broken or out of order.
SoundTo(s, n) ==
    \A i \in 1 .. n : /\ file[s][i] \in Line
                      /\ \A j \in 1 .. i - 1 : file[s][j].digest < file[s][i].digest
Sound(s) == {i \in 1 .. Len(file[s]) : SoundTo(s, i)}

\* The output ascends, holds only lines that were read, and has, up to its last digest, every line
\* of both inputs that comes before their first flaw, no longer than either had it; after a
\* success it has all of both, and the digests both had are those the summary lists
\* (MergeIter::next_unfused, SourceLine::value, merge_into).
MergedIsUnion ==
    LET out == merged.lines
        Has(d) == \E i \in DOMAIN out : out[i].digest = d
    IN  /\ \A i, j \in DOMAIN out : i < j => out[i].digest < out[j].digest
        /\ \A i \in DOMAIN out : \E s \in Side : \E n \in 1 .. number[s] : file[s][n] = out[i]
        /\ \A s \in Side : \A n \in Sound(s) :
             \A i \in DOMAIN out :
               /\ file[s][n].digest <= out[i].digest => Has(file[s][n].digest)
               /\ file[s][n].digest = out[i].digest
                    => TextSize[out[i].text] <= TextSize[file[s][n].text]
        /\ Succeeded =>
             /\ \A s \in Side : \A n \in DOMAIN file[s] :
                  n \in Sound(s) /\ Has(file[s][n].digest)
             /\ {summary.both[i] : i \in DOMAIN summary.both} =
                  {d \in {out[i].digest : i \in DOMAIN out} :
                     \A s \in Side : \E n \in DOMAIN file[s] : file[s][n].digest = d}

\* An error that names a line names the first flaw of that input, and was not held back: nothing
\* beyond the line before it was written, however many lines the other side still had
\* (the comment at merge.rs:459-461).
MergeStopsAtFlaw ==
    failure \in {"Order", "InvalidLine", "ReadIo"} =>
      /\ number[culprit] \notin Sound(culprit)
      /\ \A n \in 1 .. number[culprit] - 1 : n \in Sound(culprit)
      /\ \A i \in DOMAIN merged.lines : merged.lines[i].digest <= last[culprit]

\* The merge of two files is theirs, as far as it goes, and goes as far as it may.
MergeIsSound == TwoWayTypeOK /\ MergedIsUnion /\ MergeStopsAtFlaw
=============================================================================
