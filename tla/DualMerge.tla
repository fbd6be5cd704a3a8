----------------------------- MODULE DualMerge -----------------------------
(***************************************************************************)
(* crates/json-processing/src/stream/merge.rs, merge_dual_zstd: two sorted *)
(* snapshot files and a sorted list of new ones are merged into two sorted *)
(* outputs.  One task merges; each output has a thread of its own that     *)
(* writes what the task sends it through a bounded channel.                *)
(*                                                                         *)
(* A snapshot is its digest, a natural number above 0; lines that cannot   *)
(* be read or parsed are Bad.  What the merging task does between two      *)
(* awaits is one step; the input streams are read as their lines come.     *)
(***************************************************************************)
EXTENDS Integers, Sequences, FiniteSets

CONSTANTS
    InputFiles,     \* what each of the existing inputs may hold
    NewEntryLists,  \* what DualConfig::new_entries may hold
    Bad,            \* a line that is an error
    Buffer          \* CHANNEL_BUFFER, the commands a channel holds

Sides == {1, 2}
Digest == Nat \ {0}
None == 0

ASSUME MergeAssumption ==
    /\ InputFiles \subseteq Seq(Digest \cup {Bad})
    /\ NewEntryLists \subseteq Seq(Digest)
    /\ Bad \notin Nat
    /\ Buffer \in Nat \ {0}

VARIABLES
    input,      \* the lines of each input
    line,       \* how many of them were consumed
    previous,   \* the digest consumed last from each input
    entries,    \* the digests of the new entries
    index,      \* which of them is merged now
    pc,         \* where the merging task is
    side,       \* the stream or sink it is at
    error,      \* why the merge loop ended
    sent,       \* what was sent to each sink
    passed,     \* Stats: first_passthrough and second_passthrough
    new,        \* Stats: first_new and second_new
    skipped,    \* Stats: skipped
    sender,     \* whether the channel to each writer is "open", "aborted" or "dropped"
    writer,     \* "none", "writing", "broken" or "ended"
    taken,      \* how many commands each writer has received
    reported,    \* what each writer thread returned
    published,  \* whether each output is at its path
    result      \* what merge_dual_zstd returned

inputVars == <<input, line, previous>>
entryVars == <<entries, index>>
stats == <<passed, new, skipped>>
writerVars == <<writer, taken, reported, published>>
vars == <<inputVars, entryVars, pc, side, error, sent, stats, sender, writerVars, result>>

PCs == {"create", "abort", "entry", "drain", "match", "file", "rest", "finish", "join", "done"}
Errors == {"none", "Io", "Stream", "Order", "WriterChannelClosed", "Write"}

TypeOK ==
    /\ input \in [Sides -> InputFiles]
    /\ line \in [Sides -> Nat]
    /\ \A s \in Sides : line[s] <= Len(input[s])
    /\ previous \in [Sides -> Nat]
    /\ entries \in NewEntryLists
    /\ index \in 0 .. Len(entries)
    /\ pc \in PCs
    /\ side \in Sides
    /\ error \in Errors
    /\ sent \in [Sides -> Seq(Digest)]
    /\ passed \in [Sides -> Nat]
    /\ new \in [Sides -> Nat]
    /\ skipped \in Nat
    /\ sender \in [Sides -> {"open", "aborted", "dropped"}]
    /\ writer \in [Sides -> {"none", "writing", "broken", "ended"}]
    /\ taken \in [Sides -> Nat]
    /\ \A s \in Sides : taken[s] <= Len(sent[s])
    /\ reported \in [Sides -> {"none", "ok", "Write"}]
    /\ published \in [Sides -> BOOLEAN]
    /\ result \in {"none", "ok"} \cup Errors

Init ==
    /\ input \in [Sides -> InputFiles]
    /\ line = [s \in Sides |-> 0]
    /\ previous = [s \in Sides |-> None]
    /\ entries \in NewEntryLists
    /\ index = 0
    /\ pc = "create"
    /\ side = 1
    /\ error = "none"
    /\ sent = [s \in Sides |-> <<>>]
    /\ passed = [s \in Sides |-> 0]
    /\ new = [s \in Sides |-> 0]
    /\ skipped = 0
    /\ sender = [s \in Sides |-> "open"]
    /\ writer = [s \in Sides |-> "none"]
    /\ taken = [s \in Sides |-> 0]
    /\ reported = [s \in Sides |-> "none"]
    /\ published = [s \in Sides |-> FALSE]
    /\ result = "none"
-----------------------------------------------------------------------------
(* Creating the sinks *)

\* AsyncSnapshotSink::create: the writer thread opens its output and says so before anything is
\* sent.
Create ==
    /\ pc = "create"
    /\ writer' = [writer EXCEPT ![side] = "writing"]
    /\ IF side = 1 THEN side' = 2 /\ UNCHANGED pc ELSE side' = 1 /\ pc' = "entry"
    /\ UNCHANGED <<inputVars, entryVars, error, sent, stats, sender, taken, reported, published,
                   result>>

\* The output exists or its temporary file cannot be created.  If it is the second, the first
\* writer is told to drop what it has instead of publishing it.
CreateFails ==
    /\ pc = "create"
    /\ error' = "Io"
    /\ IF side = 1
       THEN pc' = "done" /\ result' = "Io" /\ UNCHANGED sender
       ELSE pc' = "abort" /\ sender' = [sender EXCEPT ![1] = "aborted"] /\ UNCHANGED result
    /\ UNCHANGED <<inputVars, entryVars, side, sent, stats, writerVars>>

\* The error of the second sink is returned when the first writer has ended.
AbortJoined ==
    /\ pc = "abort"
    /\ writer[1] = "ended"
    /\ pc' = "done"
    /\ result' = error
    /\ UNCHANGED <<inputVars, entryVars, side, error, sent, stats, sender, writerVars>>
-----------------------------------------------------------------------------
(* The merge loop *)

AtEnd(s) == line[s] = Len(input[s])
Upcoming(s) == input[s][line[s] + 1]
IsBad(s) == ~ AtEnd(s) /\ Upcoming(s) = Bad
IsSnapshot(s) == ~ AtEnd(s) /\ Upcoming(s) # Bad
Target == entries[index]

\* The loop ends, and the sinks are finished whether it failed or not.
Stop(e) ==
    /\ error' = e
    /\ pc' = "finish"
    /\ side' = 1
    /\ UNCHANGED <<inputVars, entryVars, sent, stats, sender, writerVars, result>>

Goto(step, s) == pc' = step /\ side' = s

\* The channel takes one more command, or its receiver is gone.
HasRoom(s) == writer[s] # "ended" /\ Len(sent[s]) - taken[s] < Buffer
SendFailsNever(s) == FALSE
SendFails(s) == writer[s] = "ended" /\ Stop("WriterChannelClosed")
Send(s, d) ==
    /\ HasRoom(s)
    /\ sent' = [sent EXCEPT ![s] = Append(@, d)]

\* The next line of an input is an error: peek_digest or next returns it.
MeetsBadLine(s) == IsBad(s) /\ Stop("Stream")

\* PeekedStream::next and write_existing: the next snapshot of s goes to its sink, unless it does
\* not sort after the one before it.
Unordered(s) == Upcoming(s) <= previous[s]
PassThrough(s, step, t) ==
    \/ Unordered(s) /\ Stop("Order")
    \/ ~ Unordered(s) /\ SendFails(s)
    \/ /\ ~ Unordered(s)
       /\ Send(s, Upcoming(s))
       /\ line' = [line EXCEPT ![s] = @ + 1]
       /\ previous' = [previous EXCEPT ![s] = Upcoming(s)]
       /\ passed' = [passed EXCEPT ![s] = @ + 1]
       /\ Goto(step, t)
       /\ UNCHANGED <<input, entryVars, error, new, skipped, sender, writerVars, result>>

\* The loop goes on somewhere else without having read anything.
Move(step, s) ==
    /\ Goto(step, s)
    /\ UNCHANGED <<inputVars, entryVars, error, sent, stats, sender, writerVars, result>>

\* The next new entry, which must sort after the one before.
TakeEntry ==
    /\ pc = "entry"
    /\ index < Len(entries)
    /\ IF index > 0 /\ entries[index + 1] <= entries[index]
       THEN Stop("Order")
       ELSE /\ index' = index + 1
            /\ Goto("drain", 1)
            /\ UNCHANGED <<inputVars, entries, error, sent, stats, sender, writerVars, result>>

EntriesDone ==
    /\ pc = "entry"
    /\ index = Len(entries)
    /\ Move("rest", 1)

\* drain_before, for the first input and then the second.
DrainFirstOnly ==
    /\ pc = "drain"
    /\ \/ MeetsBadLine(side)
       \/ /\ IsSnapshot(side)
          /\ Upcoming(side) < Target
          /\ PassThrough(side, "drain", side)
       \/ /\ ~ IsBad(side) /\ (IsSnapshot(side) => Upcoming(side) >= Target)
          /\ Move("match", 1)
Drain ==
    /\ pc = "drain"
    /\ \/ MeetsBadLine(side)
       \/ /\ IsSnapshot(side)
          /\ Upcoming(side) < Target
          /\ PassThrough(side, "drain", side)
       \/ /\ ~ IsBad(side) /\ (IsSnapshot(side) => Upcoming(side) >= Target)
          /\ IF side = 1 THEN Move("drain", 2) ELSE Move("match", 1)

\* passthrough_if_match, for the first input and then the second: an entry that exists is kept,
\* and the new file is not read.
Match ==
    /\ pc = "match"
    /\ \/ MeetsBadLine(side)
       \/ /\ IsSnapshot(side)
          /\ Upcoming(side) = Target
          /\ PassThrough(side, "entry", 1)
       \/ /\ ~ IsBad(side) /\ (IsSnapshot(side) => Upcoming(side) # Target)
          /\ IF side = 1 THEN Move("match", 2) ELSE Move("file", 1)

\* The new file cannot be read, has other bytes than its name says or a line break inside, or is
\* not wanted by the classifier.
SkipFile ==
    /\ pc = "file"
    /\ skipped' = skipped + 1
    /\ Goto("entry", 1)
    /\ UNCHANGED <<inputVars, entryVars, error, sent, passed, new, sender, writerVars, result>>

\* The classifier puts the new file into the output of s.
WriteFile(s) ==
    /\ pc = "file"
    /\ \/ SendFails(s)
       \/ /\ Send(s, Target)
          /\ new' = [new EXCEPT ![s] = @ + 1]
          /\ Goto("entry", 1)
          /\ UNCHANGED <<inputVars, entryVars, error, passed, skipped, sender, writerVars, result>>

\* drain_rest, for the first input and then the second.
Rest ==
    /\ pc = "rest"
    /\ \/ MeetsBadLine(side)
       \/ /\ IsSnapshot(side)
          /\ PassThrough(side, "rest", side)
       \/ /\ AtEnd(side)
          /\ IF side = 1 THEN Move("rest", 2) ELSE Move("finish", 1)
-----------------------------------------------------------------------------
(* Finishing *)

\* AsyncSnapshotSink::finish drops the sender of one sink and waits for its thread.
DropSender ==
    /\ pc = "finish"
    /\ sender' = [sender EXCEPT ![side] = "dropped"]
    /\ pc' = "join"
    /\ UNCHANGED <<inputVars, entryVars, side, error, sent, stats, writerVars, result>>

\* When the channel was closed by a writer, its error is returned instead; otherwise the error of
\* the loop, and then those of the writers, first things first.
Returned ==
    IF error \in {"none", "WriterChannelClosed"}
    THEN IF \E s \in Sides : reported[s] = "Write" THEN "Write"
         ELSE IF error = "none" THEN "ok" ELSE error
    ELSE error
Join ==
    /\ pc = "join"
    /\ writer[side] = "ended"
    /\ IF side = 1
       THEN Goto("finish", 2) /\ UNCHANGED result
       ELSE pc' = "done" /\ result' = Returned /\ UNCHANGED side
    /\ UNCHANGED <<inputVars, entryVars, error, sent, stats, sender, writerVars>>
-----------------------------------------------------------------------------
(* The writer threads *)

\* A command is received and its line written.
Write(s) ==
    /\ writer[s] = "writing"
    /\ taken[s] < Len(sent[s])
    /\ taken' = [taken EXCEPT ![s] = @ + 1]
    /\ UNCHANGED <<inputVars, entryVars, pc, side, error, sent, stats, sender, writer, reported,
                   published, result>>

\* The line cannot be written: the loop of the thread ends, and the output is still finished.
WriteFails(s) ==
    /\ writer[s] = "writing"
    /\ taken[s] < Len(sent[s])
    /\ taken' = [taken EXCEPT ![s] = @ + 1]
    /\ writer' = [writer EXCEPT ![s] = "broken"]
    /\ reported' = [reported EXCEPT ![s] = "Write"]
    /\ UNCHANGED <<inputVars, entryVars, pc, side, error, sent, stats, sender, published, result>>

\* The frame is terminated and the output published.  Either can fail, and so can the
\* synchronisation after the output is visible; a write error is the one that is returned.
HasAny(s) ==
    \/ writer[s] = "broken"
    \/ writer[s] = "writing" /\ sender[s] = "dropped"
HasAll(s) ==
    \/ writer[s] = "broken"
    \/ writer[s] = "writing" /\ sender[s] = "dropped" /\ taken[s] = Len(sent[s])
Finish(s) ==
    /\ HasAll(s)
    /\ writer' = [writer EXCEPT ![s] = "ended"]
    /\ \/ /\ published' = [published EXCEPT ![s] = TRUE]
          /\ reported' = [reported EXCEPT ![s] = IF @ = "Write" THEN @ ELSE "ok"]
       \/ /\ \E p \in BOOLEAN : published' = [published EXCEPT ![s] = p]
          /\ reported' = [reported EXCEPT ![s] = "Write"]
    /\ UNCHANGED <<inputVars, entryVars, pc, side, error, sent, stats, sender, taken, result>>

\* WriteCommand::Abort: the writer and its temporary file are dropped.
Abort(s) ==
    /\ writer[s] = "writing"
    /\ sender[s] = "aborted"
    /\ writer' = [writer EXCEPT ![s] = "ended"]
    /\ reported' = [reported EXCEPT ![s] = "ok"]
    /\ UNCHANGED <<inputVars, entryVars, pc, side, error, sent, stats, sender, taken, published,
                   result>>
-----------------------------------------------------------------------------
MergeTask ==
    \/ Create \/ CreateFails \/ AbortJoined
    \/ TakeEntry \/ EntriesDone \/ Drain \/ Match \/ SkipFile \/ (\E s \in Sides : WriteFile(s))
    \/ Rest \/ DropSender \/ Join
WriterThread(s) == Write(s) \/ WriteFails(s) \/ Finish(s) \/ Abort(s)

Next == MergeTask \/ \E s \in Sides : WriterThread(s)

\* The task is polled when it can go on, and the threads run.
Spec == Init /\ [][Next]_vars /\ WF_vars(MergeTask) /\ \A s \in Sides : WF_vars(WriterThread(s))
-----------------------------------------------------------------------------
(* Properties *)

Elements(q) == {q[n] : n \in DOMAIN q}
Ascending(q) == \A m, n \in DOMAIN q : m < n => q[m] < q[n]

\* "Every digest sent to a single sink is strictly greater than the previous one": an output is
\* sorted and has no digest twice, also when an input is not sorted and the merge fails.
OutputsAscend == \A s \in Sides : Ascending(sent[s])

\* A digest is in both outputs only if it was in both inputs: "if the digest already exists in
\* either stream, the existing entry is preserved (no duplicate)".
NoDuplicates ==
    Elements(sent[1]) \cap Elements(sent[2]) \subseteq Elements(input[1]) \cap Elements(input[2])

\* An output has no holes, however the merge ends: every existing snapshot up to the greatest
\* digest sent is there, as far as its input is sorted and sound.
SoundUpTo(s, m) ==
    \A k \in 1 .. m : input[s][k] # Bad /\ \A j \in 1 .. k - 1 : input[s][j] < input[s][k]
NoHoles ==
    \A s \in Sides : \A n \in DOMAIN sent[s] : \A m \in DOMAIN input[s] :
      SoundUpTo(s, m) /\ input[s][m] <= sent[s][n] => input[s][m] \in Elements(sent[s])

\* A merge that says it went well has published both outputs, with every existing line in its own
\* output and every new entry in one of them, counted as skipped, or there before; and its counts
\* are those of the lines written.
OkIsComplete ==
    result = "ok" =>
      /\ \A s \in Sides :
           /\ published[s]
           /\ taken[s] = Len(sent[s])
           /\ reported[s] = "ok"
           /\ Elements(input[s]) \subseteq Elements(sent[s])
           /\ Elements(sent[s]) \subseteq Elements(input[s]) \cup Elements(entries)
           /\ Len(sent[s]) = passed[s] + new[s]
           /\ passed[s] = Len(input[s])
      /\ Len(entries) = new[1] + new[2] + skipped + Cardinality(
           {n \in DOMAIN entries : entries[n] \in Elements(input[1]) \cup Elements(input[2])})

\* "If a writer channel closed, prefer the underlying writer error": there always is one, so the
\* closed channel itself is never what the caller is told.
CauseIsKnown == result # "WriterChannelClosed"

\* If the second output cannot be created, the first is not published.
NothingPublishedByAbort ==
    \A s \in Sides : published[s] => \A t \in Sides : writer[t] # "none"

\* The outputs are sorted, disjoint as far as the inputs were, and without holes.
OutputsAreMerged == OutputsAscend /\ NoDuplicates /\ NoHoles

\* What the caller is told is true: a success is complete, the cause of a failure is named, and
\* after an abort nothing is published.
ResultIsTruthful == OkIsComplete /\ CauseIsKnown /\ NothingPublishedByAbort

\* The merge ends, also when a writer dies while the task waits for room in its channel.
MergeEnds == <>(pc = "done")
=============================================================================
