----------------------------- MODULE LineStream -----------------------------
(***************************************************************************)
(* crates/json-processing/src/stream/mod.rs: a thread reads lines into a   *)
(* bounded channel; they are parsed in chunks by blocking tasks, a bounded *)
(* number of them at a time, and the chunks are put back in order.  Either *)
(* validate_with consumes the stream, or a caller of open_with, who may    *)
(* drop it at any time.                                                    *)
(***************************************************************************)
EXTENDS LineChecks, FiniteSets

CONSTANTS
    StreamFiles,    \* what the source may hold
    Failure,        \* a line that cannot be read, for ever if it is the last
    ChannelBuffer,  \* CHANNEL_BUFFER
    ChunkSize,      \* PARSE_CHUNK_SIZE
    Parallelisms    \* the numbers of concurrent tasks asked for

ASSUME StreamAssumption ==
    /\ StreamFiles \subseteq Seq(SnapshotLine \cup {Failure})
    /\ Failure \notin SnapshotLine
    /\ ChannelBuffer \in Nat \ {0}
    /\ ChunkSize \in Nat \ {0}
    /\ Parallelisms \subseteq Nat \ {0}

VARIABLES
    source,     \* the lines of the file
    use,        \* "validate" or "open"
    parallel,   \* the parallelism
    reader,     \* the reading thread: "opening", "reading" or "ended"
    nextLine,   \* how many lines it has read
    channel,    \* numbers of the lines it has sent
    receiving,  \* whether the receiver still exists
    chunk,      \* the lines collected for the next task
    tasks,      \* the tasks in flight, oldest first
    ready,      \* the results of the oldest task that were not looked at yet
    found,      \* the StreamValidation
    seen,       \* how many items were taken from the stream
    answer      \* "none", "ok", "error" or "dropped"

streamVars == <<source, use, parallel, reader, nextLine, channel, receiving, chunk, tasks, ready,
                found, seen, answer>>

\* An item that is no line: the source could not be opened, or a task was lost.
OpenError == 0
Lost == -1

StreamInit ==
    /\ source \in StreamFiles
    /\ use \in {"validate", "open"}
    /\ parallel \in Parallelisms
    /\ reader = "opening"
    /\ nextLine = 0
    /\ channel = <<>>
    /\ receiving = TRUE
    /\ chunk = <<>>
    /\ tasks = <<>>
    /\ ready = <<>>
    /\ found = EmptyValidation
    /\ seen = 0
    /\ answer = "none"

consumerVars == <<receiving, chunk, tasks, ready, found, seen, answer>>
-----------------------------------------------------------------------------
(* read_lines: the reading thread *)

\* make_reader opens the source, or its error is the only item of the stream.
Opens(ok) ==
    /\ reader = "opening"
    /\ reader' = IF ok THEN "reading" ELSE "ended"
    /\ channel' = IF ok \/ ~ receiving THEN channel ELSE Append(channel, OpenError)
    /\ UNCHANGED <<source, use, parallel, nextLine, consumerVars>>

\* blocking_send waits for room.  A reader that has failed is asked for the next line all the same,
\* and may fail on it again.
Sends ==
    /\ reader = "reading"
    /\ receiving
    /\ nextLine < Len(source)
    /\ Len(channel) < ChannelBuffer
    /\ channel' = Append(channel, nextLine + 1)
    /\ nextLine' = IF nextLine + 1 = Len(source) /\ source[nextLine + 1] = Failure
                   THEN nextLine ELSE nextLine + 1
    /\ UNCHANGED <<source, use, parallel, reader, consumerVars>>

\* The lines are read, or sending one more failed because the receiver is gone.
ReaderEnds ==
    /\ reader = "reading"
    /\ nextLine = Len(source) \/ ~ receiving
    /\ reader' = "ended"
    /\ UNCHANGED <<source, use, parallel, nextLine, channel, consumerVars>>
-----------------------------------------------------------------------------
(* chunks, spawn_blocking and buffered *)

Drained == reader = "ended" /\ channel = <<>>

\* The stream is polled for more only while fewer tasks than the parallelism are in flight.
Wanted == answer = "none" /\ (parallel > 1 => Len(tasks) < parallel)

Collect ==
    /\ Wanted
    /\ parallel > 1
    /\ channel # <<>>
    /\ Len(chunk) < ChunkSize
    /\ chunk' = Append(chunk, Head(channel))
    /\ channel' = Tail(channel)
    /\ UNCHANGED <<source, use, parallel, reader, nextLine, receiving, tasks, ready, found, seen,
                   answer>>

\* A chunk that is full, or the last, becomes a task.
Dispatch ==
    /\ Wanted
    /\ Len(chunk) = ChunkSize \/ (chunk # <<>> /\ Drained)
    /\ tasks' = Append(tasks, [lines |-> chunk, state |-> "running"])
    /\ chunk' = <<>>
    /\ UNCHANGED <<source, use, parallel, reader, nextLine, channel, receiving, ready, found, seen,
                   answer>>

\* Tasks end in any order; one may be lost (a JoinError).
TaskEnds(i, state) ==
    /\ i \in DOMAIN tasks
    /\ tasks[i].state = "running"
    /\ tasks' = [tasks EXCEPT ![i].state = state]
    /\ UNCHANGED <<source, use, parallel, reader, nextLine, channel, receiving, chunk, ready, found,
                   seen, answer>>

\* buffered gives the results of the oldest task; flatten goes through them one by one.
Oldest == {1}
AnyTask == DOMAIN tasks
Yielded == Oldest \cap DOMAIN tasks
Flatten ==
    /\ answer = "none"
    /\ ready = <<>>
    /\ \E i \in Yielded :
         /\ tasks[i].state # "running"
         /\ ready' = IF tasks[i].state = "lost" THEN <<Lost>> ELSE tasks[i].lines
         /\ tasks' = [j \in 1 .. Len(tasks) - 1 |-> tasks[IF j < i THEN j ELSE j + 1]]
    /\ UNCHANGED <<source, use, parallel, reader, nextLine, channel, receiving, chunk, found, seen,
                   answer>>

\* Without parallelism the lines are parsed as they are received.
Receive ==
    /\ answer = "none"
    /\ parallel = 1
    /\ ready = <<>>
    /\ channel # <<>>
    /\ ready' = <<Head(channel)>>
    /\ channel' = Tail(channel)
    /\ UNCHANGED <<source, use, parallel, reader, nextLine, receiving, chunk, tasks, found, seen,
                   answer>>
-----------------------------------------------------------------------------
(* The consumer *)

IsError(n) == n \in {OpenError, Lost} \/ source[n] = Failure

\* The stream is dropped, with its receiver and the tasks in flight.
Close(a) ==
    /\ answer' = a
    /\ receiving' = FALSE
    /\ channel' = <<>>
    /\ chunk' = <<>>
    /\ tasks' = <<>>
    /\ ready' = <<>>

\* validate_with: an error ends the validation, anything else is judged in the order of the lines.
Validate ==
    /\ use = "validate"
    /\ ready # <<>>
    /\ seen' = seen + 1
    /\ LET n == Head(ready)
       IN  IF IsError(n)
           THEN Close("error") /\ UNCHANGED found
           ELSE /\ found' = Judge(found, n, source[n])
                /\ ready' = Tail(ready)
                /\ UNCHANGED <<receiving, channel, chunk, tasks, answer>>
    /\ UNCHANGED <<source, use, parallel, reader, nextLine>>

\* A caller of open_with: it goes on after a snapshot, and stops at the first error, as PeekedStream
\* of stream/merge.rs does; a line that does not parse is an error too.
TakeItem ==
    /\ use = "open"
    /\ ready # <<>>
    /\ seen' = seen + 1
    /\ LET n == Head(ready)
       IN  IF IsError(n) \/ source[n].verdict \in {"blank", "unparsed"}
           THEN Close("error")
           ELSE ready' = Tail(ready) /\ UNCHANGED <<receiving, channel, chunk, tasks, answer>>
    /\ UNCHANGED <<source, use, parallel, reader, nextLine, found>>

DropStream ==
    /\ use = "open"
    /\ answer = "none"
    /\ Close("dropped")
    /\ UNCHANGED <<source, use, parallel, reader, nextLine, found, seen>>

StreamIsOver ==
    /\ answer = "none"
    /\ Drained
    /\ chunk = <<>> /\ tasks = <<>> /\ ready = <<>>
    /\ Close("ok")
    /\ UNCHANGED <<source, use, parallel, reader, nextLine, found, seen>>

ReaderThread == Opens(TRUE) \/ Opens(FALSE) \/ Sends \/ ReaderEnds
Consumer == Collect \/ Dispatch \/ Flatten \/ Receive \/ Validate \/ TakeItem \/ StreamIsOver
Task(i) == TaskEnds(i, "parsed") \/ TaskEnds(i, "lost")
StreamNext ==
    \/ ReaderThread
    \/ Consumer
    \/ \E i \in DOMAIN tasks : Task(i)
    \/ DropStream

\* The threads of the runtime go on: the reader, the tasks and whoever polls the stream.
StreamFairness ==
    /\ WF_streamVars(ReaderThread)
    /\ WF_streamVars(Consumer)
    /\ WF_streamVars(\E i \in DOMAIN tasks : Task(i))

StreamSpec == StreamInit /\ [][StreamNext]_streamVars /\ StreamFairness
-----------------------------------------------------------------------------
StreamTypeOK ==
    /\ source \in StreamFiles
    /\ use \in {"validate", "open"}
    /\ parallel \in Parallelisms
    /\ reader \in {"opening", "reading", "ended"}
    /\ nextLine \in 0 .. Len(source)
    /\ channel \in Seq(Nat)
    /\ Len(channel) <= ChannelBuffer
    /\ receiving \in BOOLEAN
    /\ Len(chunk) <= ChunkSize
    /\ Len(tasks) <= parallel
    /\ seen \in Nat
    /\ answer \in {"none", "ok", "error", "dropped"}

\* A list has the numbers of a set, in their order.
IsListed(list, numbers) ==
    /\ list \in Seq(Nat)
    /\ {list[i] : i \in DOMAIN list} = numbers
    /\ \A i, j \in DOMAIN list : i < j => list[i] < list[j]

\* The lines that were judged, those of some verdicts, and the digests verified before a line.
LinesJudged == 1 .. (IF answer = "error" THEN seen - 1 ELSE seen)
OfVerdict(verdicts) == {i \in LinesJudged : source[i].verdict \in verdicts}
Before(i) == {source[j].digest : j \in {k \in 1 .. i - 1 : source[k].verdict = "valid"}}

\* What a validation says is what the lines say, in the order of the file, however the tasks were
\* scheduled: a digest counts if it sorts after every verified digest before it, and else is a
\* duplicate of the greatest or out of order (validate_with, StreamValidation).
SameAsSerial ==
    use = "validate" =>
      LET valid == OfVerdict({"valid"})
          accepted == {i \in valid : \A d \in Before(i) : d < source[i].digest}
          behind == {i \in valid : \E d \in Before(i) : d > source[i].digest}
      IN  /\ found.valid_count = Cardinality(accepted)
          /\ IsListed(found.out_of_order, behind)
          /\ IsListed(found.duplicates, valid \ (accepted \cup behind))
          /\ IsListed(found.invalid_lines, OfVerdict({"blank", "unparsed"}))
          /\ IsListed(found.unexpected_digests, OfVerdict({"mismatch"}))
          /\ IsListed(found.unsupported_formats, OfVerdict({"unsupported"}))
          /\ answer = "ok" => seen = Len(source)

\* The two commands that check a file agree on it: the validation succeeds exactly if check finds
\* every digest right and in order and no line is blank (check_source, validate_with).
ChecksAgree ==
    use = "validate" /\ answer = "ok" =>
      LET c == Checked(source)
      IN  ValidationSucceeds(found) <=>
            /\ CheckSucceeds([c EXCEPT !.url_without_timestamp = <<>>,
                                       !.redundant_expected_digest = <<>>,
                                       !.redundant_url = <<>>])
            /\ c.line_count = Len(source)

\* Every stream comes to an end, also the one of a source that fails for ever, and its reading
\* thread with it, which would otherwise wait for room in the channel (read_lines).
StreamEnds == <>(answer # "none" /\ reader = "ended")

\* What is said of a file does not depend on how it was read: by tasks or line by line, by one
\* command or the other.
JudgementIsOne == StreamTypeOK /\ SameAsSerial /\ ChecksAgree
=============================================================================
