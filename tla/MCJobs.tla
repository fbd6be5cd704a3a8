------------------------------- MODULE MCJobs -------------------------------
(***************************************************************************)
(* The jobs of the command-line tools, one at a time: a behaviour is that  *)
(* of one job, and the others are at rest.                                 *)
(***************************************************************************)
EXTENDS TwoWayMerge, LineStream, Compaction, Enhance, QueryDriver, LegacyMerge, DualMerge, TLC

Text(d, t) == [digest |-> d, text |-> t]
MCTextSize == [t \in {"a", "b", "cc"} |-> IF t = "cc" THEN 2 ELSE 1]
MCMergeFiles ==
    {<<>>, <<Text(1, "a")>>, <<Text(2, "cc")>>, <<Text(1, "a"), Text(3, "b")>>,
     <<Text(1, "cc"), Text(2, "a")>>, <<Text(2, "a"), Text(3, "a")>>,
     <<Text(3, "a"), Text(2, "a")>>, <<Text(1, "b"), Unparsed, Text(3, "a")>>,
     <<Unreadable>>, <<Text(2, "a"), Text(2, "a")>>}

Judged(d, v) == [digest |-> d, verdict |-> v, timestamp |-> TRUE, url |-> "none", expected |-> "none"]
MCStreamFiles ==
    {<<>>,
     <<Judged(1, "valid"), Judged(3, "valid"), Judged(2, "valid"), Judged(3, "valid")>>,
     <<Judged(1, "valid"), Judged(3, "mismatch"), Judged(2, "valid")>>,
     <<Judged(1, "blank"), Judged(1, "valid"), Judged(2, "valid"), Judged(3, "valid")>>,
     <<Judged(1, "valid"), Judged(2, "valid"), Judged(3, "valid")>>,
     <<Judged(1, "valid"), Judged(2, "valid"), Judged(2, "unsupported"), Judged(1, "unparsed")>>,
     <<Judged(2, "valid"), Judged(1, "valid"), Failure, Judged(3, "valid")>>,
     <<Judged(1, "valid"), Failure>>}
MCParallelisms == {1, 2}

Item(d, m) == [digest |-> d, metadata |-> m]
Entry(a, e) == [actual |-> a, expected |-> e]
MCPartitionKeys == <<"p", "q">>
MCDataDirectories ==
    {<<>>,
     <<1 :> "p" @@ 2 :> "q" @@ 3 :> "x">>,
     <<1 :> "DigestMismatch", 1 :> "q" @@ 2 :> "p">>,
     <<2 :> "NonUtf8" @@ 3 :> "p", 2 :> "q">>,
     <<1 :> "q" @@ 2 :> "q" @@ 3 :> "p">>}
MCCdxFileLists ==
    {<<>>,
     <<<<Item(1, 3), Item(2, 4)>>, <<Item(1, 1), Item(-1, 2)>>>>,
     <<<<Item(-1, 3)>>, <<Item(5, 2), Item(1, 9)>>>>,
     <<<<Item(1, 5)>>, Unread>>,
     <<<<Item(2, 7)>>, <<Item(2, 8), Item(1, 1)>>, <<Item(2, 3), Item(-1, 1), Item(5, 1)>>>>}
MCInvalidLogs ==
    {{}, {Entry(1, -1), Entry(1, 5)}, {Entry(2, 5), Entry(3, -1)}, {Entry(3, 1)}}

Snap(d, t, e) == [digest |-> d, time |-> t, expected |-> e]
MCSnapshotFiles ==
    {<<>>,
     <<Snap(1, 0, 0), Snap(2, 0, 9), Snap(3, 4, 0)>>,
     <<Snap(1, 0, -1), Snap(1, 0, 0), Snap(2, 5, 9)>>,
     <<Snap(2, 0, 0), BadSnapshot, Snap(3, 0, 0)>>,
     <<Snap(3, 0, 9), Snap(1, 0, 0), Snap(1, 0, 0), Snap(3, 0, 0)>>}
MCCaptureIndexes == {<<>>, 1 :> {5, 3} @@ 9 :> {2, 7}, 3 :> {1} @@ 9 :> {}}
MCExpectedLogs == {<<>>, 1 :> 9 @@ 3 :> -1}

MCBinary == <<"binary">>
MCPause == <<"pause">>
MCPayloads ==
    {<<"r1", Empty, "k1">>, <<Empty, "k2">>, <<BadRow>>, Binary, <<"r2", "r3", Empty>>}
MCResumeKeys == {"k1", "k2"}

Stored(p, d, x, f, b) ==
    [path |-> p, kind |-> "file", digest |-> d, extensions |-> x, found |-> f, belongs |-> b,
     to |-> 0]
Place(p, k, to) ==
    [path |-> p, kind |-> k, digest |-> 0, extensions |-> <<>>, found |-> 0, belongs |-> "none",
     to |-> to]
MCTrees ==
    {[bases |-> <<1>>, directories |-> <<{}>>],
     [bases |-> <<1>>, directories |->
        <<{Stored("a", 2, <<>>, 2, "flat"), Place("d", "dir", 2), Place("l", "symlink", 0)},
          {Stored("b", 2, <<"zst">>, 2, "flat"), Stored("c", 4, <<"gz">>, 3, "data"),
           Place("e", "dir", 3)},
          {Stored("f", 1, <<>>, 1, "data")}>>],
     [bases |-> <<1, 2>>, directories |->
        <<{Stored("a", 3, <<"gz">>, 3, "data"), Stored("x", 0, <<>>, 1, "flat"),
           Stored("y", 1, <<"gz", "zst">>, 1, "flat")},
          {Stored("b", 1, <<>>, 1, "none"), Stored("c", 3, <<>>, 3, "data")}>>],
     [bases |-> <<1>>, directories |->
        <<{Stored("a", 2, <<>>, 2, "data"), Place("d", "dir", 0)}>>],
     [bases |-> <<1>>, directories |->
        <<{Stored("a", 1, <<>>, 1, "data"), Stored("b", 2, <<>>, 0, "data"),
           Place("t", "typeless", 0)}>>]}
Was(d) == [digest |-> d, from |-> "input"]
MCBadLine == [digest |-> 0, from |-> "bad"]
MCOldFiles == {<<>>, <<Was(1), Was(3)>>, <<Was(2)>>, <<Was(1), BadLine>>}

\* Empty, sorted, unsorted, repeating and broken files over the digests 1 to 3.
MCInputFiles ==
    {<<>>, <<1>>, <<2>>, <<1, 3>>, <<2, 3>>, <<3, 1>>, <<2, 2>>, <<1, Bad>>, <<Bad>>}
MCNewEntryLists == {<<>>, <<2>>, <<1, 2>>, <<2, 3>>, <<2, 1>>, <<2, 2>>}
-----------------------------------------------------------------------------
\* A job that has ended before it began.
TwoWayAtRest ==
    /\ file = [s \in Side |-> <<>>]
    /\ number = [s \in Side |-> 0]
    /\ last = [s \in Side |-> NoDigest]
    /\ merged = NewWriter
    /\ summary = [first |-> 0, second |-> 0, both |-> <<>>, collisions |-> {}]
    /\ failure = NoError
    /\ culprit = "first"
    /\ stage = "done"
    /\ outcome = "Io"
StreamAtRest ==
    /\ source = <<>>
    /\ use = "open"
    /\ parallel = 1
    /\ reader = "ended"
    /\ nextLine = 0
    /\ channel = <<>>
    /\ receiving = FALSE
    /\ chunk = <<>>
    /\ tasks = <<>>
    /\ ready = <<>>
    /\ found = EmptyValidation
    /\ seen = 0
    /\ answer = "dropped"
CompactAtRest ==
    /\ job = "pack"
    /\ skipUnresolved = FALSE
    /\ directories = <<>>
    /\ cdxFiles = <<>>
    /\ invalidLog = {}
    /\ at = "done"
    /\ position = 1
    /\ resolver = NewResolver
    /\ writers = <<>>
    /\ prepared = <<>>
    /\ tally = [resolved_count |-> 0, unresolved |-> <<>>, expected_digest_count |-> 0,
                skipped |-> [r \in SkipReasons |-> <<>>], warnings |-> <<>>]
    /\ jobError = NoError
    /\ jobResult = "Sqlite"
EnhanceAtRest ==
    /\ whole = <<>>
    /\ unreadLines = <<>>
    /\ known = <<>>
    /\ log = <<>>
    /\ batch = <<>>
    /\ written = 0
    /\ enhanced = NewWriter
    /\ counts = [read |-> 0, written |-> 0, skipped_duplicate |-> 0, enhanced |-> 0,
                 already_enhanced |-> 0, unmatched |-> <<>>]
    /\ phase = "done"
    /\ finalFlush = FALSE
    /\ enhanceError = NoError
    /\ enhanceResult = "InvalidDigestDb"

QueryAtRest ==
    /\ follow = FALSE
    /\ pending = <<1>>
    /\ current = NoQuery
    /\ asked = <<>>
    /\ attempt = 0
    /\ warc = <<>>
    /\ failures = {}
    /\ session = "extracted"
    /\ rows = <<>>
    /\ extraction = "ok"
LegacyAtRest ==
    /\ tree = [bases |-> <<1>>, directories |-> <<{}>>]
    /\ bases = <<>>
    /\ stack = <<>>
    /\ imported = [paths |-> <<>>, skipped |-> {}, invalid |-> {}]
    /\ given = [o \in Output |-> <<>>]
    /\ old = given
    /\ copies = [o \in Output |-> NewWriter]
    /\ visit = "done"
    /\ mergeOld = "OtherIo"

DualAtRest ==
    /\ input = [s \in Sides |-> <<>>]
    /\ line = [s \in Sides |-> 0]
    /\ previous = [s \in Sides |-> None]
    /\ entries = <<>>
    /\ index = 0
    /\ side = 1
    /\ error = "Io"
    /\ sent = [s \in Sides |-> <<>>]
    /\ passed = [s \in Sides |-> 0]
    /\ new = [s \in Sides |-> 0]
    /\ skipped = 0
    /\ sender = [s \in Sides |-> "open"]
    /\ writer = [s \in Sides |-> "none"]
    /\ taken = [s \in Sides |-> 0]
    /\ reported = [s \in Sides |-> "none"]
    /\ published = [s \in Sides |-> FALSE]
    /\ pc = "done"
    /\ result = "Io"

NotTwoWay == UNCHANGED <<streamVars, compactVars, enhanceVars, queryVars, legacyVars, vars>>
NotStream == UNCHANGED <<twoWayVars, compactVars, enhanceVars, queryVars, legacyVars, vars>>
NotCompact == UNCHANGED <<twoWayVars, streamVars, enhanceVars, queryVars, legacyVars, vars>>
NotEnhance == UNCHANGED <<twoWayVars, streamVars, compactVars, queryVars, legacyVars, vars>>
NotQuery == UNCHANGED <<twoWayVars, streamVars, compactVars, enhanceVars, legacyVars, vars>>
NotLegacy == UNCHANGED <<twoWayVars, streamVars, compactVars, enhanceVars, queryVars, vars>>
NotDual == UNCHANGED <<twoWayVars, streamVars, compactVars, enhanceVars, queryVars, legacyVars>>

JobInit ==
    \/ TwoWayInit /\ StreamAtRest /\ CompactAtRest /\ EnhanceAtRest
       /\ QueryAtRest /\ LegacyAtRest /\ DualAtRest
    \/ TwoWayAtRest /\ StreamInit /\ CompactAtRest /\ EnhanceAtRest
       /\ QueryAtRest /\ LegacyAtRest /\ DualAtRest
    \/ TwoWayAtRest /\ StreamAtRest /\ CompactInit /\ EnhanceAtRest
       /\ QueryAtRest /\ LegacyAtRest /\ DualAtRest
    \/ TwoWayAtRest /\ StreamAtRest /\ CompactAtRest /\ EnhanceInit
       /\ QueryAtRest /\ LegacyAtRest /\ DualAtRest
    \/ TwoWayAtRest /\ StreamAtRest /\ CompactAtRest /\ EnhanceAtRest
       /\ QueryInit /\ LegacyAtRest /\ DualAtRest
    \/ TwoWayAtRest /\ StreamAtRest /\ CompactAtRest /\ EnhanceAtRest
       /\ QueryAtRest /\ LegacyInit /\ DualAtRest
    \/ TwoWayAtRest /\ StreamAtRest /\ CompactAtRest /\ EnhanceAtRest
       /\ QueryAtRest /\ LegacyAtRest /\ Init

JobNext ==
    \/ OpenTwo /\ NotTwoWay
    \/ \E s \in Side : Surface(s) /\ NotTwoWay
    \/ \E s \in Side : Unsorted(s) /\ NotTwoWay
    \/ \E ok \in BOOLEAN : TakeDue(ok) /\ NotTwoWay
    \/ Exhausted /\ NotTwoWay
    \/ \E finished \in Outcomes : FinishMerged(finished) /\ NotTwoWay
    \/ \E ok \in BOOLEAN : Opens(ok) /\ NotStream
    \/ Sends /\ NotStream
    \/ ReaderEnds /\ NotStream
    \/ Collect /\ NotStream
    \/ Dispatch /\ NotStream
    \/ \E i \in DOMAIN tasks : Task(i) /\ NotStream
    \/ Flatten /\ NotStream
    \/ Receive /\ NotStream
    \/ Validate /\ NotStream
    \/ TakeItem /\ NotStream
    \/ StreamIsOver /\ NotStream
    \/ DropStream /\ NotStream
    \/ \E ok \in BOOLEAN : CreateWriter(ok) /\ NotCompact
    \/ \E ok \in BOOLEAN : LoadData(ok) /\ NotCompact
    \/ \E ok \in BOOLEAN : ReadLog(ok) /\ NotCompact
    \/ ResolveChunk /\ NotCompact
    \/ AllResolved /\ NotCompact
    \/ PrepareChunk /\ NotCompact
    \/ SkipNext /\ NotCompact
    \/ \E ok \in BOOLEAN : WriteNext(ok) /\ NotCompact
    \/ ChunkDone /\ NotCompact
    \/ FilesDone /\ NotCompact
    \/ \E end \in Outcomes : FinishNext(end) /\ NotCompact
    \/ OpenEnhance /\ NotEnhance
    \/ ReadSnapshot /\ NotEnhance
    \/ FinalFlush /\ NotEnhance
    \/ \E few, fewer \in 0 .. BatchSize : LookUp(few, fewer) /\ NotEnhance
    \/ LookupFails /\ NotEnhance
    \/ \E ok \in BOOLEAN : WriteSnapshot(ok) /\ NotEnhance
    \/ BatchWritten /\ NotEnhance
    \/ \E end \in Outcomes : FinishEnhanced(end) /\ NotEnhance
    \/ Continue /\ NotQuery
    \/ StartQuery /\ NotQuery
    \/ Publish /\ NotQuery
    \/ StopEarly /\ NotQuery
    \/ \E payload \in Payloads : Captured(payload) /\ NotQuery
    \/ \E answered \in BOOLEAN : AttemptFails(answered) /\ NotQuery
    \/ Extract /\ NotQuery
    \/ \E ok \in BOOLEAN : OpenBase(ok) /\ NotLegacy
    \/ LeaveDirectory /\ NotLegacy
    \/ \E entry \in IF stack = <<>> THEN {} ELSE Top : NextEntry(entry) /\ NotLegacy
    \/ Imported /\ NotLegacy
    \/ \E ok \in BOOLEAN : OpenOld(ok) /\ NotLegacy
    \/ \E ok \in BOOLEAN : MergeFile(ok) /\ NotLegacy
    \/ FilesMerged /\ NotLegacy
    \/ DrainOld /\ NotLegacy
    \/ MergeFails /\ NotLegacy
    \/ \E o \in Output, end \in Outcomes : FinishOld(o, end) /\ NotLegacy
    \/ Create /\ NotDual
    \/ CreateFails /\ NotDual
    \/ AbortJoined /\ NotDual
    \/ TakeEntry /\ NotDual
    \/ EntriesDone /\ NotDual
    \/ Drain /\ NotDual
    \/ Match /\ NotDual
    \/ SkipFile /\ NotDual
    \/ \E s \in Sides : WriteFile(s) /\ NotDual
    \/ Rest /\ NotDual
    \/ DropSender /\ NotDual
    \/ Join /\ NotDual
    \/ \E s \in Sides : Write(s) /\ NotDual
    \/ \E s \in Sides : WriteFails(s) /\ NotDual
    \/ \E s \in Sides : Finish(s) /\ NotDual
    \/ \E s \in Sides : Abort(s) /\ NotDual

\* The tasks and threads of the two jobs that have them run when they can.
JobSpec ==
    /\ JobInit
    /\ [][JobNext]_<<twoWayVars, streamVars, compactVars, enhanceVars, queryVars, legacyVars, vars>>
    /\ StreamFairness
    /\ WF_vars(MergeTask) /\ \A s \in Sides : WF_vars(WriterThread(s))

\* The jobs with tasks and threads of their own end: neither a reader nor the merge waits for ever
\* for room in a channel that nobody empties (read_lines, AsyncSnapshotSink).
JobsEnd == StreamEnds /\ MergeEnds
=============================================================================
