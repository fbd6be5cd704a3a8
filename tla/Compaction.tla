----------------------------- MODULE Compaction -----------------------------
(***************************************************************************)
(* crates/json-processing/src/process/compact.rs, pack.rs, data.rs and     *)
(* skip.rs: files named after their digests are gathered from directories  *)
(* and written, in the order of their digests, as lines of one output for  *)
(* each partition (compact, with the captures the Resolver finds) or of    *)
(* one output (pack, with the digests the log expected).                   *)
(*                                                                         *)
(* What a file holds is the key of the partition the discriminator puts it *)
(* in, or the reason for which it cannot become a snapshot.                *)
(***************************************************************************)
EXTENDS Resolver, SnapshotOutput

CONSTANTS
    DataDirectories,    \* what the directories may hold: sequences of functions from digests
    CdxFileLists,       \* what the CDX files may hold, in path order
    InvalidLogs,        \* what the log of invalid digests may hold
    PartitionKeys,      \* the keys of the partitions, a sequence
    FileChunk           \* PARALLEL_CHUNK_SIZE, for the files and the CDX files

SkipReasons == {"ReadError", "DigestMismatch", "NonUtf8", "NonSingleLine", "UnsupportedFormat",
                "NoPartition"}

\* A file in a directory has a valid digest for its name, and there are finitely many.
Named(directory) == DOMAIN directory \subseteq Nat \ {0} /\ IsFiniteSet(DOMAIN directory)
CdxItem == [digest : Int \ {0}, metadata : Nat \ {NoCapture}]

ASSUME CompactionAssumption ==
    /\ \A ds \in DataDirectories : ds \in Seq({ds[i] : i \in DOMAIN ds})
                                  /\ \A i \in DOMAIN ds : Named(ds[i])
    /\ CdxFileLists \subseteq Seq(Seq(CdxItem) \cup {Unread})
    /\ \A log \in InvalidLogs : IsFiniteSet(log) /\ log \subseteq [actual : Int, expected : Int \ {0}]
    /\ PartitionKeys \in Seq({PartitionKeys[i] : i \in DOMAIN PartitionKeys})
    /\ Len(PartitionKeys) > 0
    /\ \A i \in DOMAIN PartitionKeys : PartitionKeys[i] \notin SkipReasons
    /\ FileChunk \in Nat \ {0}

VARIABLES
    job,            \* "compact" or "pack"
    skipUnresolved, \* CompactOptions::skip_unresolved
    directories,    \* the data directories, in path order
    cdxFiles,
    invalidLog,
    at,             \* the step of the job
    position,       \* the writer, CDX file or data file it is at
    resolver,
    writers,        \* one for each partition
    prepared,       \* what the chunk of files became
    tally,          \* Summary
    jobError,       \* why the loop ended
    jobResult       \* what the job returned

compactVars == <<job, skipUnresolved, directories, cdxFiles, invalidLog, at, position, resolver,
                 writers, prepared, tally, jobError, jobResult>>
inputs == <<job, skipUnresolved, directories, cdxFiles, invalidLog>>

CompactInit ==
    /\ job \in {"compact", "pack"}
    /\ skipUnresolved \in BOOLEAN
    /\ directories \in DataDirectories
    /\ cdxFiles \in CdxFileLists
    /\ invalidLog \in InvalidLogs
    /\ at = IF job = "compact" THEN "create" ELSE "log"
    /\ position = 1
    /\ resolver = NewResolver
    /\ writers = <<>>
    /\ prepared = <<>>
    /\ tally = [resolved_count |-> 0, unresolved |-> <<>>, expected_digest_count |-> 0,
                skipped |-> [r \in SkipReasons |-> <<>>], warnings |-> <<>>]
    /\ jobError = NoError
    /\ jobResult = NoError

Go(step) == at' = step /\ position' = 1

\* An error before the loop returns at once; the writers are dropped with what they hold.
Return(error) ==
    /\ Go("done")
    /\ jobResult' = error
    /\ UNCHANGED <<inputs, resolver, writers, prepared, tally, jobError>>
-----------------------------------------------------------------------------
(* Before the loop *)

Outputs == IF job = "compact" THEN Len(PartitionKeys) ELSE 1

\* compact and pack: a writer for each output, or the error of one that cannot be created.
CreateWriter(ok) ==
    /\ at = "create"
    /\ IF ~ ok
       THEN Return("Io")
       ELSE /\ writers' = Append(writers, NewWriter)
            /\ IF position = Outputs THEN Go("load") ELSE at' = at /\ position' = position + 1
            /\ UNCHANGED <<inputs, resolver, prepared, tally, jobError, jobResult>>

\* Data::files: every digest some directory holds, in order, with the first of its paths.
Held == UNION {DOMAIN directories[i] : i \in DOMAIN directories}
PathOf(d) ==
    CHOOSE i \in DOMAIN directories :
      /\ d \in DOMAIN directories[i]
      /\ \A j \in DOMAIN directories : d \in DOMAIN directories[j] => i <= j
Files ==
    CHOOSE s \in [1 .. Cardinality(Held) -> Held] : \A i, j \in DOMAIN s : i < j => s[i] < s[j]
Content(d) == directories[PathOf(d)][d]

\* load_data_directories, and Data::resolver for compact.
LoadData(ok) ==
    /\ at = "load"
    /\ IF ~ ok
       THEN Return("Io")
       ELSE /\ resolver' = IF job = "compact" THEN LoadDigests(resolver, Held) ELSE resolver
            /\ Go(IF job = "compact" THEN "log" ELSE "prepare")
            /\ UNCHANGED <<inputs, writers, prepared, tally, jobError, jobResult>>

\* Database::open and invalid_digests: read_invalid_digests of compact, expected_digests of pack.
ReadLog(ok) ==
    /\ at = "log"
    /\ IF ~ ok
       THEN Return("Sqlite")
       ELSE /\ resolver' = IF job = "compact" THEN ReadInvalid(resolver, invalidLog) ELSE resolver
            /\ Go(IF job = "compact" THEN "resolve" ELSE "create")
            /\ UNCHANGED <<inputs, writers, prepared, tally, jobError, jobResult>>

ChunkOf(s) == SubSeq(s, position, IF position + FileChunk - 1 < Len(s)
                                  THEN position + FileChunk - 1 ELSE Len(s))

\* resolve, one chunk of CDX files.
ResolveChunk ==
    /\ at = "resolve"
    /\ position <= Len(cdxFiles)
    /\ LET chunk == ChunkOf(cdxFiles)
       IN  IF \E i \in DOMAIN chunk : chunk[i] = Unread
           THEN Return("Resolver")
           ELSE /\ resolver' = ApplyChunk(resolver, chunk)
                /\ position' = position + FileChunk
                /\ UNCHANGED <<inputs, at, writers, prepared, tally, jobError, jobResult>>

AllResolved ==
    /\ at = "resolve"
    /\ position > Len(cdxFiles)
    /\ Go("prepare")
    /\ UNCHANGED <<inputs, resolver, writers, prepared, tally, jobError, jobResult>>
-----------------------------------------------------------------------------
(* The loop over the files *)

\* prepare: read_verified, the discriminator and build_snapshot.  A file is skipped for a reason or
\* belongs to an output; with pack it belongs to the only one, whatever its partition.
Unskipped == "none"
Skipped(d) ==
    IF Content(d) \in SkipReasons THEN Content(d)
    ELSE IF job = "compact" /\ \A i \in DOMAIN PartitionKeys : PartitionKeys[i] # Content(d)
    THEN "NoPartition" ELSE Unskipped
Index(d) ==
    IF job = "pack" THEN 1 ELSE CHOOSE i \in DOMAIN PartitionKeys : PartitionKeys[i] = Content(d)

PrepareChunk ==
    /\ at = "prepare"
    /\ position <= Len(Files)
    /\ prepared' = ChunkOf(Files)
    /\ at' = "write"
    /\ UNCHANGED <<inputs, position, resolver, writers, tally, jobError, jobResult>>

\* The expected digest pack finds in its map, where the entry read last for a digest remains.
ExpectedOf(d) ==
    LET entries == {e \in invalidLog : e.actual = d}
    IN  IF entries = {} THEN {0} ELSE {e.expected : e \in entries}

\* apply_resolution, and what pack puts on a snapshot.
Snapshots(d) ==
    IF job = "pack"
    THEN {[digest |-> d, metadata |-> NoCapture, expected |-> e] : e \in ExpectedOf(d)}
    ELSE IF d \in Resolved(resolver)
    THEN LET found == Lookup(resolver, d)
         IN  {[digest |-> d, metadata |-> found.metadata, expected |-> found.expected]}
    ELSE {[digest |-> d, metadata |-> NoCapture, expected |-> 0]}

Counted(d) ==
    IF job = "pack"
    THEN [tally EXCEPT !.expected_digest_count = @ + (IF ExpectedOf(d) = {0} THEN 0 ELSE 1)]
    ELSE IF d \notin Resolved(resolver) THEN [tally EXCEPT !.unresolved = Append(@, d)]
    ELSE LET found == Lookup(resolver, d)
             quiet == found.extra_valid = {} /\ found.extra_invalid = {}
         IN  [tally EXCEPT !.resolved_count = @ + 1,
                           !.warnings = IF quiet THEN @ ELSE Append(@, d)]

IsWanted(d) == job = "pack" \/ ~ skipUnresolved \/ d \in Resolved(resolver)

SkipSilently ==
    /\ at = "write"
    /\ prepared # <<>>
    /\ Skipped(Head(prepared)) # Unskipped
    /\ prepared' = Tail(prepared)
    /\ position' = position + 1
    /\ UNCHANGED <<inputs, at, resolver, writers, tally, jobError, jobResult>>
SkipNext ==
    /\ at = "write"
    /\ prepared # <<>>
    /\ Skipped(Head(prepared)) # Unskipped
    /\ tally' = [tally EXCEPT !.skipped[Skipped(Head(prepared))] = Append(@, Head(prepared))]
    /\ prepared' = Tail(prepared)
    /\ position' = position + 1
    /\ UNCHANGED <<inputs, at, resolver, writers, jobError, jobResult>>

\* write_snapshot, which would drop a second line with the same digest; a failure ends the loop.
WriteNext(ok) ==
    /\ at = "write"
    /\ prepared # <<>>
    /\ LET d == Head(prepared)
       IN  /\ Skipped(d) = Unskipped
           /\ ok \/ IsWanted(d)
           /\ tally' = Counted(d)
           /\ IF ok
              THEN /\ \E s \in Snapshots(d) :
                        writers' = [writers EXCEPT ![Index(d)] =
                                      IF IsWanted(d) /\ ~ Repeats(@, d) THEN Written(@, s) ELSE @]
                   /\ prepared' = Tail(prepared)
                   /\ position' = position + 1
                   /\ UNCHANGED <<at, jobError>>
              ELSE /\ jobError' = "Io"
                   /\ Go("finish")
                   /\ UNCHANGED <<writers, prepared>>
    /\ UNCHANGED <<inputs, resolver, jobResult>>

ChunkDone ==
    /\ at = "write"
    /\ prepared = <<>>
    /\ at' = "prepare"
    /\ UNCHANGED <<inputs, position, resolver, writers, prepared, tally, jobError, jobResult>>

FilesDone ==
    /\ at = "prepare"
    /\ position > Len(Files)
    /\ Go("finish")
    /\ UNCHANGED <<inputs, resolver, writers, prepared, tally, jobError, jobResult>>

\* Every writer is finished, whatever failed before it; the first error of a finish is kept.
FinishUntilError(outcome) ==
    /\ at = "finish"
    /\ writers' = [writers EXCEPT ![position] = Finished(@, outcome)]
    /\ IF outcome = "published" /\ position < Len(writers)
       THEN position' = position + 1 /\ UNCHANGED <<at, jobResult>>
       ELSE Go("done") /\ jobResult' = PreferLoopError(jobError, FinishError(outcome))
    /\ UNCHANGED <<inputs, resolver, prepared, tally, jobError>>
FinishNext(outcome) ==
    /\ at = "finish"
    /\ writers' = [writers EXCEPT ![position] = Finished(@, outcome)]
    /\ IF position < Len(writers)
       THEN position' = position + 1 /\ UNCHANGED <<at, jobResult>>
       ELSE LET failed == \E i \in DOMAIN writers : writers'[i].output # "published"
            IN  /\ Go("done")
                /\ jobResult' = PreferLoopError(jobError, IF failed THEN "Io" ELSE NoError)
    /\ UNCHANGED <<inputs, resolver, prepared, tally, jobError>>

CompactNext ==
    \/ \E ok \in BOOLEAN : CreateWriter(ok) \/ LoadData(ok) \/ ReadLog(ok)
    \/ ResolveChunk \/ AllResolved
    \/ PrepareChunk \/ SkipNext \/ ChunkDone \/ FilesDone
    \/ \E ok \in BOOLEAN : WriteNext(ok)
    \/ \E outcome \in Outcomes : FinishNext(outcome)

CompactSpec == CompactInit /\ [][CompactNext]_compactVars
-----------------------------------------------------------------------------
CompactTypeOK ==
    /\ job \in {"compact", "pack"}
    /\ at \in {"create", "load", "log", "resolve", "prepare", "write", "finish", "done"}
    /\ position \in Nat
    /\ Len(writers) <= Outputs
    /\ \A i \in DOMAIN writers :
         writers[i] \in WriterType([digest : Nat, metadata : Nat, expected : Int])
    /\ jobError \in {NoError, "Io"}
    /\ jobResult \in {NoError, "Io", "Sqlite", "Resolver"}

LinesOf(w) == {writers[w].lines[i].digest : i \in DOMAIN writers[w].lines}

\* Every file the loop has gone past is accounted for once: a line of the output of its partition,
\* an entry of the list of its reason, or a digest that is listed as unresolved and was not wanted;
\* after a success these are all files, and the outputs always ascend (compact_into, pack_into,
\* Data::files).
FilesAreAccounted ==
    LET past == IF at = "done" /\ jobResult = NoError THEN Held
                ELSE IF at \in {"prepare", "write"}
                THEN {Files[i] : i \in {j \in DOMAIN Files : j < position}}
                ELSE {}
    IN  /\ CompactTypeOK
        /\ \A d \in past :
             LET skip == Skipped(d)
             IN  IF skip # Unskipped
                 THEN /\ \E i \in DOMAIN tally.skipped[skip] : tally.skipped[skip][i] = d
                      /\ \A w \in DOMAIN writers : d \notin LinesOf(w)
                 ELSE /\ IsWanted(d) => d \in LinesOf(Index(d))
                      /\ ~ IsWanted(d) => \E i \in DOMAIN tally.unresolved : tally.unresolved[i] = d
                      /\ \A w \in DOMAIN writers \ {Index(d)} : d \notin LinesOf(w)
        /\ \A w \in DOMAIN writers : \A i, j \in DOMAIN writers[w].lines :
             i < j => writers[w].lines[i].digest < writers[w].lines[j].digest

\* Once files are being written, no output is left open: the finish of each is tried whatever came
\* before it.  A success says that every output is published, confirmed on disk, and that nothing
\* failed; an error does not say that nothing is visible: outputs of other partitions, outputs
\* with the lines before the failure, and outputs whose directory could not be synced may all be
\* there.  An error of the log or of a CDX file comes before all that and leaves nothing
\* (compact.rs:347-358, write.rs:204-209).
OutputsAreFinished ==
    at = "done" =>
      /\ \A v, w \in DOMAIN writers : writers[v].output = "open" => writers[w].output = "open"
      /\ jobResult = NoError <=>
           /\ writers # <<>>
           /\ jobError = NoError
           /\ \A w \in DOMAIN writers : writers[w].output = "published"
      /\ jobResult \in {"Sqlite", "Resolver"} => \A w \in DOMAIN writers : ~ Visible(writers[w])

\* A digest is given the earliest of the captures any CDX file records for it, and only when there
\* is none the earliest under a digest the log expected for it, whatever order the files and their
\* items come in; every other capture is a warning (resolve, to_resolution).
EarliestCapture ==
    job = "compact" /\ at \in {"prepare", "write", "finish"} =>
      LET items == UNION {{cdxFiles[i][k] : k \in DOMAIN cdxFiles[i]} : i \in DOMAIN cdxFiles}
          Own(d) == {i.metadata : i \in {x \in items : x.digest = d}}
          Expected(d) == {e.expected : e \in {x \in invalidLog : x.actual = d}}
          Other(d) == {<<i.digest, i.metadata>> : i \in {x \in items : x.digest \in Expected(d)}}
      IN  \A d \in Held :
            /\ d \in Resolved(resolver) <=> Own(d) # {} \/ Other(d) # {}
            /\ d \in Resolved(resolver) =>
                 LET r == Lookup(resolver, d)
                 IN  IF Own(d) # {}
                     THEN /\ r.metadata \in Own(d) /\ \A m \in Own(d) : r.metadata <= m
                          /\ r.expected = 0
                          /\ r.extra_valid = Own(d) \ {r.metadata}
                          /\ r.extra_invalid = Other(d)
                     ELSE /\ <<r.expected, r.metadata>> \in Other(d)
                          /\ \A p \in Other(d) : r.metadata <= p[2]
                          /\ r.extra_invalid = Other(d) \ {<<r.expected, r.metadata>>}
=============================================================================
