# A verification of archivindex-wbm

This directory holds TLA+ models of the archivindex-wbm workspace, the TLC
configurations that check them on small instances, and theorems that TLAPS
proves for every instance. Every definition is translated from the Rust source;
`PROJECT.json` names, for each one, the lines it stands for.

## 1. The system and its parts

The workspace downloads captures from the Wayback Machine, files their bytes
under their SHA-1 digests, logs the captures the archive gets wrong, and turns
the files into digest-sorted JSONL with capture metadata.

| part | state it keeps | operations | what is hard | what makes it correct |
|---|---|---|---|---|
| **Content-addressed store** `crates/cas` | a directory of files named by digest; temporary siblings | `save`, `get`, `iter`, `verify`, `copy` | savers racing for a path, crashes between temporary file and publication, errors after publication, walks over a changing directory | an entry is whole, written once, and reported truthfully |
| **Downloader pool** `crates/downloader/src/lib.rs`, `downloader.rs` | work queue, one lazily opened database, bounded result channel, worker tasks, output files | workers pop, fetch, compare digests, log, write, send; the caller takes the receiver, drains it, closes | workers that die mid-item, a full channel with nobody reading, closing early, initialisation that fails and is retried, crash between log and file | no item is handled twice or forgotten silently; every file has its true name; a file under an unexpected digest is explained by the log; closing ends |
| **Archive client** `crates/downloader/src/client.rs` | one request chain: redirects so far, attempts so far | `download` (retry), `download_once` (follow redirects), `resolve_redirect_shallow` | loops and long chains of redirects, a server that answers differently each time, which failures are retried | bounded work, no revisited URL, only transient failures retried |
| **Invalid log** `crates/invalid-log` | two SQLite tables behind a mutex | insert, read, merge, export, import | two databases merged into each other at once, merges of merges, export while inserting | nothing recorded is lost, the earliest observation wins on merge, no deadlock |
| **CDX index** `crates/cdx-index` | redb tables: items, digest index, statuses, metadata | insert batch, lookups, claim with expiry, mark done | expired claims, two claimers, stale digest references | an item is found by its current digest only, batches are atomic |
| **CDX query client** `crates/cdx-client`, `tools/cdx-client-cli` | pending queries, current query with the resumption keys it has seen, the archive of responses | next request, inspect response, failure; extract the rows | a server that repeats or omits keys, failed attempts archived beside successes | every query runs to its last page or an error, each key once; what is extracted is all the pages hold |
| **Two-way JSONL merge** `json-processing/src/process/merge.rs` | two readers with one line of lookahead, counts | merge sorted files, resolve collisions | order errors and bad lines on either side, an error after partial output | sorted union, up to the first flaw and never past it |
| **Streaming merge into two outputs** `json-processing/src/stream/merge.rs` | two input streams, two writer threads behind bounded channels | sort new files into one of two sorted outputs | writer that dies while the loop sends, abort versus finish, the same digest in several inputs | outputs sorted and free of duplicates; no existing snapshot lost |
| **Stream reading and validation** `json-processing/src/stream/mod.rs`; **checks** `process/check.rs` | reader thread, bounded channel, ordered parallel map; the summary of a file | read, parse in chunks, judge in order | schedules of tasks, lost tasks, a consumer that stops early, a source that fails for ever | what is said of a file does not depend on how it was read |
| **Resolution, compaction, enrichment** `process/{resolver,compact,pack,data,skip,enhance}.rs` | maps from digest to captures, one writer per partition, a batch | load digests, resolve, write partitions; add timestamps | captures of one digest in many files, batches cut short by errors, one of several writers failing | a digest gets its earliest capture; every file is accounted for; every output is finished |
| **Legacy import** `cas/src/legacy`, `merge-old` of `tools/json-cli` | a stack of open directories, two old files and their copies | iterate, classify, verify, merge into the copies | a directory that cannot be read, an entry without a type, a line that cannot be read half way | every readable file once; nothing of the old files lost |
| **JSON snapshots** `crates/json`, `verify`, `validate`, `infer` and `export` of `tools/json-cli` | lines of a file, samples, the whitespace of a site | pack, display, parse, infer the context, verify, export | text that ends almost like the default, lines that are damaged or out of order, two commands that judge a file, an export in a context of its own | a line gives back its file's bytes; verify and validate agree, but for the lines at which only one of them stops; an export has the bytes of its name |
| **Gzip round trips** `crates/json-gzip` | Go's compressor: window, hash chains, pending match, code lengths; the candidate parameters | compress as Go does, infer the parameters of an archive, encode with them | the shifting window, the limit on code lengths, markers in the data, 32-bit counters | what is inferred makes the same bytes; no assertion or counter of the code fails |
| **Data types** `crates/wbm` | none | digests, timestamps, SURT keys, redirect pages, directory listing | boundary values | formats round-trip |
| **Test-data cache** `crates/test-data`; **tools** `tools/*` | files, command-line arguments | drive the crates | | |

How the parts interact: the command-line downloader builds a *client* and a
*pool* over it; the pool logs into the *invalid log* and writes files named by
digest, which are later filed into the *content-addressed store* (or compacted
into JSONL with the metadata of the *CDX index* and the corrections of the
invalid log). The archives among them are replaced by their text and the
parameters that make them again. JSONL files are merged two by two, and new
snapshots are streamed into one of two of them. The parts share no state in
memory: they call each other, and meet in files and SQLite or redb databases that
several processes may open. So each part is modelled with its callers as an
environment, and the parts that meet in one process or one directory are composed.

## 2. How the modules are built on each other

| module | extends or implements | abstract specification or reference | theorems |
|---|---|---|---|
| `FileStore` | implements `ContentStore` | `ContentStore`: a write-once map | `StoreProofs` |
| `StoreCopy`, `StoreVerify` | `FileStore`; `StoreVerify` walks around a copy | | `StoreProofs` |
| `DownloadManager` | pool, database cell, channel, caller, disk and log | | `DownloadManagerProofs` |
| `ArchiveClient` | what one fetch of the pool does | | `ArchiveClientProofs` |
| `InvalidLog` | databases that are merged, exported and imported | | `InvalidLogProofs` |
| `DualMerge` | merging task, two channels, two writer threads | | `MergeProofs` |
| `CdxIndex` | implements `CdxCatalog`; metadata store with it | `CdxCatalog`: one table, atomic batches, snapshot readings | `CdxProofs` |
| `CdxClaims` | one row of the statuses | | `CdxProofs` |
| `SnapshotOutput` | the writer that the jobs below share | | |
| `TwoWayMerge`, `LegacyMerge` | `SnapshotOutput` | the union of two sequences; old and new files together | `MergeProofs` |
| `Enhance` | `SnapshotOutput` | the earliest time | `JobProofs` |
| `Compaction` | `Resolver`, `SnapshotOutput` | the earliest of all captures, by a quantifier over the files | `JobProofs` |
| `LineStream` | `LineChecks` | the summary of a sequential loop over the lines | `JobProofs` |
| `QueryDriver` | driver, archiving session, server, extraction | the pages of the answers, one after the other | `JobProofs` |
| `GoDeflate` | matcher; its tokens are what `GoHuffman` writes | expanding the tokens of each block | `FormatProofs` |
| `GoHuffman` | block writer | `Inflate`: a reader written from RFC 1951 | |
| `GzipArchives` | inference and codec, over abstract compressors | | |
| `SnapshotLines` | lines, contexts and the commands that read them | | `FormatProofs` |

What could still be added, in the order in which it would pay: theorems for
`GoHuffman`, `Inflate` and `GzipArchives`; a proof that `CdxIndex` implements
`CdxCatalog`, which needs a lemma about batches that are written item by item; and the keys and values of the CDX index and the data types
as conversions.

## 3. The modules

Every module takes its sizes as CONSTANTS, with the assumptions a proof needs,
and has one action per point at which another task, thread or process can run,
or at which the code can fail or be killed. `MC*` modules and `.cfg` files give
the constants values. A definition whose name ends in what a bug would do
(`PublishReplaces`, `SkipSilently`, ...) is the mutated form of a definition
below it: each property is shown to fail when the mutant takes its place.

**`FileStore`** (`crates/cas/src/file/mod.rs`, `save_atomically`). Savers, which
are threads or processes, share a directory: `file` is what each digest's path
holds, `temp` the temporary sibling of each saver, `stale` what crashes have left
behind. The steps are `CheckExists` (the early return for a path that exists, and
the verification of the digest), `CreateTemp`, `Write`, `FinishEncoder`,
`Publish` or `PublishTaken` (which never replaces; an error after the entry is
visible is returned although the entry stays), `Fail` at any of them, and `Crash`. `ContentStore` is what `Store`
promises: a map written once per digest, and an answer that says what happened.
**`StoreCopy`** makes one of the savers a copier that saves the entries of another
store, one of them corrupt, in competition with the others and with crashes and second
attempts; **`StoreVerify`** adds a walk that meets entries, temporary files of live and
dead savers, a copy, and savers that publish around it.

**`DownloadManager`** (`crates/downloader/src/lib.rs`, `downloader.rs`). Workers pop
from one queue, open one database through a `OnceCell` (`cell`: first to come
initialises, a failure leaves it to the next), fetch, compare the digest, log a
mismatch or a refusal, publish the file and send the result through the bounded
`channel`. The caller takes the receiver, drains or drops it, and closes, which
joins the tasks one by one and keeps the first error. `Restart` kills the process
at any point; `file`, `mismatches` and `withheld` survive. A worker that fails
keeps its item in `hand`, for no result of it is ever sent.

**`ArchiveClient`** (`crates/downloader/src/client.rs`). One call of `download`,
with the redirects of this attempt and the retries used up, or of
`resolve_redirect_shallow`, against an archive that may answer each request with
anything, and the same request differently each time. Which errors are transient
is the table of the code; how long a delay is is left out.

**`InvalidLog`** (`crates/invalid-log`). Databases behind mutexes and tasks that
insert, merge, export and import. A transaction is one step, because the mutex is
held from its first statement to its commit; between the two readings of a merge
or export, and between reading and writing, it is free. An SQL `UPSERT` is
`Merged`, row by row: the earlier time. Histories (`before`, `moments`,
`observed`) record what databases held, for the properties to speak of.

**`DualMerge`** (`crates/json-processing/src/stream/merge.rs`). The merging task with
the control flow of the loop (drain what is smaller, match what is equal, skip or
write each new entry, pass on the rest), the two senders with their three ways to
end (finish, abort, drop), the two writer threads, and the publication of each
output. A snapshot is its digest, a number; a line that does not parse is `Bad`.

**`CdxIndex`** (`crates/cdx-index/src/lib.rs`, `metadata.rs`, and the commands
`import_metadata` and `fill_metadata`). The write transaction is a `draft` that is
committed or dropped; an iterator keeps the tables it began with in `view` and
visits keys in order. A key is a number in the order of its bytes, so a SURT and a
timestamp that are encoded differently are different numbers; `TimeOf` gives the
timestamp back. The digest index is never cleaned of old entries: readers pass
over them. `CdxCatalog` is the promise: one table, a batch at once, a reading of
one state. **`CdxClaims`** is one row of `STATUSES` with workers that look before
they claim, behind a mutex of their own, as the documentation of `claim` asks of
them; time is in ticks, of which the code stores whole seconds.

**`SnapshotOutput`** (the writers of `process/*.rs`): lines, the digest written last,
which is not written again, and an output that ends in one of three ways when it is
finished: published; published, with an error, since the directory could not be synced;
or failed and gone. So an error does not mean that nothing is visible, and the properties
of the jobs tell the two apart. **`TwoWayMerge`** (`process/merge.rs`) looks at the next line of both
sides before it takes either (`Due`), surfaces a bad line as soon as one is next,
and keeps what was written before. **`Enhance`** (`process/enhance.rs`) fills a
batch, looks the digests up, looks again for those that had nothing, with the
digest that was expected, writes, and finishes its output whatever failed; a lookup
may answer for fewer digests than it was asked. **`LegacyMerge`** (`cas/src/legacy/import.rs`,
`tools/json-cli`) walks trees with a stack of half-read directories, and merges what
it found into copies of two old files; a file may have become unreadable in between.

**`Resolver`** (`process/resolver.rs`) is operators on a record: which capture a
digest has, from the CDX files as they are applied, chunk by chunk and up to the
first that cannot be read. **`Compaction`** (`process/{compact,pack,data,skip}.rs`)
runs it: files are listed, resolved, prepared in chunks, skipped for a reason or
written to the output of their partition, and every output is finished. Both
commands, compact and pack, are the value of `job`.

**`LineStream`** (`stream/mod.rs`) has the reading thread, the channel, chunks
parsed by tasks that end in any order or are lost, the queue that puts them back in
order, and two consumers: the validation, and a caller that may drop the stream.
**`LineChecks`** (`process/check.rs`) is the two ways to judge a line, as folds.

**`QueryDriver`** (`cdx-client/src/lib.rs`, `cdx-client-cli/src/extract.rs`) is the
driver with the session that calls it: attempts, each archived, payloads that are
inspected for a resumption key, and the rows extracted from the archive at the end.

**`GoDeflate`** (`json-gzip/src/go_flate.rs`) is the matcher action by action: fill
the window (and shift it, and with it chains, block start and hash positions),
find a match along the chain, hold it back for a byte, emit a token, end a block.
The sizes and the hash are constants. **`GoHuffman`** is the block writer: counts, the lengths of
codes by the package-merge search of `bit_counts`, the coded lengths, the choice of
a stored, fixed or dynamic block, and the bits, with the codes kept from block to
block as the code keeps them. The alphabets are those of the format, the limits on
lengths are constants. **`Inflate`** is a reader that knows nothing of the writer.

**`GzipArchives`** (`json-gzip/src/lib.rs`, `zlib_stream.rs`) has archives as a
header and a sequence of parts: data, markers, the end. What a compressor makes of
a text is known by its class only (`ClassOf`: levels may agree on short texts), and
data may contain the bytes of a marker by accident (`Hidden`). `TryGo`, `ReadHeader`,
`WalkMarker`, `EndLayout` and `TryZlib` are the steps of `infer`; `EncodeFound` and
`EncodeOther` the codec with what was inferred and with metadata from elsewhere.
`Panics` is what an assertion, a slice or a cast of the code would not survive.

**`SnapshotLines`** (`crates/json`, `tools/json-cli`) writes files as lines in the
order of their digests, lets some be damaged, and then runs verify and validate over the
lines, in one context that is given (of whatever site) or inferred from samples, and
export, which takes no `--format` and always infers a context of its own. `TooLong` are
the lines that `archivindex_lines`, a crate outside the repository, refuses for their
length: validate, the inference and export read with it, verify does not. `Display` and
`Parse` are the conversions, over tokens; the closing whitespace of a text is kept
relative to that of the site, as `context.rs` does, from the back.

## 4. What the runs check

| run | instance and why it is enough | what holds |
|---|---|---|
| `store` | scenes with two savers, with a copier and a saver, and with one saver, all around a walk; 2 digests, 2 contents, a sound and a corrupt source entry, 1 crash: both savers can be at one path, with right and wrong bytes, at each step of the other | `DirectoryIsSound` (entries are whole and authentic, temporary files are left by crashes only), `ImplementsContentStore`, `VerifyCovers`, `CopyAccountsForAll` |
| `pool` | 2 workers, 2 items (one with an invalid expected digest), 3 digests, a channel of 1, 2 starts of the process, a file with wrong bytes in the way: workers meet at the cell, the channel, a name and the log | `SharedByOne` (items are conserved, one database), `FilesAreExplained` (names are true, unexpected files are in the log), `SuccessIsTrue`, `DrainAccounts`, `CloseIsTruthful`, and `CloseBlocksOnlyWhenFull`: `close` waits for ever only if the caller kept the receiver and the channel is full |
| `pool_drain` | 1 start, 2 workers | *violated*: see section 6 |
| `client` | 4 snapshots, 2 retries, 2 redirects: chains can loop, be too long by one, and be retried after either | `BoundedWork`, `ChainsAreSound` (no attempt asks twice for one snapshot, an error that is reported was permanent or used up the retries, a resolved redirect is what both answers said), `CallEnds` |
| `log` | 2 databases, 2 tasks with 2 and 1 calls, 1 entry at 2 times and 1 URL, from empty, early and late contents: opposite merges at once, a third writer, chains of exports and imports | `NothingForgotten`, `CallsAreTruthful` (merges cover, an export lies between two states, imports make up nothing), `MergesConverge`, `CallsEnd` |
| `log_snapshot` | 1 database | *violated*: see section 6 |
| `cdx_index` | 2 keys of one second, 2 digests, 5 batches (new, overwriting, the same key twice, without digest, half invalid), 3 calls of one caller and 2 of the other | `ImplementsCatalog`, `IndexIsSound`, `ImportIsComplete` |
| `cdx_claims` | 2 workers, claims of 1, 3 and 4 half seconds, 4.5 seconds, 1 death | `ClaimsExcludeToTheSecond`, `ItemGetsDone` |
| `cdx_claims_second` | the same | *violated*: see section 6 |
| `jobs` | one job per behaviour: two-way merge (10 files for each side with every flaw), stream (8 files, channel 1, chunks of 2, 1 or 2 tasks), compaction or packing (5 directories, 5 lists of CDX files, 4 logs, 2 partitions, chunks of 2), enrichment (5 files, batches of 2), a session of 2 queries with 2 attempts and 2 keys, a legacy walk (5 trees) and merge-old, the merge into two outputs (9 files, 6 lists of new entries, channel 1) | `MergeIsSound`, `JudgementIsOne`, `FilesAreAccounted`, `OutputsAreFinished`, `EarliestCapture`, `EnhanceLosesNothing`, `SessionIsComplete`, `LegacyIsKept`, `OutputsAreMerged`, `ResultIsTruthful`, and `JobsEnd`: the stream and the merge into two outputs, which have threads that wait for each other, end |
| `formats` | one format per behaviour: Go's matcher with a window of 8, matches of 2 to 4, blocks of 3 tokens and hashes counted anew after 12 positions, over contents of up to several windows at 2 levels; streams of 1 or 2 blocks with codes limited to 4, 3 and 4 bits, so that the limit bites; several hundred archives, with counters that overflow at 56; sets of 2 to 4 files with 4 contexts, packed, damaged or with a line that is too long for some of the readers, verified and validated in any context, and exported in the one that is inferred, which may be another | `DeflateIsFaithful`, `ReadsBack`, `BlocksAreShort`, `CodecRoundTrips`, `LinesRestoreFiles`, `ReadersAreRight`, `ExportIsExact` |
| `line_expected` | the lines alone, with an expected digest that is none | *violated*: see section 6 |

The type invariant of a module is a conjunct of the property that a run checks for it
(`MergeIsSound` has `TwoWayTypeOK`, `JudgementIsOne` has `StreamTypeOK`, and so on), or
a theorem.

The bounds on crashes, starts, calls and ticks (`MaxCrashes`, `MaxRuns`,
`MaxCalls`, `MaxTime`) are the model's; `MaxRedirects`, `MaxRetries`, `Attempts`,
`BatchSize`, `ChunkSize`, `FileChunk`, `ChannelBuffer`, `Buffer`, `SampleSize`,
`MaxDecompressedLen`, `MaxExtraFlushes`, `CounterMax` and the sizes of `GoDeflate` and
`GoHuffman` are the program's own, made small so that each is reached and passed.
In `GoDeflate` the relations between them that the code relies on are assumed
(`SizesAssumption`), in `GzipArchives` that a text which may be decompressed fits the
counters (`LengthsAssumption`). Deadlock is not checked where the system stops: when
its calls are used up, after a close, or when a job has ended.

Fairness, where a run checks that something ends:
- `InvalidLog`: a call that has begun takes its next step. Calls are bounded by the
  model, so no mutex can be taken from a waiter for ever; the code's
  `std::sync::Mutex` is not fair, and with unbounded callers nothing would be owed.
- `ArchiveClient`: the call goes on; each request is answered or fails, for it has
  a timeout.
- `DualMerge`: the merging task is polled and each writer thread is run.
- `LineStream`: the reading thread and the parsing tasks run, and whoever consumes the
  stream goes on or drops it.
- `CdxClaims`: time passes, live workers go on, and the workers' own mutex, which is
  outside the repository, is fair to them.
- `DownloadManager`: the runtime polls every task that can go on, a download ends
  (`ArchiveClient` shows that it does), and the caller goes on to `close`. No failure
  is owed, and nobody owes it to stop draining. `close` may still wait for ever, in
  exactly one way, which `CloseBlocksOnlyWhenFull` describes.

The other jobs and formats are sequential programs over finite input, of which each
step is enabled until they end; no fairness is used for them.

## 5. What is proved

All theorems hold for every value of the constants that the module's assumption
allows: any number of savers, workers, tasks, digests, items and crashes.

| module | theorems | the inductive invariant, and why it is needed |
|---|---|---|
| `StoreProofs` | types, `DirectoryIsSound` and its parts, write-once, refinement of `ContentStore` | what each temporary file holds by the step its saver is at: authenticity of an entry comes from the bytes that are published, which are checked three steps before |
| | types, `CopyAccountsForAll`, `VerifyCovers` | what a call returned agrees with the directory until it is counted, the copier is in a call only for an entry no counter has, and what the walk has counted is still so: each because every step of a copy is a step of the store, which leaves entries as they are |
| `DownloadManagerProofs` | types, `SharedByOne`, `FilesAreExplained` and their parts, files kept, true Success results, truthful close, accounting | each item in one place by the worker's step, and the log row written before the step that publishes or reports |
| `ArchiveClientProofs` | bounds on requests, `ChainsAreSound` and its parts | the snapshots asked for are the requested one and the redirects; requests are bounded by attempts and hops together |
| `InvalidLogProofs` | nothing forgotten, `CallsAreTruthful` and its parts | what was read under the mutex is covered by what the database holds now, since contents only grow and times only fall |
| | `MergesConverge` | of two crossing merges, each database holds what both did from the step at which it was merged into; what a task has read is what the other held at first or after that one's own merge (`Half`). The statement of a merge takes the earlier time row by row, so that a row counts once however often it comes (`MergedTwice`, `MergedEitherWay`) |
| `MergeProofs` | of `DualMerge`: `OutputsAreMerged` and its parts, the cause is known, abort publishes nothing | what was sent ends below what is still to come on its side, by the step of the loop; what a writer has taken is a prefix of what was sent |
| | `ResultIsTruthful`, and the counters that it reads | every line and entry the loop is past was sent, passed on or matched, and is in one counter (`AccountInv`); an output is closed in one of three ways, of which only finishing lets its thread publish |
| | of `TwoWayMerge`: `MergeIsSound` | all that was taken is sound and, while nothing fails, written; the next line of a side sorts after *every* line taken, which the code never looks at: it compares a line with the one before it on its own side only, and the rule of the smaller digest does the rest (`NextIsAfterAll`, `NoneIsAfterLast`); a side with a flaw was the last to be taken from |
| | of `LegacyMerge`: `LegacyIsKept` | every entry of a directory is imported, skipped or reported, or still waits on the stack or below something that does (`NothingIsLeft`), so that an empty stack leaves none; each copy is the old lines read so far and the files so far, in order, and its reader has gone as far as the last of them (`CopiesAreRight`, `ReadersAdvance`, `PathsAreNext`) |
| `JobProofs` | of `Compaction` and `Resolver`: `FilesAreAccounted`, `OutputsAreFinished`, `EarliestCapture` | after each chunk of CDX files every digest has what a resolver should have found in the files applied so far, own captures and those under expected digests (`ResolverIsComplete`); every file past is in one place, the chunk prepared is the next of the list, and no writer has a line of a file that is still to come |
| | of `LineStream` and `LineChecks`: `JudgementIsOne` | the channel, the chunk that is collected, the queue of tasks and what was taken are consecutive pieces of the file, for *some* way to cut it, whose origin each piece keeps (`NothingIsSkipped`); what was seen is judged as those lines are (`SeenIsJudged`), where the judgement of a number of lines is told without a loop (`JudgedTo`) |
| | of `Enhance`: `EnhanceLosesNothing` | the batch is the lines between those written and those read (`BatchIsNext`), and the output has a line for each run of lines of one digest before it, which is that line or what a lookup may make of it (`OutputIsSound`) |
| | of `QueryDriver`: `SessionIsComplete` | the current query is the last one asked and its keys are those of its pages (`CurrentIsLast`, `KeysAreFollowed`), an answer that was taken is the only success of its request (`AnsweredOnce`), whatever is asked is answered or in the failures (`AnsweredOrFailed`), and a query that is no longer current has ended (`EveryQueryEnds`) |
| `CdxProofs` | sound digest index, readings that never dangle, complete imports, captures kept | the draft and every view are as sound as the committed tables, and an import has recorded every key up to where it is |
| `FormatProofs` | of `GoDeflate`: `DeflateIsFaithful` | the window is the piece of the data that ends at what was taken (`WindowIsData`); a match held back is one (`HeldMatchIsOne`); every position in a table, once the hash offset is taken off, is before the one at hand, and a head hashes as it should (`ChainsLeadBack`, `HeadsAreWhereTheyHash`); each token covers a piece of the data that it expands to, the pieces are consecutive, and where a block started is known or too far back to be kept (`BlocksAreData`). A shift changes every number in it at once, by the same amount or to one that counts as none |
| | of `SnapshotLines`: `ExportIsExact` | each of the two readers counts no problem if and only if the lines so far are in order and encode to their digests, whatever they are (`VerifyInv`, `ValidateInv`), and ends clean if and only if all are, and, for validate, none is too long (`OutcomeInv`); of such lines, the requests that are left are those after all digests passed, and what was exported are the requests among those, up to one that the inferred context encodes otherwise (`ExportInv`), since digests that ascend from line to line ascend throughout; contexts differ in what they make of a line by their whitespace only (`OnlyWhitespaceCounts`) |
| | of `SnapshotLines`: `LinesRestoreFiles` | a line is cut where it was joined. No token of a value ends the value too early: a brace in a string, and a quote behind an escape, do not end the format object, by a scan whose state is known after each part (`Leads`), and what is unescaped is what was escaped (`ValueIs`); a field that was left out is not taken for the one after it, since the word that begins a field is never that of another (`WordsDiffer`, `FieldHides`). So the parser stands, after each field, where the writer stood, and has found what was written so far (`ParseIs`). What was packed are files that could be shown (`PackInv`) |
| | of `SnapshotLines`: `ReadersAreRight` | where there are samples enough there is a first one (`SamplesThere`), which encodes to its digest with one whitespace only (`SamplesTell`), so that a candidate fits if and only if it is the whitespace of the site (`InferredIsSound`). Lines as they were written are a clean file for who knows their whitespace (`IntactIsClean`), by the round trip and because files are packed in order |
| `CdxProofs` (claims) | exclusion up to a second | the stored second is later than the holder's timeout less a second, and whoever has looked holds the mutex |

Each proof has the same shape: `Init => IInv`, a lemma per conjunct of `IInv` with a
step per action, and the theorems as consequences of `IInv`. They rest on the named
assumptions of the modules and nothing else. Most say that a set has the right kind of
members, or that markers are distinct; `FormatAssumption`, that a caller names the format
of a file with metadata that encode it again. Two say more. `LegacyAssumption` takes the old
files of merge-old as sorted, which is what the command is for and does not check, and a
tree as a tree: every directory is below a base. `QueryAssumption` takes a page as rows
and then, if anything, an empty line and a key, which is what the extraction takes it
for (`cdx-client-cli/src/extract.rs:61`). The theorems about lines that are read again,
`LinesAreRestored` and `ReadersAreAlwaysRight`, have a hypothesis, `ExpectedAreDigests`: the
digests that captures were expected to have are of the length of digests. Nothing in the
code sees to it, and without it the lines cannot be read: `line_expected` shows that,
and section 6 tells how such a line comes about. `ExportsAreExact`, about any lines,
does without.

What a definition by recursion computes is proved in two ways. Where a step of the
program adds one step of the recursion, the invariant carries the recursion: `JudgedTo` and
`JoinOf` say what holds after any number of steps without one. Where a
value is asked for as a whole, a function that satisfies the equation is shown to exist
(`StepsExist`: the least number without one has none) and to be the only one. So no
theorem needs an induction rule with an operator as a parameter, which the provers
cannot instantiate.

Only model-checked:
- that calls, merges and streams end, that an item gets done, and when `close` blocks:
  these are about fairness, or what is enabled, which the prover does not treat;
- that `CdxIndex` implements `CdxCatalog`, whose refinement mapping applies a batch of any
  length at once, by a fold;
- the other modules of `formats`: `ReadsBack`, `BlocksAreShort` and `CodecRoundTrips`.
  `GoHuffman` and `Inflate` declare recursive operators, and they and `GzipArchives` use
  folds that take an operator, of which the provers know nothing. Each would first have
  to be written with recursive functions over sequences, as `GoDeflate`, `QueryDriver`,
  `SnapshotLines` and the judgement of a line were.

One remark on the prover. Version 1.4.5 of tlapm gives its SMT backend
`DOMAIN s = 1 .. n <=> Len(s) = n` for every `s`, of which only `=>` holds: `Len` means
nothing for a function whose domain is `0 .. n`, so the other direction may make such a
function contradictory. All proofs here were also checked with that axiom weakened to `=>`,
so no theorem rests on it.

## 6. Where the code and its documentation disagree

- **The end of the channel** (`pool_drain`). The documentation takes the end of the
  result channel for the end of the work; workers that stopped with an error end it
  too, with items left in the queue. `DrainAccounts` is what can be relied on.
- **An export is not a snapshot** (`log_snapshot`). The two tables are read under two
  acquisitions of the mutex, so inserts in between give a pair of tables that the
  database never held. `ExportBetween` is what can be relied on.
- **A claim lapses early** (`cdx_claims_second`). The timeout of a claim is stored in
  whole seconds and rounded down, so another worker finds the item available up to a
  second before the instant the documentation names.
- **A line nobody reads** (`line_expected`). The log of invalid digests keeps digests
  that are not 32 characters long; pack puts them into snapshots as expected digests,
  and the line is written, but the parser takes exactly 32 characters. Every reader
  ends at that line. `LinesRestoreFiles` is what holds for expected digests that are
  digests.

Each is quoted with its lines in `PROJECT.json`. Behaviour that contradicts no
documentation, but that a reader of the models will meet:

- A value that would need an escape, a URL with a quotation mark for one, cannot be
  written into a line; the write fails, and with it the pack or compaction.
- With fewer samples than the inference asks for, no default whitespace is assumed;
  if the site has one, a sound file then fails its verification and its export. A
  context file helps verify and validate only: `export` has no `--format`
  (`tools/json-cli/src/main.rs:97-109`), so a file that is clean under
  `verify --format` may still fail there. `ExportIsExact` says when.
- `export` writes the file before it checks it, and leaves it when the check fails.
- verify stops at the first line that does not parse; validate counts such a line and
  goes on, but stops at one that is blank, or longer than the limit of its reader
  (`context.rs:597`). verify reads lines of any length (`main.rs:581`), so a file with a
  long line may be clean for verify and stop validate, and the inference and the export.
- `merge-old` finishes its two outputs one after the other: if the first fails, the
  second is not published although it is whole, even when the first is visible and only
  its directory could not be synced.
- In general, an error from finishing an output does not mean that the output is not
  there (`io/write.rs:204-209`).

## 7. What is not modelled

- Loss of power: a crash here is the death of a process, after which the file
  system has what was written to it. The order in which blocks reach the disk is the
  business of the crate `archivindex-publication`, which is outside the repository and
  modelled by its contract, as are redb (serial write transactions, snapshot reads),
  SQLite (transactions), tokio channels and tasks, the archiving session and the
  archive.
- SHA-1 and checksums: a content has a digest (`DigestOf`), and nothing is said about
  collisions; CRCs and the sizes in the footer of an archive are left out.
- What zlib, zlib-ng and zstd make of a text, which is the business of those libraries;
  their flushes and their refusal of a flush are modelled from how they are called.
- The format object of a line in other spellings than the one that is written (other
  order of the fields, blanks between tokens), which serde accepts as well.
- CEL queries for URLs are a function of the content; the TOML of a context file is not
  modelled.
- `set_status` of the CDX index with `Available`, which only tests call, and the layout
  of its keys and values in bytes.
- The length of delays and timeouts, progress bars, log messages, the CSV files of the
  command-line tools, and panics of blocking tasks where the code does not catch them.
- `crates/wbm`: digests, timestamps, SURT keys and redirect pages are sequential
  conversions of bytes without state, where all that is hard is in the bytes;
  `crates/test-data` is test support.
- The command-line tools are arguments and calls into the crates; the commands with a
  control flow of their own (import and fill of metadata, import of the log, extract,
  merge-old, verify, validate, infer and export) are in the modules of the crates they
  drive.
