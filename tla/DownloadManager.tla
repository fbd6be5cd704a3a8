--------------------------- MODULE DownloadManager ---------------------------
(***************************************************************************)
(* The download pool of crates/downloader: `Manager::new` spawns workers   *)
(* over one queue, one lazily opened invalid-log database and one bounded  *)
(* result channel; the caller takes the receiver, drains or drops it, and  *)
(* calls `close`.  The process may be killed and run again with the same   *)
(* queue, output directory and database.                                   *)
(*                                                                         *)
(* Each action of a worker is what it does between two points where        *)
(* another task can run: an await, a lock, or a file-system or database    *)
(* operation.  What the archive answers is a choice (ArchiveClient is the  *)
(* model of how an answer is obtained).                                    *)
(***************************************************************************)
EXTENDS Integers, Sequences

CONSTANTS
    WorkerCount,    \* ManagerConfiguration::worker_count
    Buffer,         \* ManagerConfiguration::buffer
    ItemCount,      \* length of `todo`; items are the positions 1 .. ItemCount
    Digests,        \* Sha1Digest, which are also the names in the output directory
    NoDigest,       \* an expected digest that is not a SHA-1 digest (Digest::Invalid),
                    \* and an actual digest that is not reported
    Expected,       \* Expected[i]: the expected digest of item i
    Contents,       \* byte strings the archive may serve
    DigestOf,       \* Sha1Digest::compute, a function from Contents to Digests
    Missing,        \* no file under a name; no bytes in a worker's hands
    Existing,       \* what the output directory holds before the first run
    NoItem,         \* a worker without an item
    KeepsReceiver,  \* whether the caller may close without draining or dropping what it took
    MaxRuns         \* bound of the model: how often the process is started

Items == 1 .. ItemCount
Workers == 1 .. WorkerCount

ASSUME ManagerAssumption ==
    /\ WorkerCount \in Nat
    /\ Buffer \in Nat \ {0}
    /\ ItemCount \in Nat
    /\ MaxRuns \in Nat \ {0}
    /\ KeepsReceiver \in BOOLEAN
    /\ NoDigest \notin Digests
    /\ NoItem \notin Items
    /\ Missing \notin Contents
    /\ DigestOf \in [Contents -> Digests]
    /\ Expected \in [Items -> Digests \cup {NoDigest}]
    /\ Existing \in [Digests -> Contents \cup {Missing}]

VARIABLES
    \* shared by the workers
    left,       \* how many items the queue still holds
    cell,       \* the OnceCell of the database: "empty", "opening" or "ready"
    channel,    \* the results sent and not yet received
    \* one of each per worker
    pc,         \* where the task is; "stopped" when it has finished, "failed" with an error
    hand,       \* the item it works on, also after it has failed, or NoItem
    bytes,      \* what it downloaded
    actual,     \* VerifiedDownload::actual_digest
    outcome,    \* the kind of the DownloadResult it is about to send
    \* the caller
    caller,     \* "idle", "draining", "closing", "joining" or "returned"
    receiver,   \* who has the receiver: "held" by the manager, "taken", or "dropped"
    drained,    \* whether the caller has seen the end of the channel
    received,   \* the results the caller has received
    joined,     \* how many tasks `close` has joined
    firstError, \* the first task `close` found failed, or 0
    discarded,  \* history: items whose result nobody will receive
    \* what outlives the process
    file,       \* file[d]: the bytes under the name d in the output directory, or Missing
    mismatches, \* rows of the table invalid_digest: an item and the digest it had
    withheld,   \* rows of the table withheld_url
    runs        \* how often the process has been started

queueVars == <<left, cell, channel>>
workerVars == <<pc, hand, bytes, actual, outcome>>
callerVars == <<caller, receiver, drained, received, joined, firstError, discarded>>
diskVars == <<file, mismatches, withheld>>
vars == <<left, cell, channel, pc, hand, bytes, actual, outcome, caller, receiver, drained,
          received, joined, firstError, discarded, file, mismatches, withheld, runs>>

Kind == {"None", "Success", "NotFound", "Client", "Sqlite", "Join"}
Result == [item : Items, kind : Kind \ {"None"}, actual : Digests \cup {NoDigest}]
PC == {"start", "opening", "pop", "fetch", "log", "withhold", "create", "publish", "send",
       "stopped", "failed"}

TypeOK ==
    /\ left \in 0 .. ItemCount
    /\ cell \in {"empty", "opening", "ready"}
    /\ channel \in Seq(Result) /\ Len(channel) <= Buffer
    /\ pc \in [Workers -> PC]
    /\ hand \in [Workers -> Items \cup {NoItem}]
    /\ bytes \in [Workers -> Contents \cup {Missing}]
    /\ actual \in [Workers -> Digests \cup {NoDigest}]
    /\ outcome \in [Workers -> Kind]
    /\ caller \in {"idle", "draining", "closing", "joining", "returned"}
    /\ receiver \in {"held", "taken", "dropped"}
    /\ drained \in BOOLEAN
    /\ received \subseteq Result
    /\ joined \in 0 .. WorkerCount
    /\ firstError \in 0 .. WorkerCount
    /\ discarded \subseteq Items
    /\ file \in [Digests -> Contents \cup {Missing}]
    /\ mismatches \subseteq Items \X Digests
    /\ withheld \subseteq Items
    /\ runs \in 1 .. MaxRuns

\* What `Manager::new` sets up: all of the queue, no database yet, every task at its start.
Init ==
    /\ left = ItemCount
    /\ cell = "empty"
    /\ channel = <<>>
    /\ pc = [w \in Workers |-> "start"]
    /\ hand = [w \in Workers |-> NoItem]
    /\ bytes = [w \in Workers |-> Missing]
    /\ actual = [w \in Workers |-> NoDigest]
    /\ outcome = [w \in Workers |-> "None"]
    /\ caller = "idle"
    /\ receiver = "held"
    /\ drained = FALSE
    /\ received = {}
    /\ joined = 0
    /\ firstError = 0
    /\ discarded = {}
    /\ file = Existing
    /\ mismatches = {}
    /\ withheld = {}
    /\ runs = 1
-----------------------------------------------------------------------------
(* Starting a worker: new_downloader *)

Goto(w, step) == pc' = [pc EXCEPT ![w] = step]

\* get_or_try_init: one task runs the initialiser, the others wait for it.
BeginOpen(w) ==
    /\ pc[w] = "start"
    /\ cell = "empty"
    /\ cell' = "opening"
    /\ Goto(w, "opening")
    /\ UNCHANGED <<left, channel, hand, bytes, actual, outcome, callerVars, diskVars, runs>>

Open(w) ==
    /\ pc[w] = "opening"
    /\ cell' = "ready"
    /\ Goto(w, "pop")
    /\ UNCHANGED <<left, channel, hand, bytes, actual, outcome, callerVars, diskVars, runs>>

\* The directory or the database cannot be opened: this task ends with the error, and the next
\* one that waits runs the initialiser again.
OpenFails(w) ==
    /\ pc[w] = "opening"
    /\ cell' = "empty"
    /\ Goto(w, "failed")
    /\ UNCHANGED <<left, channel, hand, bytes, actual, outcome, callerVars, diskVars, runs>>

UseDatabase(w) ==
    /\ pc[w] = "start"
    /\ cell = "ready"
    /\ Goto(w, "pop")
    /\ UNCHANGED <<queueVars, hand, bytes, actual, outcome, callerVars, diskVars, runs>>
-----------------------------------------------------------------------------
(* One turn of a worker's loop *)

\* `todo` is reversed before the workers pop from its end.
Reversed(k) == ItemCount + 1 - k

\* An empty queue ends the loop.
PopPeeks(w) ==
    /\ pc[w] = "pop"
    /\ IF left = 0
       THEN Goto(w, "stopped") /\ UNCHANGED <<left, hand>>
       ELSE /\ hand' = [hand EXCEPT ![w] = Reversed(left)]
            /\ left' \in {left - 1, left}
            /\ Goto(w, "fetch")
    /\ UNCHANGED <<cell, channel, bytes, actual, outcome, callerVars, diskVars, runs>>
Pop(w) ==
    /\ pc[w] = "pop"
    /\ IF left = 0
       THEN Goto(w, "stopped") /\ UNCHANGED <<left, hand>>
       ELSE /\ hand' = [hand EXCEPT ![w] = Reversed(left)]
            /\ left' = left - 1
            /\ Goto(w, "fetch")
    /\ UNCHANGED <<cell, channel, bytes, actual, outcome, callerVars, diskVars, runs>>

\* The worker has its DownloadResult and goes on to send it.
Report(w, kind) ==
    /\ outcome' = [outcome EXCEPT ![w] = kind]
    /\ Goto(w, "send")

\* The bytes match when they hash to the expected digest; one that is not a SHA-1 digest
\* matches nothing.
FetchBytesUnlogged(w) ==
    /\ pc[w] = "fetch"
    /\ \E c \in Contents :
         /\ bytes' = [bytes EXCEPT ![w] = c]
         /\ actual' = [actual EXCEPT
              ![w] = IF DigestOf[c] = Expected[hand[w]] THEN NoDigest ELSE DigestOf[c]]
         /\ Goto(w, "create")
    /\ UNCHANGED <<queueVars, hand, outcome, callerVars, diskVars, runs>>
FetchBytes(w) ==
    /\ pc[w] = "fetch"
    /\ \E c \in Contents :
         /\ bytes' = [bytes EXCEPT ![w] = c]
         /\ IF DigestOf[c] = Expected[hand[w]]
            THEN Goto(w, "create") /\ UNCHANGED actual
            ELSE Goto(w, "log") /\ actual' = [actual EXCEPT ![w] = DigestOf[c]]
    /\ UNCHANGED <<queueVars, hand, outcome, callerVars, diskVars, runs>>

\* 403 is to be logged; 404 is not; every other failure is an error of this item.
FetchForbidden(w) ==
    /\ pc[w] = "fetch"
    /\ Goto(w, "withhold")
    /\ UNCHANGED <<queueVars, hand, bytes, actual, outcome, callerVars, diskVars, runs>>

FetchNothing(w) ==
    /\ pc[w] = "fetch"
    /\ \E kind \in {"NotFound", "Client"} : Report(w, kind)
    /\ UNCHANGED <<queueVars, hand, bytes, actual, callerVars, diskVars, runs>>

\* insert_invalid_digest; a row that is there already is left as it is.
LogMismatch(w) ==
    /\ pc[w] = "log"
    /\ mismatches' = mismatches \cup {<<hand[w], actual[w]>>}
    /\ Goto(w, "create")
    /\ UNCHANGED <<queueVars, hand, bytes, actual, outcome, callerVars, file, withheld, runs>>

LogWithheld(w) ==
    /\ pc[w] = "withhold"
    /\ withheld' = withheld \cup {hand[w]}
    /\ Report(w, "NotFound")
    /\ UNCHANGED <<queueVars, hand, bytes, actual, callerVars, file, mismatches, runs>>

\* The database write fails: the item is an error and its bytes are not kept.
LogFailsAndSaves(w) ==
    /\ pc[w] = "log"
    /\ Goto(w, "create")
    /\ UNCHANGED <<queueVars, hand, bytes, actual, outcome, callerVars, diskVars, runs>>
LogFails(w) ==
    /\ pc[w] \in {"log", "withhold"}
    /\ \E kind \in {"Sqlite", "Join"} : Report(w, kind)
    /\ bytes' = [bytes EXCEPT ![w] = Missing]
    /\ actual' = [actual EXCEPT ![w] = NoDigest]
    /\ UNCHANGED <<queueVars, hand, callerVars, diskVars, runs>>
-----------------------------------------------------------------------------
(* write_snapshot_file *)

\* A snapshot that failed verification is filed under the digest it has.
Name(w) == IF actual[w] = NoDigest THEN Expected[hand[w]] ELSE actual[w]

Occupied(d) == file[d] # Missing

\* Publication::new(CreateNew) and write_all into the temporary file.
CreateFile(w) ==
    /\ pc[w] = "create"
    /\ IF Occupied(Name(w))
       THEN Report(w, "Success")
       ELSE Goto(w, "publish") /\ UNCHANGED outcome
    /\ UNCHANGED <<queueVars, hand, bytes, actual, callerVars, diskVars, runs>>

\* publish: a name taken since is as good as one that was written.
PublishFile(w) ==
    /\ pc[w] = "publish"
    /\ IF Occupied(Name(w))
       THEN UNCHANGED file
       ELSE file' = [file EXCEPT ![Name(w)] = bytes[w]]
    /\ Report(w, "Success")
    /\ UNCHANGED <<queueVars, hand, bytes, actual, callerVars, mismatches, withheld, runs>>

\* An I/O error of either step ends the worker, with the item in its hands; the file may be
\* visible already.
WriteFailsQuietly(w) ==
    /\ pc[w] \in {"create", "publish"}
    /\ Goto(w, "pop")
    /\ hand' = [hand EXCEPT ![w] = NoItem]
    /\ bytes' = [bytes EXCEPT ![w] = Missing]
    /\ actual' = [actual EXCEPT ![w] = NoDigest]
    /\ discarded' = discarded \cup {hand[w]}
    /\ UNCHANGED <<queueVars, outcome, caller, receiver, drained, received, joined, firstError,
                   diskVars, runs>>
WriteFails(w) ==
    /\ pc[w] \in {"create", "publish"}
    /\ Goto(w, "failed")
    /\ \/ UNCHANGED file
       \/ /\ pc[w] = "publish"
          /\ ~ Occupied(Name(w))
          /\ file' = [file EXCEPT ![Name(w)] = bytes[w]]
    /\ UNCHANGED <<queueVars, hand, bytes, actual, outcome, callerVars, mismatches, withheld,
                   runs>>
-----------------------------------------------------------------------------
(* The result channel *)

\* The worker's variables go out of scope at the end of a turn.
EndTurn(w, step) ==
    /\ Goto(w, step)
    /\ hand' = [hand EXCEPT ![w] = NoItem]
    /\ bytes' = [bytes EXCEPT ![w] = Missing]
    /\ actual' = [actual EXCEPT ![w] = NoDigest]
    /\ outcome' = [outcome EXCEPT ![w] = "None"]

ResultOf(w) == [item |-> hand[w], kind |-> outcome[w], actual |-> actual[w]]

\* The items whose result is in the channel.
Queued == {channel[n].item : n \in DOMAIN channel}

\* A full channel makes the sender wait.
Send(w) ==
    /\ pc[w] = "send"
    /\ receiver # "dropped"
    /\ Len(channel) < Buffer
    /\ channel' = Append(channel, ResultOf(w))
    /\ EndTurn(w, "pop")
    /\ UNCHANGED <<left, cell, callerVars, diskVars, runs>>

\* Nobody wants results any more: the worker stops, which is not a failure.
SendFails(w) ==
    /\ pc[w] = "send"
    /\ receiver = "dropped"
    /\ discarded' = discarded \cup {hand[w]}
    /\ EndTurn(w, "stopped")
    /\ UNCHANGED <<queueVars, caller, receiver, drained, received, joined, firstError, diskVars,
                   runs>>

WorkerStep(w) ==
    \/ BeginOpen(w) \/ Open(w) \/ UseDatabase(w)
    \/ Pop(w)
    \/ FetchBytes(w) \/ FetchForbidden(w) \/ FetchNothing(w)
    \/ LogMismatch(w) \/ LogWithheld(w)
    \/ CreateFile(w) \/ PublishFile(w)
    \/ Send(w) \/ SendFails(w)

WorkerFails(w) == OpenFails(w) \/ LogFails(w) \/ WriteFails(w)
-----------------------------------------------------------------------------
(* The caller *)

Finished(w) == pc[w] \in {"stopped", "failed"}

TakeReceiver ==
    /\ caller = "idle"
    /\ caller' = "draining"
    /\ receiver' = "taken"
    /\ UNCHANGED <<queueVars, workerVars, drained, received, joined, firstError, discarded,
                   diskVars, runs>>

Receive ==
    /\ caller = "draining"
    /\ channel # <<>>
    /\ received' = received \cup {Head(channel)}
    /\ channel' = Tail(channel)
    /\ UNCHANGED <<left, cell, workerVars, caller, receiver, drained, joined, firstError,
                   discarded, diskVars, runs>>

\* recv returns None: every sender is gone, and the loop of the caller ends.
EndOfChannel ==
    /\ caller = "draining"
    /\ channel = <<>>
    /\ \A w \in Workers : Finished(w)
    /\ caller' = "closing"
    /\ receiver' = "dropped"
    /\ drained' = TRUE
    /\ UNCHANGED <<queueVars, workerVars, received, joined, firstError, discarded, diskVars,
                   runs>>

\* Dropping the receiver discards what is in the channel.
DropReceiver ==
    /\ receiver' = "dropped"
    /\ channel' = <<>>
    /\ discarded' = discarded \cup Queued

StopDraining ==
    /\ caller = "draining"
    /\ caller' = "closing"
    /\ \/ DropReceiver
       \/ KeepsReceiver /\ UNCHANGED <<receiver, channel, discarded>>
    /\ UNCHANGED <<left, cell, workerVars, drained, received, joined, firstError, diskVars,
                   runs>>

\* `close` drops the receiver if the manager still has it.
BeginCloseKeeping ==
    /\ caller \in {"idle", "closing"}
    /\ caller' = "joining"
    /\ UNCHANGED <<channel, receiver, discarded, left, cell, workerVars, drained, received,
                   joined, firstError, diskVars, runs>>
BeginClose ==
    /\ caller \in {"idle", "closing"}
    /\ caller' = "joining"
    /\ IF receiver = "held" THEN DropReceiver ELSE UNCHANGED <<receiver, channel, discarded>>
    /\ UNCHANGED <<left, cell, workerVars, drained, received, joined, firstError, diskVars,
                   runs>>

\* The tasks are joined in order, all of them, and the first failure is kept.
JoinStopsAtError ==
    /\ caller = "joining"
    /\ IF joined = WorkerCount \/ firstError # 0
       THEN caller' = "returned" /\ UNCHANGED <<joined, firstError>>
       ELSE /\ Finished(joined + 1)
            /\ joined' = joined + 1
            /\ firstError' = IF pc[joined + 1] = "failed" THEN joined + 1 ELSE firstError
            /\ UNCHANGED caller
    /\ UNCHANGED <<queueVars, workerVars, receiver, drained, received, discarded, diskVars, runs>>
JoinNext ==
    /\ caller = "joining"
    /\ IF joined = WorkerCount
       THEN caller' = "returned" /\ UNCHANGED <<joined, firstError>>
       ELSE /\ Finished(joined + 1)
            /\ joined' = joined + 1
            /\ firstError' = IF pc[joined + 1] = "failed" /\ firstError = 0
                             THEN joined + 1 ELSE firstError
            /\ UNCHANGED caller
    /\ UNCHANGED <<queueVars, workerVars, receiver, drained, received, discarded, diskVars, runs>>

CallerStep ==
    \/ TakeReceiver
    \/ Receive
    \/ EndOfChannel
    \/ BeginClose
    \/ JoinNext

\* The process ends, by itself or killed at any point, and is run again on the same queue.
Restart ==
    /\ runs < MaxRuns
    /\ runs' = runs + 1
    /\ left' = ItemCount
    /\ cell' = "empty"
    /\ channel' = <<>>
    /\ pc' = [w \in Workers |-> "start"]
    /\ hand' = [w \in Workers |-> NoItem]
    /\ bytes' = [w \in Workers |-> Missing]
    /\ actual' = [w \in Workers |-> NoDigest]
    /\ outcome' = [w \in Workers |-> "None"]
    /\ caller' = "idle"
    /\ receiver' = "held"
    /\ drained' = FALSE
    /\ received' = {}
    /\ joined' = 0
    /\ firstError' = 0
    /\ discarded' = {}
    /\ UNCHANGED diskVars

Next ==
    \/ \E w \in Workers : WorkerStep(w) \/ WorkerFails(w)
    \/ CallerStep
    \/ StopDraining
    \/ Restart

\* The runtime keeps polling every task that can go on, and the caller goes on to the end of
\* its program.  No failure is owed, and nobody owes it to stop draining.
Fairness ==
    /\ \A w \in Workers : WF_vars(WorkerStep(w))
    /\ WF_vars(CallerStep)

Spec == Init /\ [][Next]_vars /\ Fairness
-----------------------------------------------------------------------------
(* Properties *)

Reported == {r.item : r \in received}
Failed(w) == pc[w] = "failed"

\* Every item the queue has handed out is in exactly one place: in the hands of one worker,
\* in the channel, received, or discarded with the receiver; none is handed out twice.
ItemsConserved ==
    /\ 1 .. (ItemCount - left) =
         {hand[w] : w \in {v \in Workers : hand[v] # NoItem}} \cup Queued \cup Reported
           \cup discarded
    /\ \A v, w \in Workers : v # w /\ hand[v] = hand[w] => hand[v] = NoItem
    /\ \A w \in Workers : hand[w] \notin Queued \cup Reported \cup discarded
    /\ \A m, n \in DOMAIN channel : channel[m].item = channel[n].item => m = n
    /\ Queued \cap Reported = {}
    /\ discarded \cap (Queued \cup Reported) = {}

\* A file the pool wrote is named by the digest of its bytes, also when the archive served
\* something unexpected.  (Files that were there before are not looked at.)
NamesAreTrue ==
    \A d \in Digests :
      Existing[d] = Missing /\ file[d] # Missing => DigestOf[file[d]] = d

\* A file under a digest no item expects is explained by the log, even after a crash: the row
\* is written before the file.
UnexpectedFilesAreLogged ==
    \A d \in Digests :
      Existing[d] = Missing /\ file[d] # Missing
        => \E i \in Items : Expected[i] = d \/ <<i, d>> \in mismatches

\* Every file of the pool is explained: by the digest of its bytes and by an item or the log.
FilesAreExplained == NamesAreTrue /\ UnexpectedFilesAreLogged

\* A Success that is reported is true: the file is there under the digest it names, and a
\* digest other than the expected one is in the log.
SuccessIsTrue ==
    \A r \in received \cup {channel[n] : n \in DOMAIN channel} :
      r.kind = "Success" =>
        IF r.actual = NoDigest
        THEN Expected[r.item] # NoDigest /\ file[Expected[r.item]] # Missing
        ELSE /\ r.actual # Expected[r.item]
             /\ file[r.actual] # Missing
             /\ <<r.item, r.actual>> \in mismatches

\* When the caller has drained the channel, every item has been reported, except those in the
\* hands of a failed worker and, if every worker has failed, those never handed out.
DrainAccounts ==
    drained =>
      \A i \in Items :
        \/ i \in Reported
        \/ \E w \in Workers : Failed(w) /\ hand[w] = i
        \/ (\A w \in Workers : Failed(w)) /\ i > ItemCount - left

\* `close` has waited for every worker, and its error is that of the first that failed.
CloseIsTruthful ==
    caller = "returned" =>
      /\ \A w \in Workers : Finished(w)
      /\ firstError = 0 <=> ~ \E w \in Workers : Failed(w)
      /\ firstError # 0 => Failed(firstError) /\ \A w \in 1 .. (firstError - 1) : ~ Failed(w)

\* The database is opened by one task at a time and never again once it is open.
OneDatabase ==
    /\ \A v, w \in Workers : pc[v] = "opening" /\ pc[w] = "opening" => v = w
    /\ cell = "ready" => \A w \in Workers : pc[w] # "opening"

\* What the workers share they use one at a time: an item is in one place, and one of them opens
\* the database, also after another has failed to.
SharedByOne == ItemsConserved /\ OneDatabase

\* Files stay as they are, those of earlier runs included.
FilesKept == [][\A d \in Digests : file[d] # Missing => file'[d] = file[d]]_vars

\* `close` is reached and returns: no worker waits for ever on a full channel.  Only a caller that
\* keeps the receiver to itself can make it wait for ever, and in one way only: the channel is full
\* and a worker waits for room in it.
CloseBlocksOnlyWhenFull ==
    <>[](\/ caller = "returned"
         \/ /\ receiver = "taken"
            /\ Len(channel) = Buffer
            /\ \E w \in Workers : pc[w] = "send")

\* "The channel closes once every worker has finished, which makes it a natural way to wait
\* for the queue to drain": the end of the channel means an empty queue.
ChannelEndMeansQueueDrained == drained => left = 0
=============================================================================
