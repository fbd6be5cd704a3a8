----------------------- MODULE DownloadManagerProofs -----------------------
(***************************************************************************)
(* Proofs about DownloadManager for any number of workers, items, digests  *)
(* and runs.  The invariant says what each worker knows at each point of   *)
(* its loop, and that each item handed out is in one place.                *)
(***************************************************************************)
EXTENDS DownloadManager, TLAPS, SequenceTheorems

\* Between two items a worker holds nothing, and from the queue to the channel it holds one.
\* A worker that has failed holds an item or, if it failed at its start, none.
HandInv ==
    \A w \in Workers :
      /\ pc[w] \in {"start", "opening", "pop", "stopped"}
           => hand[w] = NoItem /\ actual[w] = NoDigest
      /\ pc[w] \in {"fetch", "log", "withhold", "create", "publish", "send"}
           => hand[w] \in Items
      /\ pc[w] \in {"fetch", "withhold"} => actual[w] = NoDigest
      /\ pc[w] = "log" => actual[w] # NoDigest
      /\ pc[w] = "send" => outcome[w] # "None"

\* The bytes in a worker's hands have been compared with the expected digest.
BytesInv ==
    \A w \in Workers :
      pc[w] \in {"log", "create", "publish"} =>
        /\ bytes[w] \in Contents
        /\ IF actual[w] = NoDigest
           THEN Expected[hand[w]] = DigestOf[bytes[w]]
           ELSE actual[w] = DigestOf[bytes[w]] /\ actual[w] # Expected[hand[w]]

\* A mismatch is logged before its bytes are written.
LoggedInv ==
    \A w \in Workers :
      pc[w] \in {"create", "publish"} /\ actual[w] # NoDigest
        => <<hand[w], actual[w]>> \in mismatches

\* What a Success that names item i and digest a claims.
True(i, a) ==
    IF a = NoDigest
    THEN Expected[i] # NoDigest /\ file[Expected[i]] # Missing
    ELSE a # Expected[i] /\ file[a] # Missing /\ <<i, a>> \in mismatches

ResultInv ==
    /\ \A w \in Workers :
         pc[w] = "send" /\ outcome[w] = "Success" => True(hand[w], actual[w])
    /\ \A n \in DOMAIN channel :
         channel[n].kind = "Success" => True(channel[n].item, channel[n].actual)
    /\ \A r \in received : r.kind = "Success" => True(r.item, r.actual)

\* The initialiser of the database runs exactly when the cell says so.
CellInv ==
    \A w \in Workers :
      /\ pc[w] = "opening" => cell = "opening"
      /\ \A v \in Workers : pc[v] = "opening" /\ pc[w] = "opening" => v = w
-----------------------------------------------------------------------------
\* Appending to the channel adds one element to those it holds.
LEMMA AppendElements ==
    ASSUME NEW S, NEW q \in Seq(S), NEW x \in S
    PROVE  /\ Append(q, x) \in Seq(S)
           /\ Len(Append(q, x)) = Len(q) + 1
           /\ DOMAIN Append(q, x) = DOMAIN q \cup {Len(q) + 1}
           /\ \A n \in DOMAIN q : Append(q, x)[n] = q[n]
           /\ Append(q, x)[Len(q) + 1] = x
           /\ Len(q) + 1 \notin DOMAIN q
OBVIOUS

\* Receiving takes the first element and shifts the others.
LEMMA TailElements ==
    ASSUME NEW S, NEW q \in Seq(S), q # <<>>
    PROVE  /\ Tail(q) \in Seq(S)
           /\ Len(Tail(q)) = Len(q) - 1
           /\ 1 \in DOMAIN q
           /\ Head(q) = q[1]
           /\ \A n \in DOMAIN Tail(q) : n + 1 \in DOMAIN q /\ Tail(q)[n] = q[n + 1]
           /\ \A n \in DOMAIN q : n = 1 \/ (n - 1 \in DOMAIN Tail(q) /\ Tail(q)[n - 1] = q[n])
OBVIOUS
-----------------------------------------------------------------------------
(* What a worker holds *)

TypeInv == TypeOK /\ HandInv

\* What the manager and a new channel start from.
LEMMA Beginnings ==
    /\ <<>> \in Seq(Result) /\ Len(<<>>) <= Buffer
    /\ 0 \in 0 .. WorkerCount /\ ItemCount \in 0 .. ItemCount /\ 1 \in 1 .. MaxRuns
    /\ DOMAIN <<>> = {}
<1>1. <<>> \in Seq(Result) /\ Len(<<>>) = 0
  OBVIOUS
<1> QED
  BY <1>1, ManagerAssumption

LEMMA InitTypeInv == Init => TypeInv
<1> SUFFICES ASSUME Init PROVE TypeInv
  OBVIOUS
<1>1. TypeOK
  BY Beginnings, ManagerAssumption DEF Init, TypeOK, PC, Kind
<1>2. HandInv
  BY DEF Init, HandInv
<1> QED
  BY <1>1, <1>2 DEF TypeInv

\* The steps of a worker that end a turn or begin one.
LEMMA TurnTypeInv ==
    ASSUME TypeInv, NEW w \in Workers,
           Pop(w) \/ Send(w) \/ SendFails(w)
    PROVE  TypeInv'
<1> USE DEF TypeInv
<1>1. CASE Pop(w)
  <2>1. left # 0 => Reversed(left) \in Items /\ left - 1 \in 0 .. ItemCount
    BY ManagerAssumption DEF TypeOK, Reversed, Items
  <2>2. TypeOK'
    BY <1>1, <2>1 DEF Pop, Goto, TypeOK, PC, callerVars, diskVars
  <2>3. HandInv'
    BY <1>1, <2>1 DEF Pop, Goto, TypeOK, HandInv, PC
  <2> QED BY <2>2, <2>3
<1>2. CASE Send(w)
  <2>1. ResultOf(w) \in Result
    BY <1>2 DEF Send, ResultOf, Result, TypeOK, HandInv
  <2>2. channel' \in Seq(Result) /\ Len(channel') <= Buffer
    BY <1>2, <2>1, AppendElements, ManagerAssumption DEF Send, TypeOK
  <2>3. TypeOK'
    BY <1>2, <2>2 DEF Send, EndTurn, Goto, TypeOK, PC, Kind, callerVars, diskVars
  <2>4. HandInv'
    BY <1>2 DEF Send, EndTurn, Goto, TypeOK, HandInv, PC
  <2> QED BY <2>3, <2>4
<1>3. CASE SendFails(w)
  <2>1. TypeOK'
    BY <1>3 DEF SendFails, EndTurn, Goto, TypeOK, HandInv, PC, Kind, queueVars, diskVars
  <2>2. HandInv'
    BY <1>3 DEF SendFails, EndTurn, Goto, TypeOK, HandInv, PC
  <2> QED BY <2>1, <2>2
<1> QED
  BY <1>1, <1>2, <1>3

\* The steps of a worker before its first item, and those within a turn.
LEMMA WorkTypeInv ==
    ASSUME TypeInv, NEW w \in Workers,
           \/ BeginOpen(w) \/ Open(w) \/ OpenFails(w) \/ UseDatabase(w)
           \/ FetchBytes(w) \/ FetchForbidden(w) \/ FetchNothing(w)
           \/ LogMismatch(w) \/ LogWithheld(w) \/ LogFails(w)
           \/ CreateFile(w) \/ PublishFile(w) \/ WriteFails(w)
    PROVE  TypeInv'
<1> USE DEF TypeInv, TypeOK, HandInv, Goto, Report, PC, Kind, queueVars, callerVars, diskVars
<1>1. CASE BeginOpen(w) \/ Open(w) \/ OpenFails(w) \/ UseDatabase(w)
  BY <1>1 DEF BeginOpen, Open, OpenFails, UseDatabase
<1>2. CASE FetchBytes(w)
  BY <1>2, ManagerAssumption DEF FetchBytes
<1>3. CASE FetchForbidden(w)
  BY <1>3 DEF FetchForbidden
<1>4. CASE FetchNothing(w)
  BY <1>4 DEF FetchNothing
<1>5. CASE LogMismatch(w)
  BY <1>5 DEF LogMismatch
<1>6. CASE LogWithheld(w)
  BY <1>6 DEF LogWithheld
<1>7. CASE LogFails(w)
  BY <1>7 DEF LogFails
<1>8. CASE CreateFile(w)
  BY <1>8 DEF CreateFile
<1>9. CASE PublishFile(w)
  BY <1>9 DEF PublishFile
<1>10. CASE WriteFails(w)
  BY <1>10 DEF WriteFails
<1> QED
  BY <1>1, <1>2, <1>3, <1>4, <1>5, <1>6, <1>7, <1>8, <1>9, <1>10

LEMMA CallerTypeInv ==
    ASSUME TypeInv, CallerStep \/ StopDraining \/ Restart
    PROVE  TypeInv'
<1> USE DEF TypeInv
<1>1. CASE TakeReceiver
  BY <1>1 DEF TakeReceiver, TypeOK, HandInv, queueVars, workerVars, diskVars
<1>2. CASE Receive
  <2>1. Head(channel) \in Result /\ Tail(channel) \in Seq(Result) /\ Len(Tail(channel)) <= Buffer
    BY <1>2, TailElements, ManagerAssumption DEF Receive, TypeOK
  <2> QED
    BY <1>2, <2>1 DEF Receive, TypeOK, HandInv, workerVars, diskVars
<1>3. CASE EndOfChannel
  BY <1>3 DEF EndOfChannel, TypeOK, HandInv, queueVars, workerVars, diskVars
<1>4. Queued \subseteq Items
  <2>1. \A n \in DOMAIN channel : channel[n] \in Result
    BY DEF TypeOK
  <2> QED
    BY <2>1 DEF Queued, Result
<1>5. CASE StopDraining
  BY <1>4, <1>5, Beginnings
  DEF StopDraining, DropReceiver, TypeOK, HandInv, workerVars, diskVars
<1>6. CASE BeginClose
  BY <1>4, <1>6, Beginnings
  DEF BeginClose, DropReceiver, TypeOK, HandInv, workerVars, diskVars
<1>7. CASE JoinNext
  <2>1. joined # WorkerCount => joined + 1 \in 0 .. WorkerCount
    BY ManagerAssumption DEF TypeOK
  <2> QED
    BY <1>7, <2>1
    DEF JoinNext, TypeOK, HandInv, queueVars, workerVars, diskVars
<1>8. CASE Restart
  <2>1. runs' \in 1 .. MaxRuns
    BY <1>8, ManagerAssumption DEF Restart, TypeOK
  <2>2. TypeOK'
    BY <1>8, <2>1, Beginnings DEF Restart, TypeOK, PC, Kind, diskVars
  <2>3. HandInv'
    BY <1>8 DEF Restart, HandInv
  <2> QED BY <2>2, <2>3
<1> QED
  BY <1>1, <1>2, <1>3, <1>5, <1>6, <1>7, <1>8 DEF CallerStep

LEMMA StepTypeInv == TypeInv /\ [Next]_vars => TypeInv'
<1> SUFFICES ASSUME TypeInv, [Next]_vars PROVE TypeInv'
  OBVIOUS
<1>1. CASE UNCHANGED vars
  BY <1>1 DEF vars, TypeInv, TypeOK, HandInv
<1> QED
  BY <1>1, TurnTypeInv, WorkTypeInv, CallerTypeInv DEF Next, WorkerStep, WorkerFails

\* Every variable of the pool keeps to its type, for any number of workers, items and runs.
THEOREM PoolTypeCorrect == Spec => []TypeOK
<1>1. Spec => []TypeInv
  BY InitTypeInv, StepTypeInv, PTL DEF Spec
<1> QED
  BY <1>1, PTL DEF TypeInv
-----------------------------------------------------------------------------
(* The files and the log *)

FileInv == BytesInv /\ LoggedInv /\ NamesAreTrue /\ UnexpectedFilesAreLogged

LEMMA InitFileInv == Init => FileInv
BY DEF Init, FileInv, BytesInv, LoggedInv, NamesAreTrue, UnexpectedFilesAreLogged

\* What the two steps that may make a file visible do to it: nothing, or a true new name.
LEMMA NewFile ==
    ASSUME TypeInv, FileInv, NEW w \in Workers, PublishFile(w) \/ WriteFails(w)
    PROVE  /\ mismatches' = mismatches
           /\ \/ file' = file
              \/ /\ Name(w) \in Digests
                 /\ file[Name(w)] = Missing
                 /\ bytes[w] \in Contents
                 /\ DigestOf[bytes[w]] = Name(w)
                 /\ file' = [file EXCEPT ![Name(w)] = bytes[w]]
                 /\ \E i \in Items : Expected[i] = Name(w) \/ <<i, Name(w)>> \in mismatches
<1> USE DEF TypeInv, TypeOK, HandInv, FileInv, BytesInv, LoggedInv
<1>1. pc[w] = "publish" => Name(w) \in Digests /\ DigestOf[bytes[w]] = Name(w)
  BY ManagerAssumption DEF Name
<1>2. pc[w] = "publish"
        => \E i \in Items : Expected[i] = Name(w) \/ <<i, Name(w)>> \in mismatches
  BY DEF Name
<1> QED
  BY <1>1, <1>2 DEF PublishFile, WriteFails, Occupied

\* Every other step leaves the files alone and only adds to the log.
LEMMA OldFiles ==
    ASSUME NEW w \in Workers,
           \/ BeginOpen(w) \/ Open(w) \/ OpenFails(w) \/ UseDatabase(w) \/ Pop(w)
           \/ FetchBytes(w) \/ FetchForbidden(w) \/ FetchNothing(w)
           \/ LogMismatch(w) \/ LogWithheld(w) \/ LogFails(w)
           \/ CreateFile(w) \/ Send(w) \/ SendFails(w)
    PROVE  file' = file /\ mismatches \subseteq mismatches'
BY DEF BeginOpen, Open, OpenFails, UseDatabase, Pop, FetchBytes, FetchForbidden, FetchNothing,
       LogMismatch, LogWithheld, LogFails, CreateFile, Send, SendFails, diskVars

\* The caller, and a restart, leave what is on disk alone.
LEMMA CallerKeepsDisk ==
    ASSUME CallerStep \/ StopDraining \/ Restart
    PROVE  UNCHANGED diskVars
BY DEF CallerStep, TakeReceiver, Receive, EndOfChannel, BeginClose, JoinNext, StopDraining,
       Restart, diskVars

\* In no step does a file change or go away, or a row of the log.
LEMMA DiskGrows ==
    ASSUME TypeInv, FileInv, [Next]_vars
    PROVE  /\ \A d \in Digests : file[d] # Missing => file'[d] = file[d]
           /\ mismatches \subseteq mismatches'
<1>1. ASSUME NEW w \in Workers, PublishFile(w) \/ WriteFails(w)
      PROVE  /\ \A d \in Digests : file[d] # Missing => file'[d] = file[d]
             /\ mismatches \subseteq mismatches'
  BY <1>1, NewFile DEF TypeInv, TypeOK
<1>2. CASE UNCHANGED <<file, mismatches>>
  BY <1>2
<1> QED
  BY <1>1, <1>2, OldFiles, CallerKeepsDisk DEF Next, WorkerStep, WorkerFails, vars, diskVars

\* What is on disk stays explained: files that are new have their true names and are expected
\* or logged.
LEMMA StepDisk ==
    ASSUME TypeInv, FileInv, [Next]_vars
    PROVE  NamesAreTrue' /\ UnexpectedFilesAreLogged'
<1> USE DEF FileInv, NamesAreTrue, UnexpectedFilesAreLogged
<1>1. ASSUME NEW w \in Workers, PublishFile(w) \/ WriteFails(w)
      PROVE  NamesAreTrue' /\ UnexpectedFilesAreLogged'
  <2>1. CASE file' = file /\ mismatches' = mismatches
    BY <2>1
  <2>2. CASE file' # file
    <3>1. \A d \in Digests : d # Name(w) => file'[d] = file[d]
      BY <1>1, <2>2, NewFile DEF TypeInv, TypeOK
    <3>2. DigestOf[file'[Name(w)]] = Name(w)
      BY <1>1, <2>2, NewFile DEF TypeInv, TypeOK
    <3> QED
      BY <1>1, <2>2, <3>1, <3>2, NewFile
  <2> QED
    BY <1>1, <2>1, <2>2, NewFile
<1>2. CASE file' = file /\ mismatches \subseteq mismatches'
  BY <1>2
<1> QED
  BY <1>1, <1>2, OldFiles, CallerKeepsDisk DEF Next, WorkerStep, WorkerFails, vars, diskVars

\* What the workers know stays true: only the steps of a worker touch its bytes and its digest.
LEMMA StepBytes ==
    ASSUME TypeInv, FileInv, [Next]_vars
    PROVE  BytesInv' /\ LoggedInv'
<1> USE DEF TypeInv, TypeOK, HandInv, FileInv, BytesInv, LoggedInv, Goto, Report
<1>1. ASSUME NEW w \in Workers,
             \/ BeginOpen(w) \/ Open(w) \/ OpenFails(w) \/ UseDatabase(w) \/ Pop(w)
             \/ FetchForbidden(w) \/ FetchNothing(w) \/ LogWithheld(w)
      PROVE  BytesInv' /\ LoggedInv'
  BY <1>1, SMTT(30) DEF BeginOpen, Open, OpenFails, UseDatabase, Pop, FetchForbidden, FetchNothing,
              LogWithheld, diskVars
<1>2. ASSUME NEW w \in Workers, FetchBytes(w)
      PROVE  BytesInv' /\ LoggedInv'
  BY <1>2, ManagerAssumption DEF FetchBytes, diskVars
<1>3. ASSUME NEW w \in Workers, LogMismatch(w)
      PROVE  BytesInv' /\ LoggedInv'
  BY <1>3 DEF LogMismatch
<1>4. ASSUME NEW w \in Workers, LogFails(w) \/ CreateFile(w) \/ PublishFile(w) \/ WriteFails(w)
      PROVE  BytesInv' /\ LoggedInv'
  BY <1>4 DEF LogFails, CreateFile, PublishFile, WriteFails, diskVars
<1>5. ASSUME NEW w \in Workers, Send(w) \/ SendFails(w)
      PROVE  BytesInv' /\ LoggedInv'
  <2>1. PICK step \in {"pop", "stopped"} : EndTurn(w, step) /\ mismatches' = mismatches
    BY <1>5 DEF Send, SendFails, diskVars
  <2> QED
    BY <2>1 DEF EndTurn
<1>6. CASE Restart
  BY <1>6 DEF Restart
<1>7. CASE CallerStep \/ StopDraining
  BY <1>7 DEF CallerStep, TakeReceiver, Receive, EndOfChannel, BeginClose, JoinNext, StopDraining,
              workerVars, diskVars
<1>8. CASE UNCHANGED vars
  BY <1>8 DEF vars
<1> QED
  BY <1>1, <1>2, <1>3, <1>4, <1>5, <1>6, <1>7, <1>8 DEF Next, WorkerStep, WorkerFails

LEMMA SpecFileInv == Spec => [](TypeInv /\ FileInv)
<1>1. TypeInv /\ FileInv /\ [Next]_vars => TypeInv' /\ FileInv'
  BY StepTypeInv, StepDisk, StepBytes DEF FileInv
<1> QED
  BY <1>1, InitTypeInv, InitFileInv, PTL DEF Spec

\* Whatever the archive serves, and wherever a run is cut short, a file the pool wrote is named
\* by the digest of its bytes.
THEOREM PoolNamesAreTrue == Spec => []NamesAreTrue
BY SpecFileInv, PTL DEF FileInv

\* A file under a digest that no item expects is explained by a row of the log.
THEOREM PoolLogsUnexpected == Spec => []UnexpectedFilesAreLogged
BY SpecFileInv, PTL DEF FileInv

\* Every file the pool wrote is explained by its bytes and by an item or the log.
THEOREM PoolExplainsFiles == Spec => []FilesAreExplained
BY PoolNamesAreTrue, PoolLogsUnexpected, PTL DEF FilesAreExplained

\* The pool changes and removes no file, in this run or a later one.
THEOREM PoolKeepsFiles == Spec => FilesKept
<1>1. TypeInv /\ FileInv /\ [Next]_vars
        => [\A d \in Digests : file[d] # Missing => file'[d] = file[d]]_vars
  BY DiskGrows
<1> QED
  BY <1>1, SpecFileInv, PTL DEF Spec, FilesKept
-----------------------------------------------------------------------------
(* The database *)

LEMMA StepCellInv == TypeInv /\ CellInv /\ [Next]_vars => CellInv'
<1> SUFFICES ASSUME TypeInv, CellInv, [Next]_vars PROVE CellInv'
  OBVIOUS
<1> USE DEF TypeInv, TypeOK, CellInv, Goto, Report, queueVars, workerVars
<1>1. ASSUME NEW w \in Workers, BeginOpen(w) \/ Open(w) \/ OpenFails(w) \/ UseDatabase(w)
      PROVE  CellInv'
  BY <1>1 DEF BeginOpen, Open, OpenFails, UseDatabase
<1>2. ASSUME NEW w \in Workers,
             \/ Pop(w) \/ FetchBytes(w) \/ FetchForbidden(w) \/ FetchNothing(w)
             \/ LogMismatch(w) \/ LogWithheld(w) \/ LogFails(w)
             \/ CreateFile(w) \/ PublishFile(w) \/ WriteFails(w)
      PROVE  cell' = cell /\ \A v \in Workers : pc'[v] = "opening" => pc[v] = "opening"
  BY <1>2 DEF Pop, FetchBytes, FetchForbidden, FetchNothing, LogMismatch, LogWithheld, LogFails,
              CreateFile, PublishFile, WriteFails
<1>3. ASSUME NEW w \in Workers, Send(w) \/ SendFails(w)
      PROVE  cell' = cell /\ \A v \in Workers : pc'[v] = "opening" => pc[v] = "opening"
  BY <1>3 DEF Send, SendFails, EndTurn
<1>4. CASE CallerStep \/ StopDraining
  BY <1>4 DEF CallerStep, TakeReceiver, Receive, EndOfChannel, BeginClose, JoinNext, StopDraining
<1>5. CASE Restart
  BY <1>5 DEF Restart
<1>6. CASE UNCHANGED vars
  BY <1>6 DEF vars
<1> QED
  BY <1>1, <1>2, <1>3, <1>4, <1>5, <1>6 DEF Next, WorkerStep, WorkerFails

\* However often the initialiser fails, one task at a time runs it, and none once it succeeded.
THEOREM PoolOpensOnce == Spec => []OneDatabase
<1>1. Init => CellInv
  BY DEF Init, CellInv
<1>2. CellInv => OneDatabase
  BY DEF CellInv, OneDatabase
<1> QED
  BY <1>1, <1>2, StepCellInv, InitTypeInv, StepTypeInv, PTL DEF Spec
-----------------------------------------------------------------------------
(* What the results claim *)

LEMMA TrueStays ==
    ASSUME TypeInv, FileInv, [Next]_vars,
           NEW i \in Items, NEW a \in Digests \cup {NoDigest}, True(i, a)
    PROVE  True(i, a)'
<1>1. \A d \in Digests : file[d] # Missing => file'[d] # Missing
  BY DiskGrows
<1> QED
  BY <1>1, DiskGrows, ManagerAssumption DEF True

\* A worker goes on to report Success only when the file it names is there.
LEMMA SuccessBegins ==
    ASSUME TypeInv, FileInv, NEW w \in Workers, CreateFile(w) \/ PublishFile(w),
           pc'[w] = "send"
    PROVE  /\ hand' = hand /\ actual' = actual
           /\ hand[w] \in Items
           /\ IF actual[w] = NoDigest
              THEN Expected[hand[w]] # NoDigest /\ file'[Expected[hand[w]]] # Missing
              ELSE /\ actual[w] # Expected[hand[w]]
                   /\ file'[actual[w]] # Missing
                   /\ <<hand[w], actual[w]>> \in mismatches'
<1> USE DEF TypeInv, TypeOK, HandInv, FileInv, BytesInv, LoggedInv
<1>1. pc[w] \in {"create", "publish"} /\ hand' = hand /\ actual' = actual
        /\ mismatches' = mismatches
  BY DEF CreateFile, PublishFile, diskVars
<1>2. Name(w) \in Digests
  BY <1>1, ManagerAssumption DEF Name
<1>3. file'[Name(w)] # Missing
  <2>1. CASE CreateFile(w)
    BY <2>1 DEF CreateFile, Occupied, Goto, diskVars
  <2>2. CASE PublishFile(w)
    BY <1>2, <2>2, ManagerAssumption DEF PublishFile, Occupied
  <2> QED
    BY <2>1, <2>2
<1> QED
  BY <1>1, <1>2, <1>3, ManagerAssumption DEF Name

\* Apart from that, a worker that reports Success was about to do so already.
LEMMA SendingStays ==
    ASSUME TypeInv, NEW w \in Workers,
           (\/ WorkerStep(w) \/ WorkerFails(w)) /\ ~ CreateFile(w) /\ ~ PublishFile(w),
           NEW v \in Workers, pc'[v] = "send", outcome'[v] = "Success"
    PROVE  pc[v] = "send" /\ outcome[v] = "Success" /\ hand'[v] = hand[v]
             /\ actual'[v] = actual[v]
<1> USE DEF TypeInv, TypeOK, Goto, Report
<1>1. CASE BeginOpen(w) \/ Open(w) \/ OpenFails(w) \/ UseDatabase(w) \/ Pop(w)
  BY <1>1 DEF BeginOpen, Open, OpenFails, UseDatabase, Pop
<1>2. CASE FetchBytes(w) \/ FetchForbidden(w) \/ FetchNothing(w)
  BY <1>2 DEF FetchBytes, FetchForbidden, FetchNothing
<1>3. CASE LogMismatch(w) \/ LogWithheld(w) \/ LogFails(w) \/ WriteFails(w)
  BY <1>3 DEF LogMismatch, LogWithheld, LogFails, WriteFails
<1>4. CASE Send(w) \/ SendFails(w)
  BY <1>4 DEF Send, SendFails, EndTurn
<1> QED
  BY <1>1, <1>2, <1>3, <1>4 DEF WorkerStep, WorkerFails

\* Only sending adds to the channel, and only receiving adds to what was received.
LEMMA ChannelSteps ==
    ASSUME TypeInv, NEW w \in Workers, WorkerStep(w) \/ WorkerFails(w), ~ Send(w)
    PROVE  channel' = channel /\ received' = received
BY DEF WorkerStep, WorkerFails, BeginOpen, Open, OpenFails, UseDatabase, Pop, FetchBytes,
       FetchForbidden, FetchNothing, LogMismatch, LogWithheld, LogFails, CreateFile,
       PublishFile, WriteFails, SendFails, queueVars, callerVars

LEMMA StepResultInv == TypeInv /\ FileInv /\ ResultInv /\ [Next]_vars => ResultInv'
<1> SUFFICES ASSUME TypeInv, FileInv, ResultInv, [Next]_vars PROVE ResultInv'
  OBVIOUS
<1> DEFINE After(i, a) == IF a = NoDigest
                          THEN Expected[i] # NoDigest /\ file'[Expected[i]] # Missing
                          ELSE /\ a # Expected[i]
                               /\ file'[a] # Missing
                               /\ <<i, a>> \in mismatches'
           Claims(r) == r.kind = "Success" => After(r.item, r.actual)
           Sending == \A w \in Workers :
                        pc'[w] = "send" /\ outcome'[w] = "Success" => After(hand'[w], actual'[w])
           Sent == \A n \in DOMAIN channel' : Claims(channel'[n])
           Got == \A r \in received' : Claims(r)
<1>1. \A i \in Items, a \in Digests \cup {NoDigest} : True(i, a) => After(i, a)
  BY TrueStays DEF True
<1>2. Sending /\ Sent /\ Got => ResultInv'
  BY DEF ResultInv, True
<1>3. \A w \in Workers : pc[w] = "send" /\ outcome[w] = "Success" => After(hand[w], actual[w])
  BY <1>1 DEF TypeInv, TypeOK, HandInv, ResultInv
<1>4. \A n \in DOMAIN channel : Claims(channel[n])
  <2>1. \A n \in DOMAIN channel : channel[n] \in Result
    BY DEF TypeInv, TypeOK
  <2> QED
    BY <1>1, <2>1 DEF Result, ResultInv
<1>5. \A r \in received : Claims(r)
  BY <1>1 DEF TypeInv, TypeOK, Result, ResultInv
<1> HIDE DEF After
<1>6. ASSUME NEW w \in Workers, WorkerStep(w) \/ WorkerFails(w)
      PROVE  Sending
  <2>1. CASE CreateFile(w) \/ PublishFile(w)
    <3>1. ASSUME NEW v \in Workers, pc'[v] = "send", outcome'[v] = "Success", v # w
          PROVE  After(hand'[v], actual'[v])
      <4>1. pc[v] = "send" /\ outcome[v] = "Success" /\ hand'[v] = hand[v]
              /\ actual'[v] = actual[v]
        BY <2>1, <3>1 DEF CreateFile, PublishFile, Report, Goto, TypeInv, TypeOK
      <4> QED
        BY <1>3, <4>1
    <3>2. pc'[w] = "send" => After(hand'[w], actual'[w])
      BY <2>1, SuccessBegins DEF After
    <3> QED
      BY <3>1, <3>2
  <2>2. CASE ~ CreateFile(w) /\ ~ PublishFile(w)
    BY <1>3, <1>6, <2>2, SendingStays
  <2> QED
    BY <2>1, <2>2
<1>7. ASSUME NEW w \in Workers, WorkerStep(w) \/ WorkerFails(w)
      PROVE  Sent /\ Got
  <2>1. CASE Send(w)
    <3>1. ResultOf(w) \in Result /\ channel \in Seq(Result)
      BY <2>1 DEF Send, ResultOf, Result, TypeInv, TypeOK, HandInv
    <3>2. Claims(ResultOf(w))
      BY <1>3, <2>1 DEF Send, ResultOf
    <3> HIDE DEF Claims
    <3>3. Sent
      BY <1>4, <2>1, <3>1, <3>2, AppendElements DEF Send
    <3> QED
      BY <1>5, <2>1, <3>3 DEF Send, callerVars
  <2>2. CASE ~ Send(w)
    BY <1>4, <1>5, <1>7, <2>2, ChannelSteps
  <2> QED
    BY <2>1, <2>2
<1>8. CASE Receive
  <2>1. channel \in Seq(Result) /\ channel # <<>>
    BY <1>8 DEF Receive, TypeInv, TypeOK
  <2> HIDE DEF Claims
  <2>2. Sent /\ Got
    BY <1>4, <1>5, <1>8, <2>1, TailElements DEF Receive
  <2>3. Sending
    BY <1>3, <1>8 DEF Receive, workerVars
  <2> QED
    BY <1>2, <2>2, <2>3
<1>9. CASE StopDraining \/ BeginClose
  <2>1. channel' = channel \/ channel' = <<>>
    BY <1>9 DEF StopDraining, BeginClose, DropReceiver
  <2> HIDE DEF Claims
  <2>2. Sent
    BY <1>4, <2>1, Beginnings
  <2>3. Sending /\ Got
    BY <1>3, <1>5, <1>9 DEF StopDraining, BeginClose, workerVars
  <2> QED
    BY <1>2, <2>2, <2>3
<1>10. CASE TakeReceiver \/ EndOfChannel \/ JoinNext
  BY <1>2, <1>3, <1>4, <1>5, <1>10
  DEF TakeReceiver, EndOfChannel, JoinNext, workerVars, queueVars
<1>11. CASE Restart
  <2>1. \A w \in Workers : pc'[w] # "send"
    BY <1>11 DEF Restart
  <2>2. DOMAIN channel' = {} /\ received' = {}
    BY <1>11, Beginnings DEF Restart
  <2> QED
    BY <1>2, <2>1, <2>2
<1>12. CASE UNCHANGED vars
  BY <1>2, <1>3, <1>4, <1>5, <1>12 DEF vars
<1> QED
  BY <1>2, <1>6, <1>7, <1>8, <1>9, <1>10, <1>11, <1>12 DEF Next, CallerStep

\* A Success that has been reported is true, and stays true.
THEOREM PoolSuccessIsTrue == Spec => []SuccessIsTrue
<1>1. Init => ResultInv
  BY Beginnings DEF Init, ResultInv
<1>2. ResultInv => SuccessIsTrue
  BY DEF ResultInv, SuccessIsTrue, True
<1> QED
  BY <1>1, <1>2, StepResultInv, SpecFileInv, PTL DEF Spec
-----------------------------------------------------------------------------
(* Where the items are *)

InHand == {hand[w] : w \in {v \in Workers : hand[v] # NoItem}}

\* The steps that move an item, by what they do to the four places it can be in.
LEMMA PopMoves ==
    ASSUME TypeInv, ItemsConserved, NEW w \in Workers, Pop(w), left # 0
    PROVE  /\ left' = left - 1
           /\ hand[w] = NoItem
           /\ hand' = [hand EXCEPT ![w] = Reversed(left)]
           /\ Reversed(left) \in Items
           /\ Reversed(left) = ItemCount - left + 1
           /\ UNCHANGED <<channel, received, discarded>>
BY ManagerAssumption DEF Pop, Reversed, TypeInv, TypeOK, HandInv, Items, callerVars

LEMMA StepConserved == TypeInv /\ ItemsConserved /\ [Next]_vars => ItemsConserved'
<1> SUFFICES ASSUME TypeInv, ItemsConserved, [Next]_vars PROVE ItemsConserved'
  OBVIOUS
<1> DEFINE Same == UNCHANGED <<left, hand, channel, received, discarded>>
<1>0. Same => ItemsConserved'
  BY DEF ItemsConserved, Queued, Reported
<1>1. ASSUME NEW w \in Workers, Pop(w), left # 0
      PROVE  ItemsConserved'
  <2> DEFINE i == Reversed(left)
  <2>1. /\ left' = left - 1 /\ hand[w] = NoItem /\ hand' = [hand EXCEPT ![w] = i]
        /\ i \in Items /\ i = ItemCount - left + 1
        /\ Queued' = Queued /\ Reported' = Reported /\ discarded' = discarded
        /\ channel' = channel
    BY <1>1, PopMoves DEF Queued, Reported
  <2>2. i \notin 1 .. (ItemCount - left)
          /\ 1 .. (ItemCount - left') = (1 .. (ItemCount - left)) \cup {i}
    BY <1>1, <2>1, ManagerAssumption DEF TypeInv, TypeOK, Items
  <2>3. InHand' = InHand \cup {i}
    BY <2>1, ManagerAssumption DEF InHand, TypeInv, TypeOK
  <2>4. i \notin InHand /\ i \notin Queued /\ i \notin Reported /\ i \notin discarded
    BY <2>2 DEF ItemsConserved, InHand
  <2>5. 1 .. (ItemCount - left') = InHand' \cup Queued' \cup Reported' \cup discarded'
    BY <2>1, <2>2, <2>3 DEF ItemsConserved, InHand
  <2>6. \A u, v \in Workers : u # v /\ hand'[u] = hand'[v] => hand'[u] = NoItem
    BY <2>1, <2>4 DEF ItemsConserved, InHand, TypeInv, TypeOK
  <2>7. \A v \in Workers : hand'[v] \notin Queued' \cup Reported' \cup discarded'
    BY <2>1, <2>4 DEF ItemsConserved, TypeInv, TypeOK
  <2> QED
    BY <2>1, <2>5, <2>6, <2>7 DEF ItemsConserved, InHand
<1>2. ASSUME NEW w \in Workers, Send(w) \/ SendFails(w)
      PROVE  ItemsConserved'
  <2> DEFINE i == hand[w]
  <2>1. i \in Items /\ i # NoItem /\ hand' = [hand EXCEPT ![w] = NoItem] /\ left' = left
          /\ received' = received
    BY <1>2, ManagerAssumption DEF Send, SendFails, EndTurn, TypeInv, HandInv, queueVars, callerVars
  <2>2. InHand' = InHand \ {i}
    BY <2>1 DEF InHand, ItemsConserved, TypeInv, TypeOK
  <2>3. /\ \A u, v \in Workers : u # v /\ hand'[u] = hand'[v] => hand'[u] = NoItem
        /\ \A v \in Workers : hand'[v] \notin Queued \cup Reported \cup discarded \cup {i}
        /\ i \in InHand
        /\ i \notin Queued \cup Reported \cup discarded
    <3>1. NoItem \notin Queued \cup Reported \cup discarded
      <4>1. \A n \in DOMAIN channel : channel[n] \in Result
        BY DEF TypeInv, TypeOK
      <4> QED
        BY <4>1, ManagerAssumption DEF Queued, Reported, Result, TypeInv, TypeOK
    <3> QED
      BY <2>1, <3>1 DEF InHand, ItemsConserved, TypeInv, TypeOK
  <2>4. CASE Send(w)
    <3>1. channel \in Seq(Result) /\ ResultOf(w) \in Result /\ channel' = Append(channel, ResultOf(w))
            /\ ResultOf(w).item = i /\ discarded' = discarded
      BY <2>4 DEF Send, ResultOf, Result, TypeInv, TypeOK, HandInv, callerVars
    <3>2. Queued' = Queued \cup {i}
      BY <3>1, AppendElements DEF Queued
    <3>3. \A m, n \in DOMAIN channel' : channel'[m].item = channel'[n].item => m = n
      <4>1. \A n \in DOMAIN channel : channel[n].item # i
        BY <2>3 DEF Queued
      <4> QED
        BY <3>1, <4>1, AppendElements DEF ItemsConserved
    <3>4. Reported' = Reported
      BY <2>1 DEF Reported
    <3> QED
      BY <2>1, <2>2, <2>3, <3>1, <3>2, <3>3, <3>4 DEF ItemsConserved, InHand
  <2>5. CASE SendFails(w)
    <3>1. Queued' = Queued /\ Reported' = Reported /\ discarded' = discarded \cup {i}
            /\ channel' = channel
      BY <2>5 DEF SendFails, Queued, Reported, queueVars
    <3> QED
      BY <2>1, <2>2, <2>3, <3>1 DEF ItemsConserved, InHand
  <2> QED
    BY <1>2, <2>4, <2>5
<1>3. CASE Receive
  <2> DEFINE i == Head(channel).item
  <2>1. channel \in Seq(Result) /\ channel # <<>> /\ channel' = Tail(channel)
          /\ received' = received \cup {Head(channel)} /\ UNCHANGED <<left, hand, discarded>>
    BY <1>3 DEF Receive, TypeInv, TypeOK, workerVars
  <2>2. Reported' = Reported \cup {i}
    BY <2>1 DEF Reported
  <2>3. Queued = Queued' \cup {i}
    <3>1. ASSUME NEW n \in DOMAIN channel
          PROVE  channel[n].item \in Queued' \cup {i}
      <4>1. n = 1 \/ (n - 1 \in DOMAIN channel' /\ channel'[n - 1] = channel[n])
        BY <2>1, TailElements
      <4>2. channel[1] = Head(channel)
        BY <2>1, TailElements
      <4> QED
        BY <4>1, <4>2 DEF Queued
    <3>2. ASSUME NEW n \in DOMAIN channel'
          PROVE  channel'[n].item \in Queued
      <4>1. n + 1 \in DOMAIN channel /\ channel'[n] = channel[n + 1]
        BY <2>1, TailElements
      <4> QED
        BY <4>1 DEF Queued
    <3>3. i \in Queued
      <4>1. 1 \in DOMAIN channel /\ channel[1] = Head(channel)
        BY <2>1, TailElements
      <4> QED
        BY <4>1 DEF Queued
    <3> QED
      BY <3>1, <3>2, <3>3 DEF Queued
  <2>4. i \notin Queued'
    <3>1. ASSUME NEW n \in DOMAIN channel', channel'[n].item = i
          PROVE  FALSE
      <4>1. n \in 1 .. Len(Tail(channel)) /\ n + 1 \in DOMAIN channel
              /\ channel[n + 1].item = channel[1].item /\ 1 \in DOMAIN channel
        BY <2>1, <3>1, TailElements
      <4> QED
        BY <4>1 DEF ItemsConserved
    <3> QED
      BY <3>1 DEF Queued
  <2>5. \A m, n \in DOMAIN channel' : channel'[m].item = channel'[n].item => m = n
    <3>1. ASSUME NEW m \in DOMAIN channel', NEW n \in DOMAIN channel',
                 channel'[m].item = channel'[n].item
          PROVE  m = n
      <4>1. /\ m + 1 \in DOMAIN channel /\ channel'[m] = channel[m + 1]
            /\ n + 1 \in DOMAIN channel /\ channel'[n] = channel[n + 1]
            /\ m \in Nat /\ n \in Nat
        BY <2>1, TailElements
      <4> QED
        BY <3>1, <4>1 DEF ItemsConserved
    <3> QED
      BY <3>1
  <2> QED
    BY <2>1, <2>2, <2>3, <2>4, <2>5 DEF ItemsConserved
<1>4. CASE DropReceiver /\ UNCHANGED <<left, hand, received>>
  <2>1. Queued' = {} /\ Reported' = Reported /\ discarded' = discarded \cup Queued
          /\ DOMAIN channel' = {}
    BY <1>4, Beginnings DEF DropReceiver, Queued, Reported
  <2> QED
    BY <1>4, <2>1 DEF ItemsConserved
<1>5. CASE Restart
  <2>1. Queued' = {} /\ Reported' = {} /\ discarded' = {} /\ DOMAIN channel' = {}
          /\ left' = ItemCount /\ \A w \in Workers : hand'[w] = NoItem
    BY <1>5, Beginnings DEF Restart, Queued, Reported
  <2>2. 1 .. (ItemCount - left') = {}
    BY <2>1, ManagerAssumption
  <2> QED
    BY <2>1, <2>2 DEF ItemsConserved
<1>6. ASSUME NEW w \in Workers,
             \/ WorkerStep(w) /\ ~ Pop(w) /\ ~ Send(w) /\ ~ SendFails(w)
             \/ WorkerFails(w)
             \/ Pop(w) /\ left = 0
      PROVE  Same
  BY <1>6 DEF WorkerStep, WorkerFails, BeginOpen, Open, OpenFails, UseDatabase, Pop, FetchBytes,
       FetchForbidden, FetchNothing, LogMismatch, LogWithheld, LogFails, CreateFile,
       PublishFile, WriteFails, queueVars, callerVars
<1>7. CASE TakeReceiver \/ EndOfChannel \/ JoinNext
  BY <1>0, <1>7 DEF TakeReceiver, EndOfChannel, JoinNext, queueVars, workerVars
<1>8. CASE StopDraining \/ BeginClose
  BY <1>0, <1>4, <1>8 DEF StopDraining, BeginClose, workerVars
<1>9. CASE UNCHANGED vars
  BY <1>0, <1>9 DEF vars
<1> HIDE DEF Same
<1> QED
  BY <1>0, <1>1, <1>2, <1>3, <1>5, <1>6, <1>7, <1>8, <1>9 DEF Next, CallerStep, WorkerStep

LEMMA InitConserved == Init => ItemsConserved
<1> SUFFICES ASSUME Init PROVE ItemsConserved
  OBVIOUS
<1>1. Queued = {} /\ Reported = {} /\ discarded = {} /\ DOMAIN channel = {}
        /\ left = ItemCount /\ \A w \in Workers : hand[w] = NoItem
  BY Beginnings DEF Init, Queued, Reported
<1>2. 1 .. (ItemCount - left) = {}
  BY <1>1, ManagerAssumption
<1> QED
  BY <1>1, <1>2 DEF ItemsConserved

\* No item is lost, and none is handed out or reported twice.
THEOREM PoolConservesItems == Spec => []ItemsConserved
BY InitTypeInv, StepTypeInv, InitConserved, StepConserved, PTL DEF Spec

\* The queue and the database are used by one worker at a time.
THEOREM PoolSharesByOne == Spec => []SharedByOne
BY PoolConservesItems, PoolOpensOnce, PTL DEF SharedByOne
-----------------------------------------------------------------------------
(* Draining and closing *)

\* `close` has joined the workers 1 .. joined, and knows the first of them that failed.
JoinInv ==
    /\ caller \in {"idle", "draining", "closing"} => joined = 0 /\ firstError = 0
    /\ caller = "returned" => joined = WorkerCount
    /\ \A w \in 1 .. joined : Finished(w)
    /\ firstError = 0 => \A w \in 1 .. joined : ~ Failed(w)
    /\ firstError # 0 => /\ firstError \in 1 .. joined
                         /\ Failed(firstError)
                         /\ \A w \in 1 .. (firstError - 1) : ~ Failed(w)

\* Until the receiver is dropped nothing is discarded, and a worker stops only because the
\* queue is empty; that remains so when the caller has seen the end of the channel.
DrainInv ==
    /\ caller = "idle" => receiver = "held"
    /\ caller = "draining" => receiver = "taken"
    /\ drained => /\ caller \notin {"idle", "draining"}
                  /\ receiver = "dropped"
                  /\ channel = <<>>
                  /\ \A w \in Workers : Finished(w)
    /\ receiver # "dropped" \/ drained =>
         /\ discarded = {}
         /\ \A w \in Workers : pc[w] = "stopped" => left = 0

\* A worker that has finished takes no more steps.
LEMMA FinishedStays ==
    ASSUME TypeInv, NEW w \in Workers, WorkerStep(w) \/ WorkerFails(w)
    PROVE  /\ ~ Finished(w)
           /\ \A v \in Workers : v # w => pc'[v] = pc[v]
<1> USE DEF TypeInv, TypeOK, Goto, Report, Finished
<1>1. CASE BeginOpen(w) \/ Open(w) \/ OpenFails(w) \/ UseDatabase(w) \/ Pop(w)
  BY <1>1 DEF BeginOpen, Open, OpenFails, UseDatabase, Pop
<1>2. CASE FetchBytes(w) \/ FetchForbidden(w) \/ FetchNothing(w)
  BY <1>2 DEF FetchBytes, FetchForbidden, FetchNothing
<1>3. CASE LogMismatch(w) \/ LogWithheld(w) \/ LogFails(w)
  BY <1>3 DEF LogMismatch, LogWithheld, LogFails
<1>4. CASE CreateFile(w) \/ PublishFile(w) \/ WriteFails(w)
  BY <1>4 DEF CreateFile, PublishFile, WriteFails
<1>5. CASE Send(w) \/ SendFails(w)
  BY <1>5 DEF Send, SendFails, EndTurn
<1> QED
  BY <1>1, <1>2, <1>3, <1>4, <1>5 DEF WorkerStep, WorkerFails

\* A worker's steps leave the caller alone, except that what it cannot send is discarded.
LEMMA WorkerKeepsCaller ==
    ASSUME NEW w \in Workers, WorkerStep(w) \/ WorkerFails(w)
    PROVE  UNCHANGED <<caller, receiver, drained, received, joined, firstError>>
BY DEF WorkerStep, WorkerFails, BeginOpen, Open, OpenFails, UseDatabase, Pop, FetchBytes,
       FetchForbidden, FetchNothing, LogMismatch, LogWithheld, LogFails, CreateFile,
       PublishFile, WriteFails, Send, SendFails, callerVars

LEMMA StepJoinInv == TypeInv /\ JoinInv /\ [Next]_vars => JoinInv'
<1> SUFFICES ASSUME TypeInv, JoinInv, [Next]_vars PROVE JoinInv'
  OBVIOUS
<1>0. 1 .. joined \subseteq Workers /\ joined \in Nat /\ firstError \in Nat
  BY ManagerAssumption DEF TypeInv, TypeOK, Workers
<1>1. ASSUME NEW w \in Workers, WorkerStep(w) \/ WorkerFails(w)
      PROVE  JoinInv'
  <2>1. \A v \in 1 .. joined : pc'[v] = pc[v]
    BY <1>0, <1>1, FinishedStays DEF JoinInv
  <2>2. UNCHANGED <<caller, joined, firstError>>
    BY <1>1, WorkerKeepsCaller
  <2>3. firstError # 0 => 1 .. (firstError - 1) \subseteq 1 .. joined
    BY <1>0 DEF JoinInv
  <2> QED
    BY <2>1, <2>2, <2>3 DEF JoinInv, Finished, Failed
<1>2. CASE TakeReceiver \/ Receive \/ EndOfChannel \/ StopDraining \/ BeginClose
  <2>1. /\ UNCHANGED <<pc, joined, firstError>>
        /\ caller \in {"idle", "draining", "closing"}
        /\ caller' \in {"draining", "closing", "joining"}
    BY <1>2 DEF TakeReceiver, Receive, EndOfChannel, StopDraining, BeginClose, workerVars
  <2> QED
    BY <2>1 DEF JoinInv, Finished, Failed
<1>3. CASE JoinNext
  <2>1. CASE joined = WorkerCount
    BY <1>3, <2>1 DEF JoinNext, JoinInv, Finished, Failed, workerVars
  <2>2. CASE joined # WorkerCount
    <3>1. joined' = joined + 1 /\ pc' = pc /\ caller' = caller /\ caller = "joining"
            /\ pc[joined + 1] \in {"stopped", "failed"}
            /\ firstError' = IF pc[joined + 1] = "failed" /\ firstError = 0
                             THEN joined + 1 ELSE firstError
      BY <1>3, <2>2 DEF JoinNext, Finished, workerVars
    <3>2. \A w : w \in 1 .. joined' <=> w \in 1 .. joined \/ w = joined + 1
      BY <1>0, <3>1
    <3>3. joined + 1 \in Nat \ {0} /\ joined + 1 - 1 = joined
      BY <1>0
    <3>4. \A w \in 1 .. joined' : Finished(w)'
      BY <3>1, <3>2 DEF JoinInv, Finished
    <3>5. CASE pc[joined + 1] = "failed" /\ firstError = 0
      <4>1. firstError' = joined + 1
        BY <3>1, <3>5
      <4> QED
        BY <3>1, <3>2, <3>3, <3>4, <3>5, <4>1 DEF JoinInv, Failed
    <3>6. CASE ~ (pc[joined + 1] = "failed" /\ firstError = 0)
      <4>1. firstError' = firstError
        BY <3>1, <3>6
      <4> QED
        BY <3>1, <3>2, <3>3, <3>4, <3>6, <4>1 DEF JoinInv, Failed
    <3> QED
      BY <3>5, <3>6
  <2> QED
    BY <2>1, <2>2
<1>4. CASE Restart
  BY <1>4 DEF Restart, JoinInv
<1>5. CASE UNCHANGED vars
  BY <1>5 DEF vars, JoinInv, Finished, Failed
<1> QED
  BY <1>1, <1>2, <1>3, <1>4, <1>5 DEF Next, CallerStep

\* When `close` returns every worker has finished, and it reports the first one that failed.
THEOREM PoolCloseIsTruthful == Spec => []CloseIsTruthful
<1>1. Init => JoinInv
  BY DEF Init, JoinInv
<1>2. TypeInv /\ JoinInv => CloseIsTruthful
  BY ManagerAssumption DEF TypeInv, TypeOK, JoinInv, CloseIsTruthful, Workers, Failed
<1> QED
  BY <1>1, <1>2, StepJoinInv, InitTypeInv, StepTypeInv, PTL DEF Spec

LEMMA StepDrainInv == TypeInv /\ DrainInv /\ [Next]_vars => DrainInv'
<1> SUFFICES ASSUME TypeInv, DrainInv, [Next]_vars PROVE DrainInv'
  OBVIOUS
<1>1. ASSUME NEW w \in Workers, WorkerStep(w) \/ WorkerFails(w)
      PROVE  DrainInv'
  <2>1. ~ drained /\ UNCHANGED <<caller, receiver, drained>>
    BY <1>1, FinishedStays, WorkerKeepsCaller DEF DrainInv
  <2>2. CASE receiver = "dropped"
    BY <2>1, <2>2 DEF DrainInv
  <2>3. CASE receiver # "dropped"
    <3>1. discarded' = discarded
      BY <1>1, <2>3 DEF WorkerStep, WorkerFails, BeginOpen, Open, OpenFails, UseDatabase, Pop,
         FetchBytes, FetchForbidden, FetchNothing, LogMismatch, LogWithheld, LogFails,
         CreateFile, PublishFile, WriteFails, Send, SendFails, callerVars
    <3>2. ASSUME NEW v \in Workers, pc'[v] = "stopped", v # w
          PROVE  left = 0
      BY <1>1, <2>3, <3>2, FinishedStays DEF DrainInv
    <3>3. pc'[w] = "stopped" => left = 0 /\ left' = left
      BY <1>1, <2>3 DEF WorkerStep, WorkerFails, BeginOpen, Open, OpenFails, UseDatabase, Pop,
         FetchBytes, FetchForbidden, FetchNothing, LogMismatch, LogWithheld, LogFails,
         CreateFile, PublishFile, WriteFails, Send, SendFails, EndTurn, Goto, Report, TypeInv,
         TypeOK
    <3>4. left = 0 => left' = 0
      BY <1>1 DEF WorkerStep, WorkerFails, BeginOpen, Open, OpenFails, UseDatabase, Pop,
         FetchBytes, FetchForbidden, FetchNothing, LogMismatch, LogWithheld, LogFails,
         CreateFile, PublishFile, WriteFails, Send, SendFails, queueVars
    <3> QED
      BY <2>1, <2>3, <3>1, <3>2, <3>3, <3>4 DEF DrainInv
  <2> QED
    BY <2>2, <2>3
<1>2. CASE TakeReceiver \/ Receive \/ JoinNext
  BY <1>2 DEF TakeReceiver, Receive, JoinNext, DrainInv, Finished, queueVars, workerVars
<1>3. CASE EndOfChannel
  BY <1>3 DEF EndOfChannel, DrainInv, Finished, queueVars, workerVars
<1>4. CASE StopDraining \/ BeginClose
  BY <1>4 DEF StopDraining, BeginClose, DropReceiver, DrainInv, Finished, workerVars
<1>5. CASE Restart
  BY <1>5 DEF Restart, DrainInv
<1>6. CASE UNCHANGED vars
  BY <1>6 DEF vars, DrainInv, Finished
<1> QED
  BY <1>1, <1>2, <1>3, <1>4, <1>5, <1>6 DEF Next, CallerStep

\* What was popped and neither received nor discarded is in the hands of a failed worker; what
\* was not popped shows that no worker stopped for want of work.
LEMMA DrainedAccounts == TypeInv /\ ItemsConserved /\ DrainInv => DrainAccounts
<1> SUFFICES ASSUME TypeInv, ItemsConserved, DrainInv, drained, NEW i \in Items
             PROVE  \/ i \in Reported
                    \/ \E w \in Workers : Failed(w) /\ hand[w] = i
                    \/ (\A w \in Workers : Failed(w)) /\ i > ItemCount - left
  BY DEF DrainAccounts
<1>1. i \in Nat /\ ItemCount \in Nat /\ left \in Nat /\ 1 <= i /\ i <= ItemCount
  BY ManagerAssumption DEF Items, TypeInv, TypeOK
<1>2. Queued = {} /\ discarded = {}
  BY Beginnings DEF DrainInv, Queued
<1>3. CASE i <= ItemCount - left
  <2>1. i \in InHand \cup Reported
    BY <1>1, <1>2, <1>3 DEF ItemsConserved, InHand
  <2> QED
    BY <2>1 DEF InHand, DrainInv, Finished, Failed, TypeInv, HandInv
<1>4. CASE i > ItemCount - left
  <2>1. left # 0
    BY <1>1, <1>4
  <2> QED
    BY <1>4, <2>1 DEF DrainInv, Finished, Failed
<1> QED
  BY <1>1, <1>3, <1>4

\* A caller that drains the channel can tell what became of every item.
THEOREM PoolAccounts == Spec => []DrainAccounts
<1>1. Init => DrainInv
  BY DEF Init, DrainInv
<1> QED
  BY <1>1, DrainedAccounts, StepDrainInv, InitTypeInv, StepTypeInv, InitConserved, StepConserved,
     PTL DEF Spec
=============================================================================
