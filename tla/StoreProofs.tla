---------------------------- MODULE StoreProofs ----------------------------
(***************************************************************************)
(* Proofs about FileStore for any number of savers, digests, contents and  *)
(* crashes, and about a copy into it and a verification of it that go on   *)
(* at once and next to them.  What a saver past the checks knows: its      *)
(* bytes were accepted, and its temporary file is whole when published.    *)
(* What was counted is tied to the directory as it is now, which is        *)
(* possible because an entry is never changed once it is there.            *)
(***************************************************************************)
EXTENDS StoreVerify, TLAPS

\* A saver in a call has arguments.
Called == \A s \in Savers : pc[s] # "idle" => request[s] \in Request

\* A saver past the digest check may store its bytes under its digest.
Accepted ==
    \A s \in Savers :
      pc[s] \in {"create", "write", "finish", "publish"} => ~ Mismatched(request[s])

\* What is about to be published is the whole of the bytes.
Finished == \A s \in Savers : pc[s] = "publish" => temp[s] = request[s].bytes

\* A saver has a temporary file only while it writes and publishes it.
Held == \A s \in Savers : temp[s] # NoTemp => pc[s] \in {"write", "finish", "publish"}

StoreInv ==
    /\ TypeOK
    /\ WholeFiles
    /\ Called
    /\ Accepted
    /\ Finished
    /\ Held
    /\ Authentic
    /\ NoLeakedTemp

LEMMA InitInv == Init => StoreInv
BY ContentsAssumption
DEF Init, StoreInv, TypeOK, WholeFiles, Called, Accepted, Finished, Held, Authentic, NoLeakedTemp, Answer, PC

LEMMA StepInv == StoreInv /\ [Next]_vars => StoreInv'
<1> USE DEF StoreInv
<1> SUFFICES ASSUME StoreInv, [Next]_vars
             PROVE  StoreInv'
    OBVIOUS
<1>1. ASSUME NEW s \in Savers, Call(s)
      PROVE  StoreInv'
  BY <1>1 DEF Call, Goto, TypeOK, WholeFiles, Called, Accepted, Finished, Held, Authentic, NoLeakedTemp, PC,
              Mismatched
<1>2. ASSUME NEW s \in Savers, Return(s)
      PROVE  StoreInv'
  BY <1>2 DEF Return, Goto, TypeOK, WholeFiles, Called, Accepted, Finished, Held, Authentic, NoLeakedTemp, PC,
              Answer, Mismatched
<1>3. ASSUME NEW s \in Savers, CheckExists(s)
      PROVE  StoreInv'
  BY <1>3 DEF CheckExists, Finish, Goto, TypeOK, WholeFiles, Called, Accepted, Finished, Held,
              Authentic, NoLeakedTemp, PC, Answer, Mismatched
<1>4. ASSUME NEW s \in Savers, CreateTemp(s)
      PROVE  StoreInv'
  BY <1>4 DEF CreateTemp, Finish, Goto, TypeOK, WholeFiles, Called, Accepted, Finished, Held,
              Authentic, NoLeakedTemp, PC, Answer, Mismatched
<1>5. ASSUME NEW s \in Savers, Write(s)
      PROVE  StoreInv'
  BY <1>5 DEF Write, Goto, TypeOK, WholeFiles, Called, Accepted, Finished, Held, Authentic, NoLeakedTemp, PC,
              Mismatched
<1>6. ASSUME NEW s \in Savers, FinishEncoder(s)
      PROVE  StoreInv'
  BY <1>6 DEF FinishEncoder, Goto, TypeOK, WholeFiles, Called, Accepted, Finished, Held,
              Authentic, NoLeakedTemp, PC, Mismatched, Request
<1>7. ASSUME NEW s \in Savers, PublishTaken(s)
      PROVE  StoreInv'
  BY <1>7 DEF PublishTaken, Finish, Goto, TypeOK, WholeFiles, Called, Accepted, Finished, Held,
              Authentic, NoLeakedTemp, PC, Answer, Mismatched
<1>8. ASSUME NEW s \in Savers, Publish(s)
      PROVE  StoreInv'
  <2> DEFINE d == request[s].digest
             b == request[s].bytes
  <2>1. d \in Digests /\ b \in Contents /\ request[s].verify \in BOOLEAN
    BY <1>8 DEF Publish, Called, Request
  <2>2. file' = [file EXCEPT ![d] = b]
    BY <1>8 DEF Publish, Finished, Digest
  <2>3. request[s].verify => DigestOf[b] = d
    BY <1>8 DEF Publish, Accepted, Mismatched
  <2>4. unverified' = IF request[s].verify THEN unverified ELSE unverified \cup {d}
    BY <1>8 DEF Publish, Digest
  <2>5. PICK a \in {"Success", "Error"} : Finish(s, a)
    BY <1>8 DEF Publish
  <2>6. TypeOK'
    BY <1>8, <2>1, <2>2, <2>4, <2>5 DEF Publish, Finish, Goto, TypeOK, PC, Answer
  <2>7. WholeFiles'
    BY <2>1, <2>2, ContentsAssumption DEF WholeFiles, TypeOK
  <2>8. Authentic'
    BY <2>1, <2>2, <2>3, <2>4 DEF Authentic, TypeOK
  <2>9. Called' /\ Accepted' /\ Finished' /\ Held' /\ NoLeakedTemp'
    BY <1>8, <2>5
    DEF Publish, Finish, Goto, TypeOK, Called, Accepted, Finished, Held, NoLeakedTemp, Mismatched
  <2> QED BY <2>6, <2>7, <2>8, <2>9
<1>9. ASSUME NEW s \in Savers, Fail(s)
      PROVE  StoreInv'
  BY <1>9 DEF Fail, Finish, Goto, TypeOK, WholeFiles, Called, Accepted, Finished, Held, Authentic, NoLeakedTemp,
              PC, Answer, Mismatched
<1>10. CASE Crash
  <2>1. \A s \in Savers : temp[s] # NoTemp => Digest(s) \in Digests
    BY DEF Held, Called, Digest, Request
  <2>2. TypeOK'
    <3>1. stale' \subseteq Digests
      BY <1>10, <2>1 DEF Crash, TypeOK
    <3>2. crashes' \in 0 .. MaxCrashes
      BY <1>10, ContentsAssumption DEF Crash, TypeOK
    <3>3. /\ file' = file /\ unverified' = unverified
          /\ temp' \in [Savers -> Contents \cup {Partial, NoTemp}]
          /\ pc' \in [Savers -> PC]
          /\ request' \in [Savers -> Request \cup {NoRequest}]
          /\ answer' \in [Savers -> Answer]
      BY <1>10 DEF Crash, PC, Answer
    <3> QED
      BY <3>1, <3>2, <3>3 DEF TypeOK
  <2>3. WholeFiles' /\ Authentic' /\ NoLeakedTemp'
    BY <1>10 DEF Crash, WholeFiles, Authentic, NoLeakedTemp, TypeOK
  <2>4. Called' /\ Accepted' /\ Finished' /\ Held'
    BY <1>10 DEF Crash, Called, Accepted, Finished, Held
  <2> QED
    BY <2>2, <2>3, <2>4
<1>11. CASE UNCHANGED vars
  BY <1>11 DEF vars, TypeOK, WholeFiles, Called, Accepted, Finished, Held, Authentic, NoLeakedTemp, Mismatched
<1> QED
  BY <1>1, <1>2, <1>3, <1>4, <1>5, <1>6, <1>7, <1>8, <1>9, <1>10, <1>11 DEF Next, Step

LEMMA SpecInv == Spec => []StoreInv
BY InitInv, StepInv, PTL DEF Spec

\* Every variable of the store keeps to its type, for every instance.
THEOREM StoreTypeCorrect == Spec => []TypeOK
BY SpecInv, PTL DEF StoreInv

\* A failed or interrupted write cannot leave a partial file at a content-addressed path.
THEOREM StoreWhole == Spec => []WholeFiles
BY SpecInv, PTL DEF StoreInv

\* Only a save without verification can store bytes under a digest they do not have.
THEOREM StoreAuthentic == Spec => []Authentic
BY SpecInv, PTL DEF StoreInv

\* Without a crash no save leaves a temporary file behind.
THEOREM StoreLeaksNothing == Spec => []NoLeakedTemp
BY SpecInv, PTL DEF StoreInv

\* The directory is sound at all times, for any savers, digests and contents.
THEOREM StoreIsSound == Spec => []DirectoryIsSound
BY StoreWhole, StoreAuthentic, StoreLeaksNothing, PTL DEF DirectoryIsSound

\* A step leaves the entries there are as they are.
LEMMA EntriesStay ==
    StoreInv /\ [Next]_vars => \A d \in Digests : file[d] # Missing => file'[d] = file[d]
<1> SUFFICES ASSUME StoreInv, [Next]_vars, NEW d \in Digests, file[d] # Missing
             PROVE  file'[d] = file[d]
    OBVIOUS
<1>1. ASSUME NEW s \in Savers, Publish(s)
      PROVE  file'[d] = file[d]
  BY <1>1 DEF Publish, Occupied, StoreInv, TypeOK
<1>2. CASE UNCHANGED file
  BY <1>2
<1> QED
  BY <1>1, <1>2 DEF Next, vars, Step, Call, Return, CheckExists, CreateTemp, Write, FinishEncoder,
                    PublishTaken, Fail, Crash

\* An entry, once visible, never changes and never goes away.
THEOREM StoreWriteOnce == Spec => WriteOnce
<1>1. StoreInv /\ [Next]_vars
        => [\A d \in Digests : file[d] # Missing => file'[d] = file[d]]_vars
  BY EntriesStay
<1> QED
  BY SpecInv, <1>1, PTL DEF Spec, WriteOnce

\* Of any number of racing savers, the one that is told `Success` wrote the entry.
THEOREM StoreSuccessWrites == Spec => SuccessWrites
<1> DEFINE Told(s) == pc[s] # "done" /\ pc'[s] = "done" /\ answer'[s] = "Success"
           Wrote(s) == file[Digest(s)] = Missing /\ file'[Digest(s)] = request[s].bytes
<1>1. StoreInv /\ [Next]_vars => [\A s \in Savers : Told(s) => Wrote(s)]_vars
  <2> SUFFICES ASSUME StoreInv, Next, NEW s \in Savers, Told(s)
               PROVE  Wrote(s)
    BY DEF vars
  <2> USE DEF StoreInv, TypeOK
  <2>1. ASSUME NEW t \in Savers, Publish(t)
        PROVE  Wrote(s)
    <3>1. t = s
      BY <2>1 DEF Publish, Finish, Goto
    <3>2. Digest(s) \in Digests
      BY <2>1, <3>1 DEF Publish, Called, Request, Digest
    <3> QED
      BY <2>1, <3>1, <3>2 DEF Publish, Occupied, Finished
  <2>2. ASSUME NEW t \in Savers,
               \/ Call(t) \/ Return(t) \/ CheckExists(t) \/ CreateTemp(t) \/ Write(t)
               \/ FinishEncoder(t) \/ PublishTaken(t) \/ Fail(t)
        PROVE  FALSE
    BY <2>2 DEF Call, Return, CheckExists, CreateTemp, Write, FinishEncoder, PublishTaken,
                Fail, Finish, Goto
  <2>3. CASE Crash
    BY <2>3 DEF Crash
  <2> QED
    BY <2>1, <2>2, <2>3 DEF Next, Step
<1> QED
  BY SpecInv, <1>1, PTL DEF Spec, SuccessWrites

\* FileStore implements ContentStore: each file-system step is a step of the abstract store or
\* leaves it alone.  (Fairness is not part of the abstract specification.)
THEOREM StoreRefines == Spec => ImplementsContentStore
<1> DEFINE Status(s) == CASE pc[s] = "idle" -> "idle"
                          [] pc[s] = "done" -> "answered"
                          [] OTHER -> "pending"
           status == [s \in Savers |-> Status(s)]
<1>1. Init => Abstract!Init
  BY DEF Init, Abstract!Init
<1>2. StoreInv /\ [Next]_vars => [Abstract!Next]_(Abstract!vars)
  <2> USE DEF StoreInv, TypeOK
  <2> SUFFICES ASSUME StoreInv, [Next]_vars
               PROVE  Abstract!Next \/ UNCHANGED Abstract!vars
    BY DEF Abstract!vars
  <2>1. ASSUME NEW s \in Savers, Call(s)
        PROVE  Abstract!Next
    <3>1. Abstract!Call(s)
      BY <2>1 DEF Call, Goto, Abstract!Call, PC, Request, Abstract!Request
    <3> QED
      BY <3>1 DEF Abstract!Next
  <2>2. ASSUME NEW s \in Savers, Return(s)
        PROVE  Abstract!Next
    <3>1. Abstract!Return(s)
      BY <2>2 DEF Return, Goto, Abstract!Return, PC
    <3> QED
      BY <3>1 DEF Abstract!Next
  <2>3. ASSUME NEW s \in Savers, NEW a, pc[s] \notin {"idle", "done"}, Finish(s, a),
               UNCHANGED request
        PROVE  Abstract!Answered(s, a)
    BY <2>3 DEF Finish, Goto, Abstract!Answered
  <2>4. ASSUME NEW s \in Savers, CheckExists(s)
        PROVE  Abstract!Next \/ UNCHANGED Abstract!vars
    <3>1. CASE Occupied(Digest(s))
      <4>1. Abstract!FindPresent(s)
        BY <2>3, <2>4, <3>1 DEF CheckExists, Occupied, Digest, Abstract!FindPresent
      <4> QED
        BY <4>1 DEF Abstract!Next
    <3>2. CASE ~ Occupied(Digest(s)) /\ Mismatched(request[s])
      <4>1. Abstract!RejectMismatch(s)
        BY <2>3, <2>4, <3>2
        DEF CheckExists, Occupied, Digest, Mismatched, Abstract!RejectMismatch, Abstract!Mismatched
      <4> QED
        BY <4>1 DEF Abstract!Next
    <3>3. CASE ~ Occupied(Digest(s)) /\ ~ Mismatched(request[s])
      BY <2>4, <3>3 DEF CheckExists, Goto, Abstract!vars, PC
    <3> QED
      BY <3>1, <3>2, <3>3
  <2>5. ASSUME NEW s \in Savers, CreateTemp(s)
        PROVE  Abstract!Next \/ UNCHANGED Abstract!vars
    <3>1. CASE Occupied(Digest(s))
      <4>1. Abstract!FindPresent(s)
        BY <2>3, <2>5, <3>1 DEF CreateTemp, Occupied, Digest, Abstract!FindPresent
      <4> QED
        BY <4>1 DEF Abstract!Next
    <3>2. CASE ~ Occupied(Digest(s))
      BY <2>5, <3>2 DEF CreateTemp, Goto, Abstract!vars, PC
    <3> QED
      BY <3>1, <3>2
  <2>6. ASSUME NEW s \in Savers, Write(s) \/ FinishEncoder(s)
        PROVE  UNCHANGED Abstract!vars
    BY <2>6 DEF Write, FinishEncoder, Goto, Abstract!vars, PC
  <2>7. ASSUME NEW s \in Savers, PublishTaken(s)
        PROVE  Abstract!Next
    <3>1. Abstract!FindPresent(s)
      BY <2>3, <2>7 DEF PublishTaken, Occupied, Digest, Abstract!FindPresent
    <3> QED
      BY <3>1 DEF Abstract!Next
  <2>8. ASSUME NEW s \in Savers, Publish(s)
        PROVE  Abstract!Next
    <3>1. Abstract!Create(s)
      BY <2>3, <2>8
      DEF Publish, Occupied, Digest, Accepted, Finished, Mismatched, Abstract!Create,
          Abstract!Mismatched
    <3> QED
      BY <3>1 DEF Abstract!Next
  <2>9. ASSUME NEW s \in Savers, Fail(s)
        PROVE  Abstract!Next
    <3>1. Abstract!Fail(s)
      BY <2>3, <2>9 DEF Fail, Abstract!Fail
    <3> QED
      BY <3>1 DEF Abstract!Next
  <2>10. CASE Crash
    <3>1. Abstract!Crash
      BY <2>10 DEF Crash, Abstract!Crash
    <3> QED
      BY <3>1 DEF Abstract!Next
  <2>11. CASE UNCHANGED vars
    BY <2>11 DEF vars, Abstract!vars
  <2> QED
    BY <2>1, <2>2, <2>4, <2>5, <2>6, <2>7, <2>8, <2>9, <2>10, <2>11 DEF Next, Step
<1> QED
  BY SpecInv, <1>1, <1>2, PTL DEF Spec, ImplementsContentStore, Abstract!Spec
-----------------------------------------------------------------------------
(* The walk of a copy and of a verification *)

\* What a call returns agrees with the directory until the caller takes it.
Answered ==
    \A s \in Savers :
      pc[s] = "done" =>
        /\ answer[s] = "Success" => /\ file[Digest(s)] = request[s].bytes
                                    /\ ~ Mismatched(request[s])
        /\ answer[s] = "AlreadyPresent" => file[Digest(s)] # Missing
        /\ answer[s] = "DigestMismatch" => Mismatched(request[s])

\* The copier is in a call only for the next entry of the source, which no counter has yet.
OnEntry ==
    pc[copier] # "idle" =>
      /\ copy = "walking"
      /\ Digest(copier) \in Entries \ Counted
      /\ request[copier] = CopyRequest(Digest(copier))

\* What the walk has counted as sound is there and sound, what it has reported is there and not.
Visited ==
    /\ \A d \in verified : file[d] # Missing /\ DigestOf[file[d]] = d
    /\ \A d \in errors : file[d] # Missing /\ DigestOf[file[d]] # d

WalkInv ==
    /\ StoreInv
    /\ VerifyTypeOK
    /\ Answered
    /\ OnEntry
    /\ CopyAccountsForAll
    /\ Visited
    /\ walk # "entry error"
    /\ walk = "done" => atStart \subseteq verified \cup errors

LEMMA RequestOfCopy ==
    ASSUME NEW d
    PROVE  /\ CopyRequest(d).digest = d
           /\ CopyRequest(d).bytes = Source[d]
           /\ CopyRequest(d).verify = CopyVerify
BY DEF CopyRequest

LEMMA WalkInit == VerifyInit => WalkInv
BY InitInv, CopyAssumption
DEF VerifyInit, CopyInit, Init, WalkInv, StoreInv, VerifyTypeOK, CopyTypeOK, Answered, OnEntry, CopyAccountsForAll,
    Visited, Counted, Entries, Disjoint

\* Whatever a copy, a walk or a saver does is a step of the store or leaves it alone.
LEMMA StepOfStore == WalkInv /\ [VerifyNext]_verifyVars => [Next]_vars
<1> SUFFICES ASSUME WalkInv, [VerifyNext]_verifyVars
             PROVE  [Next]_vars
    OBVIOUS
<1> USE CopyAssumption
<1>1. ASSUME NEW d \in Digests, SaveNext(d)
      PROVE  Call(copier)
  <2>1. CopyRequest(d) \in Request
    BY <1>1 DEF SaveNext, CopyRequest, Request, Entries
  <2> QED
    BY <1>1, <2>1 DEF SaveNext, Call
<1>2. ASSUME Copy
      PROVE  [Next]_vars
  BY <1>1, <1>2 DEF Copy, Begin, Saved, ReadFails, End, Next
<1>3. ASSUME NEW s \in Savers, Other(s)
      PROVE  Next
  BY <1>3 DEF Other, Next
<1>4. CrashCopy => Next
  BY DEF CrashCopy, Next
<1>5. Walk \/ UNCHANGED verifyVars => UNCHANGED vars
  BY DEF Walk, BeginWalk, VisitEntry, VisitTemp, VisitFails, EndWalk, verifyVars, allVars, vars
<1> QED
  BY <1>2, <1>3, <1>4, <1>5 DEF VerifyNext, CopyNext

LEMMA StoreInvKept == WalkInv /\ [VerifyNext]_verifyVars => StoreInv'
BY StepOfStore, StepInv DEF WalkInv

LEMMA AnsweredKept == WalkInv /\ [VerifyNext]_verifyVars => Answered'
<1> SUFFICES ASSUME WalkInv, [VerifyNext]_verifyVars
             PROVE  Answered'
    OBVIOUS
<1> USE DEF WalkInv
<1>1. [Next]_vars
  BY StepOfStore
<1>2. \A d \in Digests : file[d] # Missing => file'[d] = file[d]
  BY <1>1, EntriesStay
<1>3. \A s \in Savers : pc[s] = "done" => Digest(s) \in Digests /\ request[s].bytes # Missing
  BY ContentsAssumption DEF StoreInv, Called, Digest, Request
<1>4. ASSUME NEW s \in Savers,
             pc'[s] = "done" => pc[s] = "done" /\ answer'[s] = answer[s] /\ request'[s] = request[s]
      PROVE  pc'[s] = "done" =>
               /\ answer'[s] = "Success" => /\ file'[request'[s].digest] = request'[s].bytes
                                            /\ ~ Mismatched(request'[s])
               /\ answer'[s] = "AlreadyPresent" => file'[request'[s].digest] # Missing
               /\ answer'[s] = "DigestMismatch" => Mismatched(request'[s])
  BY <1>2, <1>3, <1>4 DEF Answered, Digest
<1> DEFINE Same(s) == pc'[s] = "done" =>
                        pc[s] = "done" /\ answer'[s] = answer[s] /\ request'[s] = request[s]
           True(s) == pc'[s] = "done" =>
               /\ answer'[s] = "Success" => /\ file'[request'[s].digest] = request'[s].bytes
                                            /\ ~ Mismatched(request'[s])
               /\ answer'[s] = "AlreadyPresent" => file'[request'[s].digest] # Missing
               /\ answer'[s] = "DigestMismatch" => Mismatched(request'[s])
<1>5. ASSUME NEW t \in Savers,
             Call(t) \/ Return(t) \/ Write(t) \/ FinishEncoder(t) \/ Fail(t),
             NEW s \in Savers
      PROVE  True(s)
  <2>1. Same(s) \/ answer'[s] = "Error"
    BY <1>5 DEF Call, Return, Write, FinishEncoder, Fail, Finish, Goto, StoreInv, TypeOK
  <2> QED
    BY <2>1, <1>4
<1>6. ASSUME NEW t \in Savers, CheckExists(t) \/ CreateTemp(t) \/ PublishTaken(t), NEW s \in Savers
      PROVE  True(s)
  <2>1. s # t => Same(s)
    BY <1>6 DEF CheckExists, CreateTemp, PublishTaken, Finish, Goto, StoreInv, TypeOK
  <2>2. s = t => True(s)
    BY <1>6 DEF CheckExists, CreateTemp, PublishTaken, Finish, Goto, StoreInv, TypeOK, Occupied, Digest
  <2> QED
    BY <2>1, <2>2, <1>4
<1>7. ASSUME NEW t \in Savers, Publish(t), NEW s \in Savers
      PROVE  True(s)
  <2>1. s # t => Same(s)
    BY <1>7 DEF Publish, Finish, Goto, StoreInv, TypeOK
  <2>2. request[t].digest \in Digests /\ temp[t] = request[t].bytes /\ ~ Mismatched(request[t])
    BY <1>7 DEF Publish, StoreInv, Called, Accepted, Finished, Request
  <2>3. s = t => True(s)
    BY <1>7, <2>2 DEF Publish, Finish, Goto, StoreInv, TypeOK, Digest
  <2> QED
    BY <2>1, <2>3, <1>4
<1>8. ASSUME Crash \/ UNCHANGED vars, NEW s \in Savers
      PROVE  True(s)
  <2>1. Same(s)
    BY <1>8 DEF Crash, vars
  <2> QED
    BY <2>1, <1>4
<1>9. \A s \in Savers : True(s)
  BY <1>1, <1>5, <1>6, <1>7, <1>8 DEF Next, Step
<1> QED
  BY <1>9 DEF Answered, Digest, Mismatched

LEMMA OnEntryKept == WalkInv /\ [VerifyNext]_verifyVars => OnEntry'
<1> SUFFICES ASSUME WalkInv, [VerifyNext]_verifyVars
             PROVE  OnEntry'
    OBVIOUS
<1> USE CopyAssumption DEF WalkInv, StoreInv, TypeOK
<1>1. ASSUME NEW d \in Digests, SaveNext(d)
      PROVE  OnEntry'
  <2>1. request'[copier] = CopyRequest(d) /\ d \in Entries \ Counted
    BY <1>1 DEF SaveNext
  <2>2. Digest(copier)' = d
    <3>1. request'[copier].digest = d
      BY <2>1, RequestOfCopy
    <3> QED
      BY <3>1 DEF Digest
  <2>3. copy' = "walking" /\ Counted' = Counted
    BY <1>1 DEF SaveNext, copyVars, Counted
  <2> QED
    BY <2>1, <2>2, <2>3 DEF OnEntry, CopyRequest, Entries
<1>2. CASE (Step(copier) \/ Fail(copier)) /\ UNCHANGED copyVars
  <2>1. pc[copier] # "idle" /\ request' = request
    BY <1>2 DEF Step, CheckExists, CreateTemp, Write, FinishEncoder, PublishTaken, Publish, Fail
  <2>2. Counted' = Counted /\ copy' = copy
    BY <1>2 DEF copyVars, Counted
  <2> QED
    BY <2>1, <2>2 DEF OnEntry, Digest, CopyRequest, Entries
<1>3. CASE Begin \/ ReadFails \/ End
  <2>1. pc'[copier] = "idle"
    BY <1>3 DEF Begin, ReadFails, End, vars, OnEntry
  <2> QED
    BY <2>1 DEF OnEntry
<1>4. CASE Saved
  <2>1. pc'[copier] = "idle"
    BY <1>4 DEF Saved, Return, Goto
  <2> QED
    BY <2>1 DEF OnEntry
<1>5. CASE CrashCopy
  <2>1. pc'[copier] = "idle"
    BY <1>5 DEF CrashCopy, Crash
  <2> QED
    BY <2>1 DEF OnEntry
<1>6. ASSUME NEW s \in Savers \ {copier}, Other(s)
      PROVE  OnEntry'
  <2>1. pc'[copier] = pc[copier] /\ request'[copier] = request[copier]
    BY <1>6 DEF Other, Call, Return, Step, CheckExists, CreateTemp, Write, FinishEncoder,
                PublishTaken, Publish, Fail, Finish, Goto
  <2>2. Counted' = Counted /\ copy' = copy
    BY <1>6 DEF Other, copyVars, Counted
  <2> QED
    BY <2>1, <2>2 DEF OnEntry, Digest, CopyRequest, Entries
<1>7. CASE Walk \/ UNCHANGED verifyVars
  <2>1. pc' = pc /\ request' = request /\ copy' = copy /\ Counted' = Counted
    BY <1>7 DEF Walk, BeginWalk, VisitEntry, VisitTemp, VisitFails, EndWalk, verifyVars, allVars,
                Counted
  <2> QED
    BY <2>1 DEF OnEntry, Digest, CopyRequest, Entries
<1> QED
  BY <1>1, <1>2, <1>3, <1>4, <1>5, <1>6, <1>7 DEF VerifyNext, CopyNext, Copy

\* The counters of a copy keep to the directory, and a new entry goes into one of them.
LEMMA CountersKept == WalkInv /\ [VerifyNext]_verifyVars => CopyTypeOK' /\ CopyAccountsForAll'
<1> SUFFICES ASSUME WalkInv, [VerifyNext]_verifyVars
             PROVE  CopyTypeOK' /\ CopyAccountsForAll'
    OBVIOUS
<1> USE CopyAssumption DEF WalkInv
<1>1. TypeOK'
  BY StoreInvKept DEF StoreInv
<1>2. \A d \in Digests : file[d] # Missing => file'[d] = file[d]
  BY StepOfStore, EntriesStay
<1>3. \A d \in Entries : d \in Digests /\ Source[d] # Missing
  BY DEF Entries
<1>4. copied \subseteq Entries /\ skipped \subseteq Entries /\ mismatched \subseteq Entries
  BY DEF VerifyTypeOK, CopyTypeOK
<1>5. CASE Begin \/ CrashCopy
  <2>1. copied' = {} /\ skipped' = {} /\ mismatched' = {} /\ copy' \in {"idle", "walking"}
    BY <1>5 DEF Begin, CrashCopy
  <2> QED
    BY <1>1, <2>1 DEF CopyTypeOK, CopyAccountsForAll, Disjoint
<1>6. CASE Saved
  <2> DEFINE e == Digest(copier)
  <2>1. pc[copier] = "done" /\ copy = "walking" /\ file' = file /\ copy' \in {"walking", "failed"}
    BY <1>6 DEF Saved, Return
  <2>2. e \in Entries \ Counted /\ request[copier] = CopyRequest(e)
    BY <2>1 DEF OnEntry
  <2>3. /\ answer[copier] = "Success" => /\ file[e] = Source[e]
                                         /\ CopyVerify => DigestOf[file[e]] = e
        /\ answer[copier] = "AlreadyPresent" => file[e] # Missing
        /\ answer[copier] = "DigestMismatch" => CopyVerify /\ DigestOf[Source[e]] # e
    <3>1. /\ request[copier].bytes = Source[e]
          /\ Mismatched(request[copier]) <=> CopyVerify /\ DigestOf[Source[e]] # e
      BY <2>2, RequestOfCopy, ZenonT(30) DEF Mismatched
    <3> QED
      BY <2>1, <3>1 DEF Answered
  <2>4. Count
    BY <1>6 DEF Saved
  <2>5. copied' \subseteq Entries /\ skipped' \subseteq Entries /\ mismatched' \subseteq Entries
    BY <1>4, <2>2, <2>4 DEF Count
  <2>6. Disjoint(copied', skipped') /\ Disjoint(copied' \cup skipped', mismatched')
    BY <2>2, <2>4, ZenonT(30) DEF Count, CopyAccountsForAll, Disjoint, Counted
  <2>7. /\ \A d \in copied' : file'[d] = Source[d] /\ (CopyVerify => DigestOf[file'[d]] = d)
        /\ \A d \in skipped' : file'[d] # Missing
        /\ \A d \in mismatched' : CopyVerify /\ DigestOf[Source[d]] # d
    BY <2>1, <2>3, <2>4 DEF Count, CopyAccountsForAll
  <2> QED
    BY <1>1, <2>1, <2>5, <2>6, <2>7 DEF CopyTypeOK, CopyAccountsForAll
<1>7. CASE UNCHANGED <<copied, skipped, mismatched>> /\ (copy' = "done" => copy = "done" \/ End)
           /\ copy' \in {"idle", "walking", "done", "failed"}
  <2>1. \A d \in copied : file'[d] = file[d]
    BY <1>2, <1>3, <1>4 DEF CopyAccountsForAll
  <2>2. \A d \in skipped : file'[d] = file[d]
    BY <1>2, <1>3, <1>4 DEF CopyAccountsForAll
  <2>3. copy' = "done" => Counted = Entries
    BY <1>4, <1>7 DEF End, CopyAccountsForAll, Counted
  <2>4. Counted' = Counted /\ Entries' = Entries
    BY <1>7 DEF Counted, Entries
  <2> QED
    BY <1>1, <1>4, <1>7, <2>1, <2>2, <2>3, <2>4 DEF CopyTypeOK, CopyAccountsForAll, Disjoint
<1>8. copy \in {"idle", "walking", "done", "failed"}
  BY DEF VerifyTypeOK, CopyTypeOK
<1>9. ASSUME \/ \E d \in Digests : SaveNext(d)
             \/ (Step(copier) \/ Fail(copier)) /\ UNCHANGED copyVars
             \/ ReadFails
             \/ End
             \/ \E s \in Savers \ {copier} : Other(s)
             \/ Walk
             \/ UNCHANGED verifyVars
      PROVE  /\ UNCHANGED <<copied, skipped, mismatched>>
             /\ copy' = "done" => copy = "done" \/ End
             /\ copy' \in {"idle", "walking", "done", "failed"}
  BY <1>8, <1>9 DEF SaveNext, ReadFails, End, Other, copyVars, Walk, BeginWalk, VisitEntry, VisitTemp,
                    VisitFails, EndWalk, verifyVars, allVars
<1> QED
  BY <1>5, <1>6, <1>7, <1>9 DEF VerifyNext, CopyNext, Copy

\* The walk counts what it finds, and no later step of anyone proves it wrong.
LEMMA WalkKept ==
    WalkInv /\ [VerifyNext]_verifyVars
      => /\ VerifyTypeOK'
         /\ Visited'
         /\ (walk # "entry error")'
         /\ (walk = "done" => atStart \subseteq verified \cup errors)'
<1> SUFFICES ASSUME WalkInv, [VerifyNext]_verifyVars
             PROVE  /\ VerifyTypeOK'
                    /\ Visited'
                    /\ walk' # "entry error"
                    /\ walk' = "done" => atStart' \subseteq verified' \cup errors'
    OBVIOUS
<1> USE DEF WalkInv
<1>1. CopyTypeOK'
  BY CountersKept
<1>2. \A d \in Digests : file[d] # Missing => file'[d] = file[d]
  BY StepOfStore, EntriesStay
<1>3. CASE UNCHANGED walkVars
  BY <1>1, <1>2, <1>3 DEF walkVars, VerifyTypeOK, Visited
<1>4. CASE BeginWalk
  BY <1>1, <1>4 DEF BeginWalk, Present, VerifyTypeOK, Visited, allVars
<1>5. ASSUME NEW d \in Digests, VisitEntry(d)
      PROVE  /\ VerifyTypeOK'
             /\ Visited'
             /\ walk' # "entry error"
             /\ walk' = "done" => atStart' \subseteq verified' \cup errors'
  BY <1>1, <1>5 DEF VisitEntry, HashesToName, Present, VerifyTypeOK, Visited, allVars
<1>6. ASSUME NEW d \in Digests, VisitTemp(d)
      PROVE  /\ VerifyTypeOK'
             /\ Visited'
             /\ walk' # "entry error"
             /\ walk' = "done" => atStart' \subseteq verified' \cup errors'
  BY <1>1, <1>6 DEF VisitTemp, Skips, VerifyTypeOK, Visited, allVars
<1>7. CASE VisitFails \/ EndWalk
  BY <1>1, <1>7 DEF VisitFails, EndWalk, VerifyTypeOK, Visited, allVars
<1>8. UNCHANGED verifyVars => UNCHANGED walkVars
  BY DEF verifyVars, walkVars
<1> QED
  BY <1>3, <1>4, <1>5, <1>6, <1>7, <1>8 DEF VerifyNext, Walk

LEMMA WalkStep == WalkInv /\ [VerifyNext]_verifyVars => WalkInv'
BY StoreInvKept, AnsweredKept, OnEntryKept, CountersKept, WalkKept DEF WalkInv

LEMMA WalkSpecInv == VerifySpec => []WalkInv
BY WalkInit, WalkStep, PTL DEF VerifySpec

\* Every variable of a copy and of a walk keeps to its type.
THEOREM WalkTypeCorrect == VerifySpec => []VerifyTypeOK
BY WalkSpecInv, PTL DEF WalkInv

\* A finished copy has put every source entry into exactly one counter, and each counter tells the
\* truth about the target, next to any number of savers, crashes and walks (Store::copy).
THEOREM CopyAccounts == VerifySpec => []CopyAccountsForAll
BY WalkSpecInv, PTL DEF WalkInv

\* A finished verification has judged every entry there was, what it said stays true, and what it
\* reports was saved without verification (Store::verify).
THEOREM VerificationCovers == VerifySpec => []VerifyCovers
<1>1. WalkInv => VerifyCovers
  <2> SUFFICES ASSUME WalkInv
               PROVE  VerifyCovers
      OBVIOUS
  <2>1. \A d \in errors : d \in Digests /\ file[d] \in Contents
    BY DEF WalkInv, Visited, VerifyTypeOK, StoreInv, TypeOK, WholeFiles
  <2>2. \A d \in errors : d \in unverified
    BY <2>1 DEF WalkInv, Visited, StoreInv, Authentic
  <2>3. verified \cup errors \subseteq Present
    BY DEF WalkInv, Visited, VerifyTypeOK, Present
  <2> QED
    BY <2>2, <2>3 DEF WalkInv, Visited, VerifyCovers
<1> QED
  BY WalkSpecInv, <1>1, PTL
=============================================================================
