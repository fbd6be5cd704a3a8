------------------------------- MODULE CdxProofs ------------------------------
(***************************************************************************)
(* Proofs about CdxIndex for any number of callers, keys, digests and      *)
(* items: the digest index is sound in every state that a commit or a      *)
(* reading can show, and an import misses nothing it was shown; and about  *)
(* CdxClaims: claims of an item exclude each other.                        *)
(***************************************************************************)
EXTENDS CdxIndex, CdxClaims, TLAPS, WellFoundedInduction

LEMMA KeysAreNumbers == \A n \in Keys \cup {0} : n \in Nat
<1>1. Keys \subseteq Nat
    BY IndexAssumption
<1> QED BY <1>1

\* A reading visits the keys it has left from the smallest one on.
LEMMA FirstIsSmallest ==
    ASSUME NEW S \in SUBSET Keys, S # {}
    PROVE  First(S) \in S /\ \A j \in S : First(S) <= j
<1>1. S \subseteq Nat
    BY IndexAssumption
<1>2. \E k \in S : \A j \in S : ~ (<<j, k>> \in OpToRel(<, Nat))
    BY <1>1, NatLessThanWellFounded, WFMin
<1>3. PICK k \in S : \A j \in S : ~ (<<j, k>> \in OpToRel(<, Nat))
    BY <1>2
<1>4. \A j \in S : ~ (j < k)
    BY <1>1, <1>3 DEF OpToRel
<1>5. \A j \in S : k <= j
    BY <1>1, <1>4
<1> QED BY <1>5 DEF First

LEMMA LeftIsKeys ==
    ASSUME NEW c \in Callers, Left(c) # {}
    PROVE  /\ First(Left(c)) \in Left(c) /\ First(Left(c)) \in Keys
           /\ \A j \in Left(c) : First(Left(c)) <= j
<1>1. Left(c) \in SUBSET Keys
    BY DEF Left
<1> QED BY <1>1, FirstIsSmallest

LEMMA EmptyIsTable ==
    Empty \in Table /\ IndexSound(Empty)
<1>1. Empty \in Table
    BY DEF Empty, Table
<1>2. IndexSound(Empty)
    BY DEF Empty, IndexSound
<1> QED BY <1>1, <1>2

-----------------------------------------------------------------------------
(* The inductive invariant *)

\* An import asks for every item.
ImportsAskForAll == \A c \in Callers : pc[c] = "importing" => asked[c] = All

\* Whatever a commit would make visible, or a reading sees, is sound.
DraftsAndViewsAreSound == IndexSound(draft) /\ \A c \in Callers : IndexSound(view[c])

\* An import has recorded the capture of every item up to the key it has come to.
Recorded(c, k) ==
    LET value == view[c].items[k] IN
      value # Missing /\ value.digest # NoDigest
        => <<TimeOf[k], value.original>> \in captures[value.digest]
RecordedSoFar ==
    \A c \in Callers : pc[c] = "importing" => \A k \in Keys : k <= at[c] => Recorded(c, k)

IInv ==
    /\ TypeOK
    /\ ImportsAskForAll
    /\ IndexIsSound
    /\ DraftsAndViewsAreSound
    /\ RecordedSoFar
    /\ ImportIsComplete
-----------------------------------------------------------------------------
(* Types *)

LEMMA IndexTypeInit == Init => TypeOK
BY EmptyIsTable DEF Init, TypeOK, Empty, Table

LEMMA CloseKeepsTypes ==
    ASSUME TypeOK, NEW C \in SUBSET Callers, CloseReadings(C)
    PROVE  /\ asked' \in [Callers -> Digests \cup {All}]
           /\ view' \in [Callers -> Table]
           /\ at' \in [Callers -> Keys \cup {0}]
           /\ result' \in [Callers -> SUBSET (Keys \X Value)]
BY EmptyIsTable DEF TypeOK, CloseReadings

LEMMA IndexTypeStep == TypeOK /\ ImportsAskForAll /\ [Next]_vars => TypeOK'
<1> SUFFICES ASSUME TypeOK, ImportsAskForAll, [Next]_vars
             PROVE  TypeOK'
    OBVIOUS
<1> USE DEF tables, writing, reading
<1>1. ASSUME NEW c \in Callers, BeginWrite(c)
      PROVE  TypeOK'
  <2>1. \A b \in Batches : b \in Seq(ItemRecord)
      BY IndexAssumption
  <2>2. rest' \in [Callers -> Seq(ItemRecord)]
      BY <1>1, <2>1 DEF BeginWrite, TypeOK
  <2>3. draft' \in Table
      BY <1>1 DEF BeginWrite, TypeOK, Table
  <2>4. pc' \in [Callers -> {"idle", "inserting", "reading", "answered", "importing", "imported"}]
        /\ calls' \in [Callers -> Nat]
      BY <1>1 DEF BeginWrite, Begin, TypeOK
  <2> QED BY <1>1, <2>2, <2>3, <2>4 DEF BeginWrite, TypeOK
<1>2. ASSUME NEW c \in Callers, InsertItem(c)
      PROVE  TypeOK'
  <2>1. rest[c] \in Seq(ItemRecord) /\ rest[c] # <<>>
      BY <1>2 DEF InsertItem, TypeOK
  <2>2. Head(rest[c]) \in ItemRecord /\ Tail(rest[c]) \in Seq(ItemRecord)
      BY <2>1
  <2>3. rest' \in [Callers -> Seq(ItemRecord)]
      BY <1>2, <2>2 DEF InsertItem, TypeOK
  <2>4. draft' \in Table
    <3> DEFINE i == Head(rest[c])
    <3>1. i.key \in Keys /\ ValueOf(i) \in Value
        BY <2>2 DEF ItemRecord, ValueOf, Value
    <3>2. [draft.items EXCEPT ![i.key] = ValueOf(i)] \in [Keys -> Value \cup {Missing}]
        BY <3>1 DEF TypeOK, Table
    <3>3. (IF Indexed(i) THEN draft.digests \cup {<<i.digest, i.key>>} ELSE draft.digests)
            \subseteq Digests \X Keys
      <4>1. i.digest \in Digests \cup {NoDigest}
          BY <2>2 DEF ItemRecord
      <4>2. draft.digests \subseteq Digests \X Keys
          BY DEF TypeOK, Table
      <4> QED BY <3>1, <4>1, <4>2 DEF Indexed
    <3> QED BY <1>2, <3>2, <3>3 DEF InsertItem, Table
  <2> QED BY <1>2, <2>3, <2>4 DEF InsertItem, TypeOK
<1>3. ASSUME NEW c \in Callers, InsertFails(c) \/ Commit(c)
      PROVE  TypeOK'
  <2>1. /\ holder' \in Callers \cup {Nobody} /\ draft' \in Table
        /\ pc' \in [Callers -> {"idle", "inserting", "reading", "answered", "importing", "imported"}]
        /\ rest' \in [Callers -> Seq(ItemRecord)]
    <3>1. <<>> \in Seq(ItemRecord)
        OBVIOUS
    <3> QED BY <1>3, <3>1, EmptyIsTable DEF InsertFails, Commit, Dropped, Goto, TypeOK
  <2>2. items' \in [Keys -> Value \cup {Missing}] /\ digests' \subseteq Digests \X Keys
      BY <1>3 DEF InsertFails, Commit, TypeOK, Table
  <2> QED BY <1>3, <2>1, <2>2 DEF InsertFails, Commit, TypeOK
<1>4. ASSUME NEW c \in Callers, NEW d \in Digests \cup {All}, NEW step \in {"reading", "importing"},
             BeginRead(c, step, d)
      PROVE  TypeOK'
  <2>1. [items |-> items, digests |-> digests] \in Table
      BY DEF TypeOK, Table
  <2> QED BY <1>4, <2>1 DEF BeginRead, Begin, TypeOK
<1>5. ASSUME NEW c \in Callers, ReadNext(c)
      PROVE  TypeOK'
  <2> DEFINE k == First(Left(c))
  <2>1. k \in Keys
      BY <1>5, LeftIsKeys DEF ReadNext
  <2>2. at' \in [Callers -> Keys \cup {0}]
      BY <1>5, <2>1 DEF ReadNext, Visit, TypeOK
  <2>3. <<k, view[c].items[k]>> \in Keys \X Value
      BY <1>5, <2>1 DEF ReadNext, TypeOK, Table
  <2>4. result' \in [Callers -> SUBSET (Keys \X Value)]
      BY <1>5, <2>3 DEF ReadNext, TypeOK
  <2> QED BY <1>5, <2>2, <2>4 DEF ReadNext, TypeOK
<1>6. ASSUME NEW c \in Callers, ReadEnds(c) \/ ImportEnds(c)
      PROVE  TypeOK'
    BY <1>6 DEF ReadEnds, ImportEnds, Goto, TypeOK
<1>7. ASSUME NEW c \in Callers, ReadFails(c) \/ Return(c)
      PROVE  TypeOK'
  <2>1. CloseReadings({c})
      BY <1>7 DEF ReadFails, Return
  <2> QED BY <1>7, <2>1, CloseKeepsTypes DEF ReadFails, Return, Goto, TypeOK
<1>8. ASSUME NEW c \in Callers, ImportNext(c)
      PROVE  TypeOK'
  <2> DEFINE k == First(Left(c))
             value == view[c].items[k]
  <2>1. k \in Keys
      BY <1>8, LeftIsKeys DEF ImportNext
  <2>2. at' \in [Callers -> Keys \cup {0}]
      BY <1>8, <2>1 DEF ImportNext, Visit, TypeOK
  <2>3. captures' \in [Digests -> SUBSET Capture]
    <3>1. CASE value.digest = NoDigest
        BY <1>8, <3>1 DEF ImportNext, TypeOK
    <3>2. CASE value.digest # NoDigest
      <4>1. <<TimeOf[k], value.original>> \in Capture
        <5>1. k \in Left(c)
            BY <1>8, LeftIsKeys DEF ImportNext
        <5>2. value # Missing
          <6>1. asked[c] = All
              BY <1>8 DEF ImportNext, ImportsAskForAll
          <6> QED BY <5>1, <6>1 DEF Left
        <5> QED BY <2>1, <5>2 DEF TypeOK, Table, Value, Capture
      <4>2. captures' = [captures EXCEPT ![value.digest] = @ \cup {<<TimeOf[k], value.original>>}]
          BY <1>8, <3>2 DEF ImportNext, MergeEntries
      <4> HIDE DEF k, value
      <4> QED BY <4>1, <4>2 DEF TypeOK
    <3> QED BY <3>1, <3>2
  <2> QED BY <1>8, <2>2, <2>3 DEF ImportNext, TypeOK
<1>9. ASSUME NEW c \in Callers, FillMetadata(c)
      PROVE  TypeOK'
    BY <1>9 DEF FillMetadata, Begin, TypeOK
<1>10. CASE Crash
  <2>1. CloseReadings(Callers)
      BY <1>10 DEF Crash
  <2>2. <<>> \in Seq(ItemRecord)
      OBVIOUS
  <2> QED BY <1>10, <2>1, <2>2, CloseKeepsTypes, EmptyIsTable DEF Crash, TypeOK
<1>11. CASE UNCHANGED vars
    BY <1>11 DEF vars, TypeOK
<1> QED
    BY <1>1, <1>2, <1>3, <1>4, <1>5, <1>6, <1>7, <1>8, <1>9, <1>10, <1>11 DEF Next
-----------------------------------------------------------------------------
(* The tables and their index *)

\* Soundness lasts when an item is written and its digest, if it is one, indexed.
LEMMA WritingKeepsSound ==
    ASSUME NEW t \in Table, IndexSound(t), NEW i \in ItemRecord
    PROVE  IndexSound([items |-> [t.items EXCEPT ![i.key] = ValueOf(i)],
                       digests |-> IF Indexed(i) THEN t.digests \cup {<<i.digest, i.key>>}
                                   ELSE t.digests])
<1> DEFINE table == [items |-> [t.items EXCEPT ![i.key] = ValueOf(i)],
                     digests |-> IF Indexed(i) THEN t.digests \cup {<<i.digest, i.key>>}
                                 ELSE t.digests]
<1>1. /\ i.key \in Keys /\ i.digest \in Digests \cup {NoDigest}
      /\ ValueOf(i) \in Value /\ ValueOf(i).digest = i.digest /\ ValueOf(i) # Missing
    BY IndexAssumption DEF ItemRecord, ValueOf, Value
<1>2. t.items \in [Keys -> Value \cup {Missing}]
    BY DEF Table
<1>3. \A k \in Keys : table.items[k] = IF k = i.key THEN ValueOf(i) ELSE t.items[k]
    BY <1>1, <1>2
<1>4. ASSUME NEW k \in Keys, table.items[k] # Missing, table.items[k].digest # NoDigest
      PROVE  <<table.items[k].digest, k>> \in table.digests
  <2>1. CASE k = i.key
    <3>1. table.items[k].digest = i.digest
        BY <1>1, <1>3, <2>1
    <3>2. Indexed(i)
        BY <1>4, <3>1 DEF Indexed
    <3> QED BY <2>1, <3>1, <3>2
  <2>2. CASE k # i.key
    <3>1. table.items[k] = t.items[k]
        BY <1>3, <2>2
    <3>2. <<t.items[k].digest, k>> \in t.digests
        BY <1>4, <3>1 DEF IndexSound
    <3> QED BY <3>1, <3>2
  <2> QED BY <2>1, <2>2
<1>5. ASSUME NEW d \in Digests, NEW k \in Keys, <<d, k>> \in table.digests
      PROVE  table.items[k] # Missing
  <2>1. CASE k = i.key
      BY <1>1, <1>3, <2>1
  <2>2. CASE k # i.key
    <3>1. <<d, k>> \in t.digests
        BY <1>5, <2>2
    <3> QED BY <1>3, <2>2, <3>1 DEF IndexSound
  <2> QED BY <2>1, <2>2
<1>6. IndexSound(table)
    BY <1>4, <1>5 DEF IndexSound
<1> QED BY <1>6

LEMMA SoundStep ==
    TypeOK /\ IndexIsSound /\ DraftsAndViewsAreSound /\ [Next]_vars
      => IndexIsSound' /\ DraftsAndViewsAreSound'
<1> SUFFICES ASSUME TypeOK, IndexIsSound, DraftsAndViewsAreSound, [Next]_vars
             PROVE  IndexIsSound' /\ DraftsAndViewsAreSound'
    OBVIOUS
<1> USE DEF tables, writing, reading
\* What a step does to the committed tables, the draft and the views.
<1>1. ASSUME UNCHANGED tables \/ (items' = draft.items /\ digests' = draft.digests)
      PROVE  IndexIsSound'
    BY <1>1 DEF IndexIsSound, DraftsAndViewsAreSound, IndexSound
<1>2. ASSUME NEW c \in Callers, InsertItem(c)
      PROVE  IndexSound(draft')
  <2>1. rest[c] \in Seq(ItemRecord) /\ rest[c] # <<>>
      BY <1>2 DEF InsertItem, TypeOK
  <2>2. Head(rest[c]) \in ItemRecord
      BY <2>1
  <2>3. draft \in Table /\ IndexSound(draft)
      BY DEF TypeOK, DraftsAndViewsAreSound
  <2> QED BY <1>2, <2>2, <2>3, WritingKeepsSound DEF InsertItem
<1>3. ASSUME draft' \in {draft, Empty, [items |-> items, digests |-> digests]}
      PROVE  IndexSound(draft')
    BY <1>3, EmptyIsTable DEF IndexIsSound, DraftsAndViewsAreSound
<1>4. ASSUME \A c \in Callers :
               view'[c] \in {view[c], Empty, [items |-> items, digests |-> digests]}
      PROVE  \A c \in Callers : IndexSound(view'[c])
    BY <1>4, EmptyIsTable DEF IndexIsSound, DraftsAndViewsAreSound
<1>5. IndexIsSound'
  <2>1. UNCHANGED tables \/ (items' = draft.items /\ digests' = draft.digests)
      BY DEF Next, vars, BeginWrite, InsertItem, InsertFails, Commit, BeginRead, ReadNext,
             ReadEnds, ReadFails, Return, ImportNext, ImportEnds, FillMetadata, Crash
  <2> QED BY <1>1, <2>1
<1>6. IndexSound(draft')
  <2>1. \/ \E c \in Callers : InsertItem(c)
        \/ draft' \in {draft, Empty, [items |-> items, digests |-> digests]}
      BY DEF Next, vars, BeginWrite, InsertFails, Commit, Dropped, BeginRead, ReadNext,
             ReadEnds, ReadFails, Return, ImportNext, ImportEnds, FillMetadata, Crash
  <2> QED BY <1>2, <1>3, <2>1
<1>7. \A c \in Callers : IndexSound(view'[c])
  <2>1. ASSUME NEW c \in Callers
        PROVE  view'[c] \in {view[c], Empty, [items |-> items, digests |-> digests]}
    <3>1. view \in [Callers -> Table]
        BY DEF TypeOK
    <3> QED BY <3>1 DEF Next, vars, BeginWrite, InsertItem, InsertFails, Commit, BeginRead,
               CloseReadings, ReadNext, ReadEnds, ReadFails, Return, ImportNext, ImportEnds,
               FillMetadata, Crash
  <2> QED BY <1>4, <2>1
<1> QED
  <2>1. DraftsAndViewsAreSound'
      BY <1>6, <1>7 DEF DraftsAndViewsAreSound, IndexSound
  <2> QED BY <1>5, <2>1
-----------------------------------------------------------------------------
(* The captures *)

\* A step records captures and takes none away.
LEMMA CapturesGrow ==
    ASSUME TypeOK, [Next]_vars
    PROVE  \A d \in Digests : captures[d] \subseteq captures'[d]
<1> SUFFICES ASSUME NEW d \in Digests
             PROVE  captures[d] \subseteq captures'[d]
    OBVIOUS
<1> USE DEF tables, writing, reading
<1>1. captures \in [Digests -> SUBSET Capture]
    BY DEF TypeOK
<1>2. ASSUME NEW c \in Callers, ImportNext(c)
      PROVE  captures[d] \subseteq captures'[d]
    BY <1>1, <1>2 DEF ImportNext, MergeEntries
<1>3. ASSUME NEW c \in Callers, FillMetadata(c)
      PROVE  captures[d] \subseteq captures'[d]
    BY <1>1, <1>3 DEF FillMetadata
<1>4. \/ \E c \in Callers : ImportNext(c) \/ FillMetadata(c)
      \/ UNCHANGED captures
    BY DEF Next, vars, BeginWrite, InsertItem, InsertFails, Commit, BeginRead, ReadNext,
           ReadEnds, ReadFails, Return, ImportEnds, Crash
<1> QED BY <1>2, <1>3, <1>4

\* What is recorded of a view stays recorded while the view stays.
LEMMA RecordedLasts ==
    ASSUME TypeOK, [Next]_vars, NEW c \in Callers, NEW k \in Keys,
           view'[c] = view[c], Recorded(c, k)
    PROVE  Recorded(c, k)'
<1> DEFINE value == view[c].items[k]
<1>1. view[c].items[k]' = value
    OBVIOUS
<1>2. ASSUME value # Missing, value.digest # NoDigest
      PROVE  <<TimeOf[k], value.original>> \in captures'[value.digest]
  <2>1. value.digest \in Digests
      BY <1>2 DEF TypeOK, Table, Value
  <2>2. <<TimeOf[k], value.original>> \in captures[value.digest]
      BY <1>2 DEF Recorded
  <2> QED BY <2>1, <2>2, CapturesGrow
<1> QED BY <1>2 DEF Recorded

\* The import records the item it comes to.
LEMMA ImportRecords ==
    ASSUME IInv, NEW c \in Callers, ImportNext(c), NEW k \in Keys, k = First(Left(c))
    PROVE  at'[c] = k /\ view' = view /\ asked' = asked /\ pc' = pc /\ Recorded(c, k)'
<1> DEFINE value == view[c].items[k]
<1>1. at'[c] = k /\ view' = view /\ asked' = asked /\ pc' = pc
    BY DEF ImportNext, Visit, IInv, TypeOK
<1>2. ASSUME value # Missing, value.digest # NoDigest
      PROVE  <<TimeOf[k], value.original>> \in captures'[value.digest]
  <2>1. value.digest \in Digests
      BY <1>2 DEF IInv, TypeOK, Table, Value
  <2>2. captures' = [captures EXCEPT ![value.digest] = @ \cup {<<TimeOf[k], value.original>>}]
      BY <1>2 DEF ImportNext, MergeEntries
  <2> HIDE DEF value
  <2> QED BY <2>1, <2>2 DEF IInv, TypeOK
<1> QED BY <1>1, <1>2 DEF Recorded

\* Between the key it came to before and the one it comes to now, there was none.
LEMMA ImportStep ==
    ASSUME IInv, [Next]_vars, NEW c \in Callers, ImportNext(c)
    PROVE  \A k \in Keys : k <= at'[c] => Recorded(c, k)'
<1>1. PICK f \in Keys : f = First(Left(c)) /\ f \in Left(c) /\ \A j \in Left(c) : f <= j
    BY LeftIsKeys DEF ImportNext
<1>2. at'[c] = f /\ view' = view /\ Recorded(c, f)'
    BY <1>1, ImportRecords
<1> SUFFICES ASSUME NEW k \in Keys, k <= f, k # f
             PROVE  Recorded(c, k)'
    BY <1>2
<1>3. at[c] \in Nat /\ k \in Nat /\ f \in Nat
  <2>1. at[c] \in Keys \cup {0}
      BY DEF IInv, TypeOK
  <2> QED BY <2>1, KeysAreNumbers
<1>4. k \notin Left(c)
    BY <1>1, <1>3
<1>5. Recorded(c, k)
  <2>1. CASE k <= at[c]
      BY <2>1 DEF ImportNext, IInv, RecordedSoFar
  <2>2. CASE ~ (k <= at[c])
    <3>1. k > at[c]
        BY <1>3, <2>2
    <3>2. view[c].items[k] = Missing
        BY <1>4, <3>1 DEF Left, ImportNext, IInv, ImportsAskForAll
    <3> QED BY <3>2 DEF Recorded
  <2> QED BY <2>1, <2>2
<1>6. view'[c] = view[c]
    BY <1>2
<1> QED BY <1>5, <1>6, RecordedLasts DEF IInv

LEMMA ImportEndsComplete ==
    ASSUME IInv, NEW c \in Callers, ImportEnds(c)
    PROVE  \A k \in Keys : Recorded(c, k)
<1> SUFFICES ASSUME NEW k \in Keys
             PROVE  Recorded(c, k)
    OBVIOUS
<1>1. at[c] \in Nat /\ k \in Nat
  <2>1. at[c] \in Keys \cup {0}
      BY DEF IInv, TypeOK
  <2> QED BY <2>1, KeysAreNumbers
<1>2. CASE k <= at[c]
    BY <1>2 DEF ImportEnds, IInv, RecordedSoFar
<1>3. CASE ~ (k <= at[c])
  <2>1. k > at[c]
      BY <1>1, <1>3
  <2>2. view[c].items[k] = Missing
      BY <2>1 DEF ImportEnds, Left, IInv, ImportsAskForAll
  <2> QED BY <2>2 DEF Recorded
<1> QED BY <1>2, <1>3

\* Every other step leaves the reading of an import alone, ends it, or begins one at key 0.
LEMMA OtherSteps ==
    ASSUME IInv, [Next]_vars, NEW c \in Callers, pc'[c] \in {"importing", "imported"}
    PROVE  \/ ImportNext(c) \/ ImportEnds(c)
           \/ BeginRead(c, "importing", All)
           \/ pc'[c] = pc[c] /\ view'[c] = view[c] /\ at'[c] = at[c] /\ asked'[c] = asked[c]
<1> USE DEF tables, writing, reading, IInv, TypeOK
<1>1. ASSUME NEW b \in Callers, b # c,
             \/ BeginWrite(b) \/ InsertItem(b) \/ InsertFails(b) \/ Commit(b)
             \/ ReadNext(b) \/ ReadEnds(b) \/ ReadFails(b) \/ Return(b)
             \/ ImportNext(b) \/ ImportEnds(b) \/ FillMetadata(b)
      PROVE  pc'[c] = pc[c] /\ view'[c] = view[c] /\ at'[c] = at[c] /\ asked'[c] = asked[c]
    BY <1>1 DEF BeginWrite, InsertItem, InsertFails, Commit, Dropped, ReadNext, ReadEnds,
             ReadFails, Return, ImportNext, ImportEnds, FillMetadata, Begin, Goto, Visit,
             CloseReadings
<1>2. ASSUME NEW b \in Callers, b # c, NEW d \in Digests \cup {All},
             BeginRead(b, "reading", d) \/ BeginRead(b, "importing", d)
      PROVE  pc'[c] = pc[c] /\ view'[c] = view[c] /\ at'[c] = at[c] /\ asked'[c] = asked[c]
    BY <1>2 DEF BeginRead, Begin
<1>3. ASSUME \/ BeginWrite(c) \/ InsertFails(c) \/ Commit(c)
             \/ ReadEnds(c) \/ ReadFails(c) \/ Return(c) \/ FillMetadata(c)
             \/ \E d \in Digests \cup {All} : BeginRead(c, "reading", d)
      PROVE  FALSE
    BY <1>3 DEF BeginWrite, InsertFails, Commit, Dropped, ReadEnds, ReadFails, Return,
             FillMetadata, BeginRead, Begin, Goto
<1>4. ASSUME InsertItem(c) \/ ReadNext(c)
      PROVE  pc'[c] = pc[c] /\ view'[c] = view[c] /\ at'[c] = at[c] /\ asked'[c] = asked[c]
    BY <1>4 DEF InsertItem, ReadNext
<1>5. ~ Crash
    BY DEF Crash
<1>6. CASE UNCHANGED vars
    BY <1>6 DEF vars
<1> QED BY <1>1, <1>2, <1>3, <1>4, <1>5, <1>6 DEF Next

LEMMA ImportsKeepOn ==
    ASSUME IInv, [Next]_vars
    PROVE  ImportsAskForAll' /\ RecordedSoFar' /\ ImportIsComplete'
<1>1. ASSUME NEW c \in Callers, pc'[c] = "importing"
      PROVE  asked'[c] = All /\ \A k \in Keys : k <= at'[c] => Recorded(c, k)'
  <2>1. CASE ImportNext(c)
    <3>1. asked'[c] = All
        BY <2>1 DEF ImportNext, IInv, ImportsAskForAll
    <3> QED BY <2>1, <3>1, ImportStep
  <2>2. CASE ImportEnds(c)
      BY <1>1, <2>2 DEF ImportEnds, Goto, IInv, TypeOK
  <2>3. CASE BeginRead(c, "importing", All)
    <3>1. asked'[c] = All /\ at'[c] = 0
        BY <2>3 DEF BeginRead, IInv, TypeOK
    <3>2. \A k \in Keys : ~ (k <= 0)
        BY IndexAssumption
    <3> QED BY <3>1, <3>2
  <2>4. CASE pc'[c] = pc[c] /\ view'[c] = view[c] /\ at'[c] = at[c] /\ asked'[c] = asked[c]
    <3>1. asked'[c] = All
        BY <1>1, <2>4 DEF IInv, ImportsAskForAll
    <3>2. \A k \in Keys : k <= at'[c] => Recorded(c, k)
        BY <1>1, <2>4 DEF IInv, RecordedSoFar
    <3> QED BY <2>4, <3>1, <3>2, RecordedLasts DEF IInv
  <2> QED BY <1>1, <2>1, <2>2, <2>3, <2>4, OtherSteps
<1>2. ASSUME NEW c \in Callers, pc'[c] = "imported"
      PROVE  \A k \in Keys : Recorded(c, k)'
  <2>1. CASE ImportNext(c)
      BY <1>2, <2>1 DEF ImportNext
  <2>2. CASE ImportEnds(c)
    <3>1. view'[c] = view[c]
        BY <2>2 DEF ImportEnds, reading
    <3> QED BY <2>2, <3>1, ImportEndsComplete, RecordedLasts DEF IInv
  <2>3. CASE BeginRead(c, "importing", All)
      BY <1>2, <2>3 DEF BeginRead, Begin, IInv, TypeOK
  <2>4. CASE pc'[c] = pc[c] /\ view'[c] = view[c] /\ at'[c] = at[c] /\ asked'[c] = asked[c]
    <3>1. \A k \in Keys : Recorded(c, k)
        BY <1>2, <2>4 DEF IInv, ImportIsComplete, Recorded
    <3> QED BY <2>4, <3>1, RecordedLasts DEF IInv
  <2> QED BY <1>2, <2>1, <2>2, <2>3, <2>4, OtherSteps
<1>3. ImportsAskForAll' /\ RecordedSoFar'
    BY <1>1 DEF ImportsAskForAll, RecordedSoFar
<1>4. ImportIsComplete'
    BY <1>2 DEF ImportIsComplete, Recorded
<1> QED BY <1>3, <1>4
-----------------------------------------------------------------------------
(* The theorems *)

LEMMA IInvInit == Init => IInv
<1> SUFFICES ASSUME Init PROVE IInv
    OBVIOUS
<1>1. TypeOK
    BY IndexTypeInit
<1>2. IndexIsSound /\ DraftsAndViewsAreSound
    BY EmptyIsTable DEF Init, IndexIsSound, DraftsAndViewsAreSound, IndexSound, Empty
<1>3. ImportsAskForAll /\ RecordedSoFar /\ ImportIsComplete
    BY DEF Init, ImportsAskForAll, RecordedSoFar, ImportIsComplete
<1> QED BY <1>1, <1>2, <1>3 DEF IInv

LEMMA IInvStep == IInv /\ [Next]_vars => IInv'
<1> SUFFICES ASSUME IInv, [Next]_vars PROVE IInv'
    OBVIOUS
<1>1. TypeOK'
    BY IndexTypeStep DEF IInv
<1>2. IndexIsSound' /\ DraftsAndViewsAreSound'
    BY SoundStep DEF IInv
<1>3. ImportsAskForAll' /\ RecordedSoFar' /\ ImportIsComplete'
    BY ImportsKeepOn
<1> QED BY <1>1, <1>2, <1>3 DEF IInv

LEMMA IInvHolds == Spec => []IInv
BY IInvInit, IInvStep, PTL DEF Spec

\* Every variable of the index and its readers keeps to its type.
THEOREM IndexTypeCorrect == Spec => []TypeOK
<1>1. IInv => TypeOK
    BY DEF IInv
<1> QED BY <1>1, IInvHolds, PTL

\* Every item with a digest is found through the digest index, and no entry of it leads nowhere,
\* after any sequence of batches, failures and crashes (CdxIndex::insert_batch).
THEOREM IndexAlwaysSound == Spec => []IndexIsSound
<1>1. IInv => IndexIsSound
    BY DEF IInv
<1> QED BY <1>1, IInvHolds, PTL

\* The snapshot of every reading is sound too, so that iter_by_digest never meets
\* DecodeIndexReferenceMissing in a file that only insert_batch wrote.
THEOREM ReadingsNeverDangle ==
    Spec => [](\A c \in Callers : \A d \in Digests, k \in Keys :
                 <<d, k>> \in view[c].digests => view[c].items[k] # Missing)
<1>1. IInv => \A c \in Callers : \A d \in Digests, k \in Keys :
                <<d, k>> \in view[c].digests => view[c].items[k] # Missing
    BY DEF IInv, DraftsAndViewsAreSound, IndexSound
<1> QED BY <1>1, IInvHolds, PTL

\* An import that ends well has recorded all it was shown when it began (import_metadata).
THEOREM ImportAlwaysComplete == Spec => []ImportIsComplete
<1>1. IInv => ImportIsComplete
    BY DEF IInv
<1> QED BY <1>1, IInvHolds, PTL

\* No step takes a capture away (MetadataDb::insert_batch merges).
THEOREM CapturesAreKept == Spec => CapturesKept
<1>1. IInv /\ [Next]_vars => [\A d \in Digests : captures[d] \subseteq captures'[d]]_vars
    BY CapturesGrow DEF IInv
<1> QED BY <1>1, IInvHolds, PTL DEF Spec, CapturesKept

-----------------------------------------------------------------------------
(* Claims: until the second in which it ends, a claim is exclusive, for any *)
(* number of workers, any durations and any clock.                          *)

\* encode_status loses less than a second.
LEMMA SecondsRoundDown ==
    ASSUME NEW t \in Nat
    PROVE  /\ t \div TicksPerSecond \in Nat
           /\ (t \div TicksPerSecond) * TicksPerSecond > t - TicksPerSecond
BY ClaimAssumption

\* The mutex is held by the worker that looks, claims, writes or finishes.
Critically == {"looking", "claiming", "writing", "finishing"}
MutexHeld == \A w \in Workers : stage[w] \in Critically => lock = w

\* While a worker has the item, the row says so: it is done, or its second is still to come.
RowProtects ==
    \A w \in Workers :
      Holds(w, TicksPerSecond) =>
        stored = Done \/ (stored \in Nat /\ stored * TicksPerSecond > until[w] - TicksPerSecond)

\* A worker claims the item only when no other has it.
ClaimedAlone ==
    \A v, w \in Workers :
      stage[v] \in {"claiming", "writing"} /\ v # w => ~ Holds(w, TicksPerSecond)

ClaimInv == ClaimTypeOK /\ MutexHeld /\ RowProtects /\ ClaimedAlone /\ ClaimsExcludeToTheSecond

LEMMA ClaimInvInit == ClaimInit => ClaimInv
<1> SUFFICES ASSUME ClaimInit PROVE ClaimInv
    OBVIOUS
<1>1. ClaimTypeOK
    BY ClaimAssumption DEF ClaimInit, ClaimTypeOK
<1> QED
    BY <1>1 DEF ClaimInit, ClaimInv, MutexHeld, Critically, RowProtects, ClaimedAlone,
                ClaimsExcludeToTheSecond, Holds

LEMMA ClaimTypeStep == ClaimTypeOK /\ [ClaimNext]_claimVars => ClaimTypeOK'
<1> SUFFICES ASSUME ClaimTypeOK, [ClaimNext]_claimVars PROVE ClaimTypeOK'
    OBVIOUS
<1> USE DEF ClaimTypeOK
<1>1. ASSUME NEW w \in Workers, BeginClaim(w) \/ Finish(w)
      PROVE  ClaimTypeOK'
    BY <1>1 DEF BeginClaim, Finish, Lock, MoveTo
<1>2. ASSUME NEW w \in Workers, FindAvailable(w) \/ FindTaken(w) \/ MarkDone(w)
      PROVE  ClaimTypeOK'
    BY <1>2 DEF FindAvailable, FindTaken, MarkDone, MoveTo
<1>3. ASSUME NEW w \in Workers, Claim(w)
      PROVE  ClaimTypeOK'
  <2>1. \A d \in Durations : now + d \in Nat
      BY ClaimAssumption
  <2> QED BY <1>3, <2>1 DEF Claim, MoveTo
<1>4. ASSUME NEW w \in Workers, WriteClaim(w)
      PROVE  ClaimTypeOK'
  <2>1. until[w] \in Nat
      OBVIOUS
  <2> QED BY <1>4, <2>1, SecondsRoundDown DEF WriteClaim, MoveTo
<1>5. ASSUME NEW w \in Workers, Die(w)
      PROVE  ClaimTypeOK'
    BY <1>5, ClaimAssumption DEF Die, MoveTo
<1>6. CASE Tick
    BY <1>6, ClaimAssumption DEF Tick
<1>7. CASE UNCHANGED claimVars
    BY <1>7 DEF claimVars
<1> QED BY <1>1, <1>2, <1>3, <1>4, <1>5, <1>6, <1>7 DEF ClaimNext, Critical

LEMMA MutexStep == ClaimTypeOK /\ MutexHeld /\ [ClaimNext]_claimVars => MutexHeld'
<1> SUFFICES ASSUME ClaimTypeOK, MutexHeld, [ClaimNext]_claimVars,
                    NEW w \in Workers, stage'[w] \in Critically
             PROVE  lock' = w
    BY DEF MutexHeld
<1>1. CASE \E v \in Workers : BeginClaim(v) \/ Finish(v)
    BY <1>1, ClaimAssumption DEF BeginClaim, Finish, Lock, MoveTo, ClaimTypeOK, MutexHeld, Critically
<1>2. CASE \E v \in Workers : FindAvailable(v) \/ Claim(v)
    BY <1>2 DEF FindAvailable, Claim, MoveTo, ClaimTypeOK, MutexHeld, Critically
<1>3. CASE \E v \in Workers : FindTaken(v) \/ WriteClaim(v) \/ MarkDone(v)
    BY <1>3 DEF FindTaken, WriteClaim, MarkDone, MoveTo, ClaimTypeOK, MutexHeld, Critically
<1>4. CASE \E v \in Workers : Die(v)
    BY <1>4 DEF Die, MoveTo, ClaimTypeOK, MutexHeld, Critically
<1>5. CASE Tick \/ UNCHANGED claimVars
    BY <1>5 DEF Tick, claimVars, MutexHeld
<1> QED BY <1>1, <1>2, <1>3, <1>4, <1>5 DEF ClaimNext, Critical

\* Who has the item after a step had it before, or has just written the claim.
LEMMA HoldersAreOld ==
    ASSUME ClaimInv, [ClaimNext]_claimVars, NEW w \in Workers, Holds(w, TicksPerSecond)'
    PROVE  WriteClaim(w) \/ (Holds(w, TicksPerSecond) /\ until'[w] = until[w])
<1> USE DEF Holds, ClaimInv, ClaimTypeOK
<1>1. ASSUME NEW v \in Workers, BeginClaim(v) \/ Finish(v)
      PROVE  Holds(w, TicksPerSecond) /\ until'[w] = until[w]
    BY <1>1 DEF BeginClaim, Finish, Lock, MoveTo
<1>2. ASSUME NEW v \in Workers, FindAvailable(v) \/ FindTaken(v) \/ MarkDone(v) \/ Die(v)
      PROVE  Holds(w, TicksPerSecond) /\ until'[w] = until[w]
    BY <1>2 DEF FindAvailable, FindTaken, MarkDone, Die, MoveTo
<1>3. ASSUME NEW v \in Workers, Claim(v)
      PROVE  Holds(w, TicksPerSecond) /\ until'[w] = until[w]
    BY <1>3 DEF Claim, MoveTo
<1>4. ASSUME NEW v \in Workers, v # w, WriteClaim(v)
      PROVE  Holds(w, TicksPerSecond) /\ until'[w] = until[w]
    BY <1>4 DEF WriteClaim, MoveTo
<1>5. CASE Tick
  <2>1. now \in Nat /\ until[w] \in Nat /\ TicksPerSecond \in Nat
      BY ClaimAssumption
  <2>2. now + 1 + TicksPerSecond <= until[w] /\ stage[w] \in {"working", "finishing", "dead"}
      BY <1>5 DEF Tick
  <2>3. now + TicksPerSecond <= until[w]
      BY <2>1, <2>2
  <2> QED BY <1>5, <2>2, <2>3 DEF Tick
<1>6. CASE UNCHANGED claimVars
    BY <1>6 DEF claimVars
<1> QED BY <1>1, <1>2, <1>3, <1>4, <1>5, <1>6 DEF ClaimNext, Critical

\* A worker finds the item available only when nobody has it.
LEMMA AvailableIsFree ==
    ASSUME ClaimInv, NEW v \in Workers, FindAvailable(v), NEW w \in Workers
    PROVE  ~ Holds(w, TicksPerSecond)
<1> SUFFICES ASSUME Holds(w, TicksPerSecond)
             PROVE  FALSE
    OBVIOUS
<1>1. stored = Done \/ (stored \in Nat /\ stored * TicksPerSecond > until[w] - TicksPerSecond)
    BY DEF ClaimInv, RowProtects
<1>2. stored \in Nat /\ stored * TicksPerSecond <= now
    BY <1>1, ClaimAssumption DEF FindAvailable, Lapsed
<1>3. until[w] \in Nat /\ now \in Nat /\ TicksPerSecond \in Nat
    BY ClaimAssumption DEF ClaimInv, ClaimTypeOK
<1>4. now + TicksPerSecond <= until[w]
    BY DEF Holds
<1>5. stored * TicksPerSecond \in Nat
    BY <1>2, <1>3
<1>6. stored # Done
    BY <1>2, ClaimAssumption
<1> QED BY <1>1, <1>2, <1>3, <1>4, <1>5, <1>6

LEMMA RowStep ==
    ASSUME ClaimInv, [ClaimNext]_claimVars
    PROVE  RowProtects'
<1> SUFFICES ASSUME NEW w \in Workers, Holds(w, TicksPerSecond)'
             PROVE  \/ stored' = Done
                    \/ stored' \in Nat /\ stored' * TicksPerSecond > until'[w] - TicksPerSecond
    BY DEF RowProtects
<1>1. CASE WriteClaim(w)
  <2>1. until[w] \in Nat
      BY DEF ClaimInv, ClaimTypeOK
  <2> QED BY <1>1, <2>1, SecondsRoundDown DEF WriteClaim
<1>2. CASE Holds(w, TicksPerSecond) /\ until'[w] = until[w]
  <2>1. \/ stored = Done
        \/ stored \in Nat /\ stored * TicksPerSecond > until[w] - TicksPerSecond
      BY <1>2 DEF ClaimInv, RowProtects
  <2>2. ASSUME NEW v \in Workers, WriteClaim(v)
        PROVE  v = w
      BY <1>2, <2>2 DEF ClaimInv, ClaimedAlone, WriteClaim
  <2>3. stored' = stored \/ stored' = Done \/ \E v \in Workers : WriteClaim(v)
      BY DEF ClaimNext, Critical, claimVars, BeginClaim, Finish, Lock, FindAvailable, FindTaken, Claim,
             MarkDone, Die, Tick
  <2> QED BY <1>1, <1>2, <2>1, <2>2, <2>3
<1> QED BY <1>1, <1>2, HoldersAreOld

LEMMA AloneStep ==
    ASSUME ClaimInv, [ClaimNext]_claimVars
    PROVE  ClaimedAlone'
<1> SUFFICES ASSUME NEW v \in Workers, NEW w \in Workers, v # w,
                    stage'[v] \in {"claiming", "writing"}, Holds(w, TicksPerSecond)'
             PROVE  FALSE
    BY DEF ClaimedAlone
<1>1. stage[v] \in {"claiming", "writing"} \/ FindAvailable(v)
    BY DEF ClaimNext, Critical, claimVars, BeginClaim, Finish, Lock, FindAvailable, FindTaken, Claim,
           WriteClaim, MarkDone, Die, Tick, MoveTo, ClaimInv, ClaimTypeOK
<1>2. ~ Holds(w, TicksPerSecond)
    BY <1>1, AvailableIsFree DEF ClaimInv, ClaimedAlone
<1>3. WriteClaim(w)
    BY <1>2, HoldersAreOld
<1>4. stage[w] = "writing" /\ lock = w
    BY <1>3 DEF WriteClaim, ClaimInv, MutexHeld, Critically
<1>5. stage[v] \in Critically /\ lock = v
    BY <1>1 DEF FindAvailable, ClaimInv, MutexHeld, Critically
<1> QED BY <1>4, <1>5

LEMMA ExclusionStep ==
    ASSUME ClaimInv, [ClaimNext]_claimVars
    PROVE  ClaimsExcludeToTheSecond'
<1> SUFFICES ASSUME NEW v \in Workers, NEW w \in Workers, v # w,
                    Holds(v, TicksPerSecond)', Holds(w, TicksPerSecond)'
             PROVE  FALSE
    BY DEF ClaimsExcludeToTheSecond
<1>1. ASSUME NEW x \in Workers, NEW y \in Workers, x # y, WriteClaim(x), Holds(y, TicksPerSecond)'
      PROVE  FALSE
  <2>1. ~ Holds(y, TicksPerSecond)
      BY <1>1 DEF WriteClaim, ClaimInv, ClaimedAlone
  <2>2. WriteClaim(y)
      BY <1>1, <2>1, HoldersAreOld
  <2> QED BY <1>1, <2>2 DEF WriteClaim, ClaimInv, MutexHeld, Critically
<1>2. Holds(v, TicksPerSecond) /\ Holds(w, TicksPerSecond)
    BY <1>1, HoldersAreOld
<1> QED BY <1>2 DEF ClaimInv, ClaimsExcludeToTheSecond

LEMMA ClaimInvHolds == ClaimSpec => []ClaimInv
<1>1. ClaimInv /\ [ClaimNext]_claimVars => ClaimInv'
  <2> SUFFICES ASSUME ClaimInv, [ClaimNext]_claimVars PROVE ClaimInv'
      OBVIOUS
  <2>1. ClaimTypeOK' /\ MutexHeld'
      BY ClaimTypeStep, MutexStep DEF ClaimInv
  <2> QED BY <2>1, RowStep, AloneStep, ExclusionStep DEF ClaimInv
<1> QED BY <1>1, ClaimInvInit, PTL DEF ClaimSpec

\* Two workers that look before they claim, behind a mutex, have an item together only in the
\* last second of a claim, which encode_status rounds away.
THEOREM ClaimsAlwaysExclude == ClaimSpec => []ClaimsExcludeToTheSecond
<1>1. ClaimInv => ClaimsExcludeToTheSecond
    BY DEF ClaimInv
<1> QED BY <1>1, ClaimInvHolds, PTL
=============================================================================
