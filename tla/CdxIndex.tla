------------------------------ MODULE CdxIndex ------------------------------
(***************************************************************************)
(* crates/cdx-index: the index of CDX items in a redb file, and the store  *)
(* of capture metadata that is filled from it.                             *)
(*                                                                         *)
(* redb gives one write transaction at a time, and readings that see the   *)
(* tables as the last commit left them.  An item that cannot be encoded is *)
(* one that is not valid; a stored value is its digest and its URL.  A     *)
(* process can be killed at any point; what was committed stays.           *)
(***************************************************************************)
EXTENDS Integers, Sequences, FiniteSets

CONSTANTS
    Callers, Keys, Digests, Batches, All, Missing, Nothing,     \* as in CdxCatalog
    NoDigest,   \* a digest that is not one: Digest::Invalid
    Originals,  \* the other fields of an item
    TimeOf,     \* the timestamp of a key
    Nobody,     \* no caller
    MaxCalls    \* bound of the model: the calls of each caller

VARIABLES
    items,      \* table ITEMS: the value of each key, or Missing
    digests,    \* table DIGESTS: the pairs of a digest and a key
    holder,     \* the caller in the write transaction, or Nobody
    draft,      \* the tables as that transaction sees them
    pc,         \* where each caller is
    rest,       \* the items it still inserts
    asked,      \* the digest it reads, or All
    view,       \* the tables as its reading sees them
    at,         \* the key it has read last
    result,     \* what its reading has returned
    captures,   \* table CAPTURES of the metadata store: the captures of each digest
    calls       \* how many calls it has made

tables == <<items, digests>>
writing == <<holder, draft, rest>>
reading == <<asked, view, at, result>>
vars == <<tables, writing, reading, pc, captures, calls>>

\* `valid`: validate_item accepts it; `short`: its URL can be recorded as a capture.
ItemRecord ==
    [key : Keys, digest : Digests \cup {NoDigest}, original : Originals,
     valid : BOOLEAN, short : BOOLEAN]
Value == [digest : Digests \cup {NoDigest}, original : Originals]
Table == [items : [Keys -> Value \cup {Missing}], digests : SUBSET (Digests \X Keys)]
Capture == {TimeOf[k] : k \in Keys} \X Originals

ASSUME IndexAssumption ==
    /\ Keys \subseteq Nat \ {0}
    /\ NoDigest \notin Digests
    /\ All \notin Digests \cup {NoDigest}
    /\ Missing \notin Value
    /\ Nobody \notin Callers
    /\ Batches \subseteq Seq(ItemRecord)
    /\ MaxCalls \in [Callers -> Nat]

TypeOK ==
    /\ items \in [Keys -> Value \cup {Missing}]
    /\ digests \subseteq Digests \X Keys
    /\ holder \in Callers \cup {Nobody}
    /\ draft \in Table
    /\ pc \in [Callers -> {"idle", "inserting", "reading", "answered", "importing", "imported"}]
    /\ rest \in [Callers -> Seq(ItemRecord)]
    /\ asked \in [Callers -> Digests \cup {All}]
    /\ view \in [Callers -> Table]
    /\ at \in [Callers -> Keys \cup {0}]
    /\ result \in [Callers -> SUBSET (Keys \X Value)]
    /\ captures \in [Digests -> SUBSET Capture]
    /\ calls \in [Callers -> Nat]

\* open: the tables are created empty.
Empty == [items |-> [k \in Keys |-> Missing], digests |-> {}]

Init ==
    /\ items = Empty.items
    /\ digests = Empty.digests
    /\ holder = Nobody
    /\ draft = Empty
    /\ pc = [c \in Callers |-> "idle"]
    /\ rest = [c \in Callers |-> <<>>]
    /\ asked = [c \in Callers |-> All]
    /\ view = [c \in Callers |-> Empty]
    /\ at = [c \in Callers |-> 0]
    /\ result = [c \in Callers |-> {}]
    /\ captures = [d \in Digests |-> {}]
    /\ calls = [c \in Callers |-> 0]

Begin(c, step) ==
    /\ pc[c] = "idle"
    /\ calls[c] < MaxCalls[c]
    /\ calls' = [calls EXCEPT ![c] = @ + 1]
    /\ pc' = [pc EXCEPT ![c] = step]
Goto(c, step) == pc' = [pc EXCEPT ![c] = step]
-----------------------------------------------------------------------------
(* insert_batch *)

BeginWrite(c) ==
    /\ holder = Nobody
    /\ Begin(c, "inserting")
    /\ \E b \in Batches : rest' = [rest EXCEPT ![c] = b]
    /\ holder' = c
    /\ draft' = [items |-> items, digests |-> digests]
    /\ UNCHANGED <<tables, reading, captures>>

\* One item is validated and written, and its digest indexed if it is one.
ValueOf(i) == [digest |-> i.digest, original |-> i.original]
IndexedUnlessThere(i) == i.digest # NoDigest /\ draft.items[i.key] = Missing
Indexed(i) == i.digest # NoDigest
InsertItem(c) ==
    /\ holder = c
    /\ rest[c] # <<>>
    /\ LET i == Head(rest[c]) IN
         /\ i.valid
         /\ draft' = [items |-> [draft.items EXCEPT ![i.key] = ValueOf(i)],
                      digests |-> IF Indexed(i) THEN draft.digests \cup {<<i.digest, i.key>>}
                                  ELSE draft.digests]
    /\ rest' = [rest EXCEPT ![c] = Tail(@)]
    /\ UNCHANGED <<tables, holder, reading, pc, captures, calls>>

\* An item cannot be encoded, or redb fails: the transaction is dropped with all it wrote.
Dropped(c) ==
    /\ holder' = Nobody
    /\ draft' = Empty
    /\ Goto(c, "idle")
    /\ rest' = [rest EXCEPT ![c] = <<>>]
InsertFails(c) ==
    /\ holder = c
    /\ Dropped(c)
    /\ UNCHANGED <<tables, reading, captures, calls>>

Commit(c) ==
    /\ holder = c
    /\ rest[c] = <<>>
    /\ items' = draft.items
    /\ digests' = draft.digests
    /\ Dropped(c)
    /\ UNCHANGED <<reading, captures, calls>>
-----------------------------------------------------------------------------
(* iter_by_digest and iter_all: the iterator keeps its snapshot *)

BeginRead(c, step, d) ==
    /\ Begin(c, step)
    /\ asked' = [asked EXCEPT ![c] = d]
    /\ view' = [view EXCEPT ![c] = [items |-> items, digests |-> digests]]
    /\ at' = [at EXCEPT ![c] = 0]
    /\ result' = [result EXCEPT ![c] = {}]
    /\ UNCHANGED <<tables, writing, captures>>

\* The iterators of the callers C are dropped, and what was collected from them.
CloseReadings(C) ==
    /\ asked' = [c \in Callers |-> IF c \in C THEN All ELSE asked[c]]
    /\ view' = [c \in Callers |-> IF c \in C THEN Empty ELSE view[c]]
    /\ at' = [c \in Callers |-> IF c \in C THEN 0 ELSE at[c]]
    /\ result' = [c \in Callers |-> IF c \in C THEN {} ELSE result[c]]

\* The keys the reading still visits: of every item, or of the index entries of the digest.
Left(c) ==
    {k \in Keys :
       /\ k > at[c]
       /\ IF asked[c] = All THEN view[c].items[k] # Missing
          ELSE <<asked[c], k>> \in view[c].digests}
First(S) == CHOOSE k \in S : \A j \in S : k <= j

\* An index entry leads to an item that now has another digest: it is passed over.
StaleNever(c, k) == FALSE
Stale(c, k) == asked[c] # All /\ view[c].items[k].digest # asked[c]
Visit(c, k) == at' = [at EXCEPT ![c] = k]

ReadNext(c) ==
    /\ pc[c] = "reading"
    /\ Left(c) # {}
    /\ LET k == First(Left(c)) IN
         /\ view[c].items[k] # Missing
         /\ Visit(c, k)
         /\ result' = [result EXCEPT ![c] = IF Stale(c, k) THEN @
                                            ELSE @ \cup {<<k, view[c].items[k]>>}]
    /\ UNCHANGED <<tables, writing, asked, view, pc, captures, calls>>

ReadEnds(c) ==
    /\ pc[c] = "reading"
    /\ Left(c) = {}
    /\ Goto(c, "answered")
    /\ UNCHANGED <<tables, writing, reading, captures, calls>>

\* redb fails, or an entry of the index leads nowhere: DecodeIndexReferenceMissing.
ReadFails(c) ==
    /\ pc[c] \in {"reading", "importing"}
    /\ CloseReadings({c})
    /\ Goto(c, "idle")
    /\ UNCHANGED <<tables, writing, captures, calls>>

\* The caller goes on.
Return(c) ==
    /\ pc[c] \in {"answered", "imported"}
    /\ CloseReadings({c})
    /\ Goto(c, "idle")
    /\ UNCHANGED <<tables, writing, captures, calls>>
-----------------------------------------------------------------------------
(* MetadataDb *)

\* merge_entries: what is stored and what is added, sorted and without duplicates.
MergeReplaces(d, additions) ==
    captures' = [captures EXCEPT ![d] = additions]
MergeEntries(d, additions) ==
    captures' = [captures EXCEPT ![d] = @ \cup additions]

\* import_metadata: every item of the index that has a digest is recorded, one transaction each.
ImportNext(c) ==
    /\ pc[c] = "importing"
    /\ Left(c) # {}
    /\ LET k == First(Left(c))
           value == view[c].items[k] IN
         /\ Visit(c, k)
         /\ IF value.digest = NoDigest THEN UNCHANGED captures
            ELSE MergeEntries(value.digest, {<<TimeOf[k], value.original>>})
    /\ UNCHANGED <<tables, writing, asked, view, result, pc, calls>>

ImportEnds(c) ==
    /\ pc[c] = "importing"
    /\ Left(c) = {}
    /\ Goto(c, "imported")
    /\ UNCHANGED <<tables, writing, reading, captures, calls>>

\* fill_metadata: the captures of a file whose digest and URL will do go into the store in one
\* transaction, or none does.
CapturesIn(b) ==
    {<<b[n].digest, <<TimeOf[b[n].key], b[n].original>>>> :
       n \in {m \in DOMAIN b : b[m].short /\ b[m].digest # NoDigest}}
FillMetadata(c) ==
    /\ \E b \in Batches :
         captures' = [d \in Digests |-> captures[d] \cup
                        {x \in Capture : <<d, x>> \in CapturesIn(b)}]
    /\ Begin(c, "idle")
    /\ UNCHANGED <<tables, writing, reading>>
-----------------------------------------------------------------------------
\* The process is killed; the next one finds what was committed.
Crash ==
    /\ \E c \in Callers : pc[c] # "idle"
    /\ holder' = Nobody
    /\ draft' = Empty
    /\ rest' = [c \in Callers |-> <<>>]
    /\ pc' = [c \in Callers |-> "idle"]
    /\ CloseReadings(Callers)
    /\ UNCHANGED <<tables, captures, calls>>

Next ==
    \/ \E c \in Callers :
         \/ BeginWrite(c) \/ InsertItem(c) \/ InsertFails(c) \/ Commit(c)
         \/ \E d \in Digests \cup {All} : BeginRead(c, "reading", d)
         \/ ReadNext(c) \/ ReadEnds(c) \/ ReadFails(c) \/ Return(c)
         \/ BeginRead(c, "importing", All)
         \/ ImportNext(c) \/ ImportEnds(c) \/ FillMetadata(c)
    \/ Crash

Spec == Init /\ [][Next]_vars
-----------------------------------------------------------------------------
(* Properties *)

\* With its two tables, partial batches and readings that last, the index is a table in which a
\* batch is one change and a reading is of one state: "Reads use consistent redb snapshots",
\* "none of its items are written", and stale entries of the digest index are never returned.
Catalog ==
    INSTANCE CdxCatalog WITH
      catalog <- items,
      owed <- [c \in Callers |-> IF pc[c] = "reading"
                                 THEN {<<k, view[c].items[k]>> : k \in {j \in Keys :
                                         /\ view[c].items[j] # Missing
                                         /\ asked[c] \in {All, view[c].items[j].digest}}}
                                 ELSE Nothing],
      answer <- [c \in Callers |-> IF pc[c] = "answered" THEN result[c] ELSE Nothing]
ImplementsCatalog == Catalog!CatalogSpec

\* Every item with a digest is in the digest index, and no entry of the index leads nowhere,
\* whatever was overwritten with what.
IndexSound(table) ==
    /\ \A k \in Keys : table.items[k] # Missing /\ table.items[k].digest # NoDigest
                         => <<table.items[k].digest, k>> \in table.digests
    /\ \A d \in Digests, k \in Keys : <<d, k>> \in table.digests => table.items[k] # Missing
IndexIsSound == IndexSound([items |-> items, digests |-> digests])

\* An import that ends well has recorded every capture the index had when it began, in whatever
\* order the items of one digest came.
ImportIsComplete ==
    \A c \in Callers :
      pc[c] = "imported" =>
        \A k \in Keys :
          LET value == view[c].items[k] IN
            value # Missing /\ value.digest # NoDigest
              => <<TimeOf[k], value.original>> \in captures[value.digest]

\* Captures are never lost.
CapturesKept == [][\A d \in Digests : captures[d] \subseteq captures'[d]]_vars
=============================================================================
