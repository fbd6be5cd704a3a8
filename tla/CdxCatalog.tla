----------------------------- MODULE CdxCatalog -----------------------------
(***************************************************************************)
(* What archivindex_wbm_cdx_index::CdxIndex promises of its items: a table *)
(* from keys to values in which a batch is one change, and every reading   *)
(* is of the whole table as it was when the reading began, however long it *)
(* takes.  CdxIndex implements it with two tables and an index.            *)
(***************************************************************************)
EXTENDS Integers, Sequences

CONSTANTS
    Callers,    \* threads that use one index
    Keys,       \* item_key: a SURT and a timestamp, numbered in the order of their bytes
    Digests,    \* Sha1Digest
    Batches,    \* what insert_batch may be called with
    All,        \* every item is asked for, whatever its digest
    Missing,    \* no value
    Nothing     \* no reading

VARIABLES
    catalog,    \* the value of each key, or Missing
    owed,       \* what each reading in progress is to return
    answer      \* what each reading that has ended returned

catalogVars == <<catalog, owed, answer>>

ValueOf(i) == [digest |-> i.digest, original |-> i.original]

\* The last item of a batch with a key is the one that stays.
LastOf(b, k) ==
    CHOOSE n \in DOMAIN b : b[n].key = k /\ \A m \in DOMAIN b : b[m].key = k => m <= n
Stored(table, b) ==
    [k \in Keys |-> IF \E n \in DOMAIN b : b[n].key = k
                    THEN ValueOf(b[LastOf(b, k)]) ELSE table[k]]

\* The items of a table that a reading returns, with their keys.
Wanted(value, d) == value # Missing /\ (d = All \/ value.digest = d)
Matching(table, d) == {<<k, table[k]>> : k \in {j \in Keys : Wanted(table[j], d)}}

CatalogInit ==
    /\ catalog = [k \in Keys |-> Missing]
    /\ owed = [c \in Callers |-> Nothing]
    /\ answer = [c \in Callers |-> Nothing]

Insert(b) ==
    /\ \A n \in DOMAIN b : b[n].valid
    /\ catalog' = Stored(catalog, b)
    /\ UNCHANGED <<owed, answer>>

Ask(c) ==
    /\ owed[c] = Nothing
    /\ \E d \in Digests \cup {All} : owed' = [owed EXCEPT ![c] = Matching(catalog, d)]
    /\ UNCHANGED <<catalog, answer>>

Deliver(c) ==
    /\ owed[c] # Nothing
    /\ answer' = [answer EXCEPT ![c] = owed[c]]
    /\ owed' = [owed EXCEPT ![c] = Nothing]
    /\ UNCHANGED catalog

\* Callers go on to other things, are told of an error, or die.
Forget(C) ==
    /\ owed' = [c \in Callers |-> IF c \in C THEN Nothing ELSE owed[c]]
    /\ answer' = [c \in Callers |-> IF c \in C THEN Nothing ELSE answer[c]]
    /\ UNCHANGED catalog

CatalogNext ==
    \/ \E b \in Batches : Insert(b)
    \/ \E c \in Callers : Ask(c) \/ Deliver(c)
    \/ \E C \in SUBSET Callers : Forget(C)

CatalogSpec == CatalogInit /\ [][CatalogNext]_catalogVars
=============================================================================
