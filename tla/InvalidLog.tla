----------------------------- MODULE InvalidLog -----------------------------
(***************************************************************************)
(* crates/invalid-log: databases of two tables, each behind a mutex, with  *)
(* tasks that insert rows, merge one database into another, export one and *)
(* import an export.                                                       *)
(*                                                                         *)
(* A task holds a mutex from the statement it begins with to the commit or *)
(* the last row it reads, so what happens under a mutex is one step; a     *)
(* transaction that fails is rolled back.  Another process that has the    *)
(* file open sees the same committed rows and is one more task.            *)
(***************************************************************************)
EXTENDS Integers

CONSTANTS
    Databases,      \* connections; handles that share one are one database
    Tasks,          \* threads that use them
    Entries,        \* the identity of an invalid_digest row: URL, capture and both digests
    Urls,           \* URLs that were withheld
    Times,          \* observation times, in whole seconds
    Never,          \* the observation time of a row that is not there
    Nobody,         \* the holder of a free mutex
    Operations,     \* which operations the tasks may call
    Contents0,      \* what the databases may hold to begin with
    MaxCalls        \* bound of the model: calls per task

\* The invalid_digest table by the observation times of its rows, and the withheld_url table.
Contents == [invalid : [Entries -> Times \cup {Never}], withheld : SUBSET (Urls \X Times)]
Empty == [invalid |-> [e \in Entries |-> Never], withheld |-> {}]

ASSUME LogAssumption ==
    /\ Databases # {}
    /\ Times \subseteq Int
    /\ Never \notin Times
    /\ Nobody \notin Tasks
    /\ MaxCalls \in [Tasks -> Nat]
    /\ Operations \subseteq {"insert", "merge", "export", "import"}
    /\ Contents0 \subseteq Contents

VARIABLES
    database,   \* the rows of each database
    lock,       \* who holds its mutex
    pc,         \* "idle", "digests", "withheld" or "write"
    op,         \* the last operation a task has called
    own,        \* the database it was called on
    other,      \* the database it reads
    rows,       \* the rows a task has read
    answer,     \* how its last call ended
    calls,      \* how many calls it has made
    saved,      \* the last export that was finished
    before,     \* history: what the database a task reads held when it was called
    moments,    \* history: all that it has held since
    observed    \* history: every observation that was ever recorded

taskVars == <<op, own, other, calls, before>>
vars == <<database, lock, pc, op, own, other, rows, answer, calls, saved, before, moments,
          observed>>

RowsOf(c) == {<<e, c.invalid[e]>> : e \in {x \in Entries : c.invalid[x] # Never}} \cup c.withheld

TypeOK ==
    /\ database \in [Databases -> Contents]
    /\ lock \in [Databases -> Tasks \cup {Nobody}]
    /\ pc \in [Tasks -> {"idle", "digests", "withheld", "write"}]
    /\ op \in [Tasks -> {"insert", "merge", "export", "import"}]
    /\ own \in [Tasks -> Databases]
    /\ other \in [Tasks -> Databases]
    /\ rows \in [Tasks -> Contents]
    /\ answer \in [Tasks -> {"none", "ok", "error"}]
    /\ calls \in [Tasks -> Nat]
    /\ \A t \in Tasks : calls[t] <= MaxCalls[t]
    /\ saved \in Contents
    /\ before \in [Tasks -> Contents]
    /\ moments \in [Tasks -> SUBSET Contents]
    /\ observed \subseteq (Entries \cup Urls) \X Times

\* Every database has been opened, with or without rows of an earlier run.
Init ==
    /\ database \in [Databases -> Contents0]
    /\ lock = [d \in Databases |-> Nobody]
    /\ pc = [t \in Tasks |-> "idle"]
    /\ op = [t \in Tasks |-> "insert"]
    /\ own = [t \in Tasks |-> CHOOSE d \in Databases : TRUE]
    /\ other = [t \in Tasks |-> CHOOSE d \in Databases : TRUE]
    /\ rows = [t \in Tasks |-> Empty]
    /\ answer = [t \in Tasks |-> "none"]
    /\ calls = [t \in Tasks |-> 0]
    /\ saved = Empty
    /\ before = [t \in Tasks |-> Empty]
    /\ moments = [t \in Tasks |-> {}]
    /\ observed = UNION {RowsOf(database[d]) : d \in Databases}
-----------------------------------------------------------------------------
(* Times and rows *)

\* The earlier of two observations; a row that is not there was never observed.
Earlier(a, b) ==
    IF a = Never THEN b ELSE IF b = Never \/ a <= b THEN a ELSE b

\* c has every row of b, observed no later.
Covers(c, b) ==
    /\ \A e \in Entries :
         b.invalid[e] # Never => c.invalid[e] # Never /\ c.invalid[e] <= b.invalid[e]
    /\ b.withheld \subseteq c.withheld

\* ON CONFLICT DO UPDATE SET timestamp = MIN(...)
Merged(c, r) ==
    [invalid  |-> [e \in Entries |-> Earlier(c.invalid[e], r.invalid[e])],
     withheld |-> c.withheld \cup r.withheld]

\* INSERT OR IGNORE
KeepOld(old, new) == IF old = Never THEN new ELSE old
Inserted(c, r) ==
    [invalid  |-> [e \in Entries |-> KeepOld(c.invalid[e], r.invalid[e])],
     withheld |-> c.withheld \cup r.withheld]
-----------------------------------------------------------------------------
(* Calling, locking and unlocking *)

Begin(t, o, d, s, step) ==
    /\ pc[t] = "idle"
    /\ o \in Operations
    /\ calls[t] < MaxCalls[t]
    /\ calls' = [calls EXCEPT ![t] = @ + 1]
    /\ pc' = [pc EXCEPT ![t] = step]
    /\ op' = [op EXCEPT ![t] = o]
    /\ own' = [own EXCEPT ![t] = d]
    /\ other' = [other EXCEPT ![t] = s]
    /\ before' = [before EXCEPT ![t] = database[s]]
    /\ moments' = [moments EXCEPT ![t] = {database[s]}]
    /\ UNCHANGED <<database, lock, saved, observed>>

\* A merge reads the other database before it locks its own; merging a database into itself
\* does nothing.
CallMergeLocking(t) ==
    \E d, s \in Databases :
      /\ s # d
      /\ lock[d] = Nobody
      /\ pc[t] = "idle"
      /\ "merge" \in Operations
      /\ calls[t] < MaxCalls[t]
      /\ calls' = [calls EXCEPT ![t] = @ + 1]
      /\ pc' = [pc EXCEPT ![t] = "digests"]
      /\ op' = [op EXCEPT ![t] = "merge"]
      /\ own' = [own EXCEPT ![t] = d]
      /\ other' = [other EXCEPT ![t] = s]
      /\ before' = [before EXCEPT ![t] = database[s]]
      /\ moments' = [moments EXCEPT ![t] = {database[s]}]
      /\ answer' = [answer EXCEPT ![t] = "none"]
      /\ lock' = [lock EXCEPT ![d] = t]
      /\ UNCHANGED <<database, rows, saved, observed>>
CallMerge(t) ==
    \E d, s \in Databases :
      /\ Begin(t, "merge", d, s, IF d = s THEN "idle" ELSE "digests")
      /\ answer' = [answer EXCEPT ![t] = IF d = s THEN "ok" ELSE "none"]
      /\ UNCHANGED rows

CallExport(t) ==
    \E d \in Databases :
      /\ Begin(t, "export", d, d, "digests")
      /\ answer' = [answer EXCEPT ![t] = "none"]
      /\ UNCHANGED rows

CallImport(t) ==
    \E d \in Databases :
      /\ Begin(t, "import", d, d, "write")
      /\ answer' = [answer EXCEPT ![t] = "none"]
      /\ rows' = [rows EXCEPT ![t] = saved]

CallInsert(t) ==
    \E d \in Databases :
      /\ Begin(t, "insert", d, d, "write")
      /\ answer' = [answer EXCEPT ![t] = "none"]
      /\ UNCHANGED rows

\* The database whose mutex the task needs next.
Needed(t) == IF pc[t] = "write" THEN own[t] ELSE other[t]

Lock(t) ==
    /\ pc[t] # "idle"
    /\ lock[Needed(t)] = Nobody
    /\ lock' = [lock EXCEPT ![Needed(t)] = t]
    /\ UNCHANGED <<database, pc, taskVars, rows, answer, saved, moments, observed>>

Holds(t) == pc[t] # "idle" /\ lock[Needed(t)] = t

\* The guard is dropped, and the task goes on or its call ends.
UnlockTo(t, step) ==
    /\ lock' = [lock EXCEPT ![Needed(t)] = Nobody]
    /\ pc' = [pc EXCEPT ![t] = step]
    /\ answer' = [answer EXCEPT ![t] = IF step = "idle" THEN "ok" ELSE @]
-----------------------------------------------------------------------------
(* Under the mutex *)

ReadDigestsStale(t) ==
    /\ pc[t] = "digests"
    /\ Holds(t)
    /\ UnlockTo(t, "withheld")
    /\ UNCHANGED <<database, taskVars, rows, saved, moments, observed>>
ReadDigests(t) ==
    /\ pc[t] = "digests"
    /\ Holds(t)
    /\ rows' = [rows EXCEPT ![t].invalid = database[other[t]].invalid]
    /\ UnlockTo(t, "withheld")
    /\ UNCHANGED <<database, taskVars, saved, moments, observed>>

ReadWithheld(t) ==
    /\ pc[t] = "withheld"
    /\ Holds(t)
    /\ rows' = [rows EXCEPT ![t].withheld = database[other[t]].withheld]
    /\ IF op[t] = "merge"
       THEN UnlockTo(t, "write") /\ UNCHANGED saved
       ELSE UnlockTo(t, "idle") /\ saved' = rows'[t]
    /\ UNCHANGED <<database, taskVars, moments, observed>>

\* A statement or transaction of t leaves its database with these rows.
Commit(t, new) ==
    /\ pc[t] = "write"
    /\ Holds(t)
    /\ database' = [database EXCEPT ![own[t]] = new]
    /\ moments' = [u \in Tasks |->
         IF pc[u] \in {"digests", "withheld"} /\ other[u] = own[t]
         THEN moments[u] \cup {new} ELSE moments[u]]
    /\ UnlockTo(t, "idle")
    /\ UNCHANGED <<taskVars, rows, saved>>

\* One row, or none when it is there already.
Insert(t) ==
    /\ op[t] = "insert"
    /\ \E n \in Times :
         \/ \E e \in Entries :
              LET seen == [Empty EXCEPT !.invalid[e] = n]
              IN  /\ Commit(t, Inserted(database[own[t]], seen))
                  /\ observed' = observed \cup {<<e, n>>}
         \/ \E u \in Urls :
              LET seen == [Empty EXCEPT !.withheld = {<<u, n>>}]
              IN  /\ Commit(t, Inserted(database[own[t]], seen))
                  /\ observed' = observed \cup {<<u, n>>}

MergeIgnores(t) ==
    /\ op[t] = "merge"
    /\ Commit(t, Inserted(database[own[t]], rows[t]))
    /\ UNCHANGED observed
MergeReplaces(t) ==
    /\ op[t] = "merge"
    /\ Commit(t, rows[t])
    /\ UNCHANGED observed
Merge(t) ==
    /\ op[t] = "merge"
    /\ Commit(t, Merged(database[own[t]], rows[t]))
    /\ UNCHANGED observed

Import(t) ==
    /\ op[t] = "import"
    /\ Commit(t, Inserted(database[own[t]], rows[t]))
    /\ UNCHANGED observed

\* A statement fails or the task panics: the transaction is rolled back and the mutex is free.
Fail(t) ==
    /\ Holds(t)
    /\ lock' = [lock EXCEPT ![Needed(t)] = Nobody]
    /\ pc' = [pc EXCEPT ![t] = "idle"]
    /\ answer' = [answer EXCEPT ![t] = "error"]
    /\ UNCHANGED <<database, taskVars, rows, saved, moments, observed>>

Call(t) == CallMerge(t) \/ CallExport(t) \/ CallImport(t) \/ CallInsert(t)
Work(t) ==
    \/ Lock(t) \/ ReadDigests(t) \/ ReadWithheld(t)
    \/ Insert(t) \/ Merge(t) \/ Import(t) \/ Fail(t)

Next == \E t \in Tasks : Call(t) \/ Work(t)

\* A task that can go on does.  The mutex is not fair: that every call ends rests on there being
\* finitely many of them.
Spec == Init /\ [][Next]_vars /\ \A t \in Tasks : WF_vars(Work(t))
-----------------------------------------------------------------------------
(* Properties *)

Ended(t, o) == pc[t] = "idle" /\ op[t] = o /\ answer[t] = "ok"

\* No row is ever lost, and an observation time only becomes earlier.
NothingForgotten == [][\A d \in Databases : Covers(database'[d], database[d])]_vars

\* Whatever was merged, exported and imported in any order, every row was once observed as it
\* stands: no operation makes one up or mixes two.
NothingInvented ==
    /\ \A d \in Databases : RowsOf(database[d]) \subseteq observed
    /\ RowsOf(saved) \subseteq observed

\* After a merge the database has every row the other one had when it was called, observed no
\* later, even if both were written to in between.
MergeCovers == \A t \in Tasks : Ended(t, "merge") => Covers(database[own[t]], before[t])

\* An export lies between what the database held when it began and what it holds now.
ExportBetween ==
    \A t \in Tasks : Ended(t, "export") =>
      /\ Covers(rows[t], before[t])
      /\ Covers(database[own[t]], rows[t])

\* What calls leave behind and return is true of the databases, whoever else was at work: nothing
\* was made up, a merge has what it was asked to merge, an export lies between two states.
CallsAreTruthful == NothingInvented /\ MergeCovers /\ ExportBetween

\* An import adds the rows that are missing and leaves the times of the others; into an empty
\* database it reproduces the export.
ImportAdds ==
    [][\A t \in Tasks :
         pc[t] = "write" /\ op[t] = "import" /\ pc'[t] = "idle" /\ answer'[t] = "ok" =>
           LET d == own[t]
           IN  /\ \A e \in Entries : database[d].invalid[e] # Never
                                       => database'[d].invalid[e] = database[d].invalid[e]
               /\ Covers([database'[d] EXCEPT !.invalid = rows[t].invalid], rows[t])
               /\ database[d] = Empty => database'[d] = rows[t]]_vars

\* Two databases that were merged into each other agree, in whichever order the steps of the
\* two merges happened, when nothing else was called.
MergesConverge ==
    \A t, u \in Tasks :
      /\ Ended(t, "merge") /\ Ended(u, "merge")
      /\ own[t] = other[u] /\ other[t] = own[u]
      /\ \A x \in Tasks : calls[x] = (IF x \in {t, u} THEN 1 ELSE 0)
      => database[own[t]] = database[own[u]]

\* Every call ends, with any databases merged into each other at the same time.
CallsEnd == \A t \in Tasks : []<>(pc[t] = "idle")

\* "Each operation is a single statement or transaction": an export is what the database held
\* at one moment.
ExportIsASnapshot == \A t \in Tasks : Ended(t, "export") => rows[t] \in moments[t]
=============================================================================
