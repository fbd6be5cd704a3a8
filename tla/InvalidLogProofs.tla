-------------------------- MODULE InvalidLogProofs --------------------------
(***************************************************************************)
(* Proofs about InvalidLog for every number of databases, tasks, rows and  *)
(* times: nothing recorded is lost or made up, a merge, an export and an   *)
(* import give what they promise whatever happens between their steps, and *)
(* two databases merged into each other end alike.                         *)
(***************************************************************************)
EXTENDS InvalidLog, TLAPS

(* What the two statements for a row do to the rows of a database. *)

LEMMA TimesAreNumbers ==
    \A n \in Times : n \in Int /\ n # Never /\ n <= n
<1> SUFFICES ASSUME NEW n \in Times
             PROVE  n \in Int /\ n # Never /\ n <= n
    OBVIOUS
<1>1. n \in Int /\ n # Never
    BY LogAssumption
<1> QED BY <1>1

LEMMA CoversReflexive ==
    ASSUME NEW c \in Contents
    PROVE  Covers(c, c)
<1> SUFFICES ASSUME NEW e \in Entries, c.invalid[e] # Never
             PROVE  c.invalid[e] <= c.invalid[e]
    BY DEF Covers
<1>1. c.invalid[e] \in Times
    BY DEF Contents
<1> QED BY <1>1, TimesAreNumbers

LEMMA CoversTransitive ==
    ASSUME NEW a \in Contents, NEW b \in Contents, NEW c \in Contents,
           Covers(a, b), Covers(b, c)
    PROVE  Covers(a, c)
<1> SUFFICES ASSUME NEW e \in Entries, c.invalid[e] # Never
             PROVE  a.invalid[e] # Never /\ a.invalid[e] <= c.invalid[e]
    BY DEF Covers
<1>1. b.invalid[e] # Never /\ b.invalid[e] <= c.invalid[e]
    BY DEF Covers
<1>2. a.invalid[e] # Never /\ a.invalid[e] <= b.invalid[e]
    BY <1>1 DEF Covers
<1>3. a.invalid[e] \in Int /\ b.invalid[e] \in Int /\ c.invalid[e] \in Int
    BY <1>1, <1>2, LogAssumption DEF Contents
<1> QED BY <1>1, <1>2, <1>3

LEMMA EmptyIsContents ==
    Empty \in Contents /\ RowsOf(Empty) = {}
BY DEF Empty, Contents, RowsOf

LEMMA RowsAreObservations ==
    ASSUME NEW c \in Contents
    PROVE  RowsOf(c) \subseteq (Entries \cup Urls) \X Times
BY DEF Contents, RowsOf

\* The merge statement: the rows of both sides, each at its earlier time.
LEMMA MergedRows ==
    ASSUME NEW c \in Contents, NEW r \in Contents
    PROVE  LET w == Merged(c, r)
           IN  /\ w \in Contents
               /\ Covers(w, c)
               /\ Covers(w, r)
               /\ RowsOf(w) \subseteq RowsOf(c) \cup RowsOf(r)
<1> DEFINE w == Merged(c, r)
<1>1. /\ w.withheld = c.withheld \cup r.withheld
      /\ DOMAIN w.invalid = Entries
      /\ \A e \in Entries : w.invalid[e] = Earlier(c.invalid[e], r.invalid[e])
      /\ w = [invalid |-> [e \in Entries |-> Earlier(c.invalid[e], r.invalid[e])],
              withheld |-> c.withheld \cup r.withheld]
    BY DEF Merged
<1>2. \A e \in Entries :
        /\ c.invalid[e] \in Times \cup {Never}
        /\ r.invalid[e] \in Times \cup {Never}
    BY DEF Contents
<1>3. \A e \in Entries :
        /\ w.invalid[e] \in Times \cup {Never}
        /\ w.invalid[e] \in {c.invalid[e], r.invalid[e]}
        /\ c.invalid[e] # Never => w.invalid[e] # Never /\ w.invalid[e] <= c.invalid[e]
        /\ r.invalid[e] # Never => w.invalid[e] # Never /\ w.invalid[e] <= r.invalid[e]
    <2> HIDE DEF w
    <2> SUFFICES ASSUME NEW e \in Entries,
                        NEW a, a = c.invalid[e], NEW b, b = r.invalid[e]
                 PROVE  LET x == Earlier(a, b)
                        IN  /\ x \in Times \cup {Never}
                            /\ x \in {a, b}
                            /\ a # Never => x # Never /\ x <= a
                            /\ b # Never => x # Never /\ x <= b
        BY <1>1
    <2>1. a \in Times \cup {Never} /\ b \in Times \cup {Never}
        BY <1>2
    <2>0. \A n \in Times : n \in Int /\ n # Never
        BY LogAssumption
    <2>2. CASE a = Never
        BY <2>0, <2>1, <2>2 DEF Earlier
    <2>3. CASE a # Never /\ b = Never
        BY <2>0, <2>1, <2>3 DEF Earlier
    <2>4. CASE a # Never /\ b # Never
        BY <2>0, <2>1, <2>4 DEF Earlier
    <2> QED BY <2>2, <2>3, <2>4
<1>4. w \in Contents
    <2>1. w.withheld \subseteq Urls \X Times
        BY <1>1 DEF Contents
    <2>2. [e \in Entries |-> Earlier(c.invalid[e], r.invalid[e])]
            \in [Entries -> Times \cup {Never}]
        BY <1>1, <1>3
    <2> QED BY <2>1, <2>2, <1>1 DEF Contents
<1> HIDE DEF w
<1>5. Covers(w, c) /\ Covers(w, r)
    BY <1>1, <1>3 DEF Covers
<1>6. RowsOf(w) \subseteq RowsOf(c) \cup RowsOf(r)
    <2> SUFFICES ASSUME NEW e \in Entries, w.invalid[e] # Never
                 PROVE  <<e, w.invalid[e]>> \in RowsOf(c) \cup RowsOf(r)
        BY <1>1 DEF RowsOf
    <2> QED BY <1>3 DEF RowsOf
<1> QED BY <1>4, <1>5, <1>6 DEF w

\* The insert statement: a row that is there already stays as it is.
LEMMA KeptRows ==
    ASSUME NEW c \in Contents, NEW r \in Contents
    PROVE  LET w == Inserted(c, r)
           IN  /\ w \in Contents
               /\ Covers(w, c)
               /\ RowsOf(w) \subseteq RowsOf(c) \cup RowsOf(r)
               /\ \A e \in Entries : c.invalid[e] # Never => w.invalid[e] = c.invalid[e]
               /\ \A e \in Entries : r.invalid[e] # Never => w.invalid[e] # Never
               /\ r.withheld \subseteq w.withheld
               /\ c = Empty => w = r
<1> DEFINE w == Inserted(c, r)
<1>1. /\ w.withheld = c.withheld \cup r.withheld
      /\ \A e \in Entries : w.invalid[e] = KeepOld(c.invalid[e], r.invalid[e])
      /\ w = [invalid |-> [e \in Entries |-> KeepOld(c.invalid[e], r.invalid[e])],
              withheld |-> c.withheld \cup r.withheld]
    BY DEF Inserted
<1>2. \A e \in Entries :
        /\ c.invalid[e] \in Times \cup {Never}
        /\ r.invalid[e] \in Times \cup {Never}
    BY DEF Contents
<1>3. \A e \in Entries :
        /\ KeepOld(c.invalid[e], r.invalid[e]) \in Times \cup {Never}
        /\ w.invalid[e] \in {c.invalid[e], r.invalid[e]}
        /\ c.invalid[e] # Never => w.invalid[e] = c.invalid[e]
        /\ r.invalid[e] # Never => w.invalid[e] # Never
    BY <1>1, <1>2 DEF KeepOld
<1>4. w \in Contents
    <2>1. c.withheld \cup r.withheld \subseteq Urls \X Times
        BY DEF Contents
    <2>2. [e \in Entries |-> KeepOld(c.invalid[e], r.invalid[e])]
            \in [Entries -> Times \cup {Never}]
        BY <1>3
    <2> QED BY <2>1, <2>2, <1>1 DEF Contents
<1>5. c = Empty => w = r
    <2> SUFFICES ASSUME c = Empty PROVE w = r
        OBVIOUS
    <2>1. \A e \in Entries : KeepOld(c.invalid[e], r.invalid[e]) = r.invalid[e]
        BY DEF Empty, KeepOld
    <2>2. [e \in Entries |-> KeepOld(c.invalid[e], r.invalid[e])] = r.invalid
        BY <2>1 DEF Contents
    <2>3. c.withheld \cup r.withheld = r.withheld
        BY DEF Empty
    <2>4. r = [invalid |-> r.invalid, withheld |-> r.withheld]
        BY DEF Contents
    <2> QED BY <2>2, <2>3, <2>4, <1>1
<1> HIDE DEF w
<1>6. Covers(w, c)
    <2> SUFFICES ASSUME NEW e \in Entries, c.invalid[e] # Never
                 PROVE  w.invalid[e] # Never /\ w.invalid[e] <= c.invalid[e]
        BY <1>1 DEF Covers
    <2>1. w.invalid[e] = c.invalid[e] /\ c.invalid[e] \in Int
        BY <1>2, <1>3, LogAssumption
    <2> QED BY <2>1
<1>7. RowsOf(w) \subseteq RowsOf(c) \cup RowsOf(r)
    <2> SUFFICES ASSUME NEW e \in Entries, w.invalid[e] # Never
                 PROVE  <<e, w.invalid[e]>> \in RowsOf(c) \cup RowsOf(r)
        BY <1>1 DEF RowsOf
    <2> QED BY <1>3 DEF RowsOf
<1> QED BY <1>1, <1>3, <1>4, <1>5, <1>6, <1>7 DEF w
-----------------------------------------------------------------------------
(* Types *)

LEMMA InitTypes == Init => TypeOK
<1> SUFFICES ASSUME Init PROVE TypeOK
    OBVIOUS
<1>1. \A c \in Contents0 : c \in Contents
    BY LogAssumption
<1>2. (CHOOSE d \in Databases : TRUE) \in Databases
    BY LogAssumption
<1>3. database \in [Databases -> Contents]
    BY <1>1 DEF Init
<1>4. observed \subseteq (Entries \cup Urls) \X Times
    <2>1. \A d \in Databases : RowsOf(database[d]) \subseteq (Entries \cup Urls) \X Times
        BY <1>3, RowsAreObservations
    <2> QED BY <2>1 DEF Init
<1>5. /\ own \in [Tasks -> Databases]
      /\ other \in [Tasks -> Databases]
    BY <1>2 DEF Init
<1>6. \A t \in Tasks : 0 <= MaxCalls[t]
    BY LogAssumption
<1>7. /\ lock \in [Databases -> Tasks \cup {Nobody}]
      /\ pc \in [Tasks -> {"idle", "digests", "withheld", "write"}]
      /\ op \in [Tasks -> {"insert", "merge", "export", "import"}]
      /\ answer \in [Tasks -> {"none", "ok", "error"}]
      /\ calls \in [Tasks -> Nat]
      /\ \A t \in Tasks : calls[t] <= MaxCalls[t]
      /\ moments \in [Tasks -> SUBSET Contents]
    BY <1>6 DEF Init
<1>8. /\ rows \in [Tasks -> Contents]
      /\ before \in [Tasks -> Contents]
      /\ saved \in Contents
    BY EmptyIsContents DEF Init
<1> QED BY <1>3, <1>4, <1>5, <1>7, <1>8 DEF TypeOK

\* What Begin does to the types, given where it leads.
LEMMA BeginTypes ==
    ASSUME TypeOK, NEW t \in Tasks, NEW d \in Databases, NEW s \in Databases,
           NEW o \in {"insert", "merge", "export", "import"},
           NEW step \in {"idle", "digests", "withheld", "write"},
           Begin(t, o, d, s, step),
           rows' \in [Tasks -> Contents],
           answer' \in [Tasks -> {"none", "ok", "error"}]
    PROVE  TypeOK'
<1>1. database[s] \in Contents
    BY DEF TypeOK
<1>2. /\ before' \in [Tasks -> Contents]
      /\ moments' \in [Tasks -> SUBSET Contents]
    BY <1>1 DEF TypeOK, Begin
<1>3. /\ pc' \in [Tasks -> {"idle", "digests", "withheld", "write"}]
      /\ op' \in [Tasks -> {"insert", "merge", "export", "import"}]
      /\ own' \in [Tasks -> Databases]
      /\ other' \in [Tasks -> Databases]
    BY DEF TypeOK, Begin
<1>4. /\ calls' \in [Tasks -> Nat]
      /\ \A u \in Tasks : calls'[u] <= MaxCalls[u]
    <2>1. /\ calls \in [Tasks -> Nat]
          /\ \A u \in Tasks : calls[u] <= MaxCalls[u]
          /\ calls' = [calls EXCEPT ![t] = @ + 1]
          /\ calls[t] < MaxCalls[t]
        BY DEF TypeOK, Begin
    <2>2. \A u \in Tasks : MaxCalls[u] \in Nat
        BY LogAssumption
    <2>3. \A u \in Tasks : calls'[u] \in Nat /\ calls'[u] <= MaxCalls[u]
        <3> SUFFICES ASSUME NEW u \in Tasks
                     PROVE  calls'[u] \in Nat /\ calls'[u] <= MaxCalls[u]
            OBVIOUS
        <3>1. calls'[u] = IF u = t THEN calls[t] + 1 ELSE calls[u]
            BY <2>1
        <3>2. calls[u] \in Nat /\ calls[t] \in Nat /\ MaxCalls[u] \in Nat /\ MaxCalls[t] \in Nat
            BY <2>1, <2>2
        <3> QED BY <2>1, <3>1, <3>2
    <2> QED BY <2>1, <2>3
<1>5. /\ database' \in [Databases -> Contents]
      /\ lock' \in [Databases -> Tasks \cup {Nobody}]
      /\ saved' \in Contents
      /\ observed' \subseteq (Entries \cup Urls) \X Times
    BY DEF TypeOK, Begin
<1> QED BY <1>2, <1>3, <1>4, <1>5 DEF TypeOK

\* What a statement that leaves the rows new does to the types.
LEMMA CommitTypes ==
    ASSUME TypeOK, NEW t \in Tasks, NEW new \in Contents, Commit(t, new),
           observed' \subseteq (Entries \cup Urls) \X Times
    PROVE  TypeOK'
<1>1. database' \in [Databases -> Contents]
    BY DEF TypeOK, Commit
<1>2. moments' \in [Tasks -> SUBSET Contents]
    BY DEF TypeOK, Commit
<1>3. /\ lock' \in [Databases -> Tasks \cup {Nobody}]
      /\ pc' \in [Tasks -> {"idle", "digests", "withheld", "write"}]
      /\ answer' \in [Tasks -> {"none", "ok", "error"}]
    BY DEF TypeOK, Commit, UnlockTo
<1>4. UNCHANGED <<op, own, other, calls, before, rows, saved>>
    BY DEF Commit, taskVars
<1> QED BY <1>1, <1>2, <1>3, <1>4 DEF TypeOK

\* What an insert writes: one row, and its observation.
LEMMA InsertedRows ==
    ASSUME TypeOK, NEW t \in Tasks, Insert(t)
    PROVE  \E seen \in Contents :
             /\ Commit(t, Inserted(database[own[t]], seen))
             /\ RowsOf(seen) \subseteq observed'
             /\ observed \subseteq observed'
             /\ observed' \subseteq (Entries \cup Urls) \X Times
<1>1. PICK n \in Times :
        \/ \E e \in Entries :
             LET seen == [Empty EXCEPT !.invalid[e] = n]
             IN  /\ Commit(t, Inserted(database[own[t]], seen))
                 /\ observed' = observed \cup {<<e, n>>}
        \/ \E u \in Urls :
             LET seen == [Empty EXCEPT !.withheld = {<<u, n>>}]
             IN  /\ Commit(t, Inserted(database[own[t]], seen))
                 /\ observed' = observed \cup {<<u, n>>}
    BY DEF Insert
<1>2. CASE \E e \in Entries :
             LET seen == [Empty EXCEPT !.invalid[e] = n]
             IN  /\ Commit(t, Inserted(database[own[t]], seen))
                 /\ observed' = observed \cup {<<e, n>>}
    <2>1. PICK e \in Entries :
             /\ Commit(t, Inserted(database[own[t]], [Empty EXCEPT !.invalid[e] = n]))
             /\ observed' = observed \cup {<<e, n>>}
        BY <1>2
    <2>2. [Empty EXCEPT !.invalid[e] = n] \in Contents
        BY DEF Empty, Contents
    <2>3. RowsOf([Empty EXCEPT !.invalid[e] = n]) \subseteq {<<e, n>>}
        BY DEF Empty, RowsOf
    <2>4. observed' \subseteq (Entries \cup Urls) \X Times
        BY <2>1 DEF TypeOK
    <2> QED BY <2>1, <2>2, <2>3, <2>4
<1>3. CASE \E u \in Urls :
             LET seen == [Empty EXCEPT !.withheld = {<<u, n>>}]
             IN  /\ Commit(t, Inserted(database[own[t]], seen))
                 /\ observed' = observed \cup {<<u, n>>}
    <2>1. PICK u \in Urls :
             /\ Commit(t, Inserted(database[own[t]], [Empty EXCEPT !.withheld = {<<u, n>>}]))
             /\ observed' = observed \cup {<<u, n>>}
        BY <1>3
    <2>2. [Empty EXCEPT !.withheld = {<<u, n>>}] \in Contents
        BY DEF Empty, Contents
    <2>3. RowsOf([Empty EXCEPT !.withheld = {<<u, n>>}]) \subseteq {<<u, n>>}
        BY DEF Empty, RowsOf
    <2>4. observed' \subseteq (Entries \cup Urls) \X Times
        BY <2>1 DEF TypeOK
    <2> QED BY <2>1, <2>2, <2>3, <2>4
<1> QED BY <1>1, <1>2, <1>3

\* What the acting task reads is what the database holds.
LEMMA ReadTypes ==
    ASSUME TypeOK, NEW t \in Tasks, ReadDigests(t) \/ ReadWithheld(t)
    PROVE  /\ rows' \in [Tasks -> Contents]
           /\ saved' \in Contents
<1>1. database[other[t]] \in Contents /\ rows[t] \in Contents
    BY DEF TypeOK
<1>2. CASE ReadDigests(t)
    <2>1. [rows[t] EXCEPT !.invalid = database[other[t]].invalid] \in Contents
        BY <1>1 DEF Contents
    <2>2. rows' = [rows EXCEPT ![t] = [rows[t] EXCEPT !.invalid = database[other[t]].invalid]]
        BY <1>2 DEF ReadDigests
    <2> QED BY <2>1, <2>2, <1>2 DEF ReadDigests, TypeOK
<1>3. CASE ReadWithheld(t)
    <2>1. [rows[t] EXCEPT !.withheld = database[other[t]].withheld] \in Contents
        BY <1>1 DEF Contents
    <2>2. rows' = [rows EXCEPT ![t] = [rows[t] EXCEPT !.withheld = database[other[t]].withheld]]
        BY <1>3 DEF ReadWithheld
    <2>3. rows' \in [Tasks -> Contents]
        BY <2>1, <2>2 DEF TypeOK
    <2>4. saved' = saved \/ saved' = rows'[t]
        BY <1>3 DEF ReadWithheld
    <2> QED BY <2>3, <2>4 DEF TypeOK
<1> QED BY <1>2, <1>3

LEMMA NextTypes == TypeOK /\ [Next]_vars => TypeOK'
<1> SUFFICES ASSUME TypeOK, [Next]_vars PROVE TypeOK'
    OBVIOUS
<1>1. CASE UNCHANGED vars
    BY <1>1 DEF TypeOK, vars
<1>2. ASSUME NEW t \in Tasks, CallMerge(t) PROVE TypeOK'
    <2>1. PICK d \in Databases, s \in Databases :
            /\ Begin(t, "merge", d, s, IF d = s THEN "idle" ELSE "digests")
            /\ answer' = [answer EXCEPT ![t] = IF d = s THEN "ok" ELSE "none"]
            /\ UNCHANGED rows
        BY <1>2 DEF CallMerge
    <2>2. /\ rows' \in [Tasks -> Contents]
          /\ answer' \in [Tasks -> {"none", "ok", "error"}]
        BY <2>1 DEF TypeOK
    <2> QED BY <2>1, <2>2, BeginTypes
<1>3. ASSUME NEW t \in Tasks, CallExport(t) PROVE TypeOK'
    <2>1. /\ rows' \in [Tasks -> Contents]
          /\ answer' \in [Tasks -> {"none", "ok", "error"}]
        BY <1>3 DEF TypeOK, CallExport
    <2> QED BY <1>3, <2>1, BeginTypes DEF CallExport
<1>4. ASSUME NEW t \in Tasks, CallImport(t) PROVE TypeOK'
    <2>1. /\ rows' \in [Tasks -> Contents]
          /\ answer' \in [Tasks -> {"none", "ok", "error"}]
        BY <1>4 DEF TypeOK, CallImport
    <2> QED BY <1>4, <2>1, BeginTypes DEF CallImport
<1>5. ASSUME NEW t \in Tasks, CallInsert(t) PROVE TypeOK'
    <2>1. /\ rows' \in [Tasks -> Contents]
          /\ answer' \in [Tasks -> {"none", "ok", "error"}]
        BY <1>5 DEF TypeOK, CallInsert
    <2> QED BY <1>5, <2>1, BeginTypes DEF CallInsert
<1>6. ASSUME NEW t \in Tasks, Lock(t) PROVE TypeOK'
    BY <1>6 DEF Lock, TypeOK, taskVars
<1>7. ASSUME NEW t \in Tasks, ReadDigests(t) \/ ReadWithheld(t) PROVE TypeOK'
    <2>1. /\ rows' \in [Tasks -> Contents]
          /\ saved' \in Contents
        BY <1>7, ReadTypes
    <2>2. UNCHANGED <<database, op, own, other, calls, before, moments, observed>>
        BY <1>7 DEF ReadDigests, ReadWithheld, taskVars
    <2>3. /\ lock' \in [Databases -> Tasks \cup {Nobody}]
          /\ pc' \in [Tasks -> {"idle", "digests", "withheld", "write"}]
          /\ answer' \in [Tasks -> {"none", "ok", "error"}]
        BY <1>7 DEF ReadDigests, ReadWithheld, UnlockTo, TypeOK
    <2> QED BY <2>1, <2>2, <2>3 DEF TypeOK
<1>8. ASSUME NEW t \in Tasks, Insert(t) PROVE TypeOK'
    <2>1. PICK seen \in Contents :
            /\ Commit(t, Inserted(database[own[t]], seen))
            /\ observed' \subseteq (Entries \cup Urls) \X Times
        BY <1>8, InsertedRows
    <2>2. database[own[t]] \in Contents
        BY DEF TypeOK
    <2>3. Inserted(database[own[t]], seen) \in Contents
        BY <2>2, KeptRows
    <2> QED BY <2>1, <2>3, CommitTypes
<1>9. ASSUME NEW t \in Tasks, Merge(t) \/ Import(t) PROVE TypeOK'
    <2>1. database[own[t]] \in Contents /\ rows[t] \in Contents
        BY DEF TypeOK
    <2>2. PICK new \in Contents : Commit(t, new)
        BY <1>9, <2>1, KeptRows, MergedRows DEF Merge, Import
    <2>3. observed' \subseteq (Entries \cup Urls) \X Times
        BY <1>9 DEF Merge, Import, TypeOK
    <2> QED BY <2>2, <2>3, CommitTypes
<1>10. ASSUME NEW t \in Tasks, Fail(t) PROVE TypeOK'
    BY <1>10 DEF Fail, TypeOK, taskVars
<1> QED BY <1>1, <1>2, <1>3, <1>4, <1>5, <1>6, <1>7, <1>8, <1>9, <1>10
        DEF Next, Call, Work

\* Every variable keeps to its type, whatever is called on however many databases.
THEOREM LogTypeCorrect == Spec => []TypeOK
BY InitTypes, NextTypes, PTL DEF Spec
-----------------------------------------------------------------------------
(* Nothing is forgotten *)

\* The rows a step may change: those of one database, and it keeps what that one had.
LEMMA DatabasesGrow ==
    TypeOK /\ [Next]_vars => \A d \in Databases : Covers(database'[d], database[d])
<1> SUFFICES ASSUME TypeOK, [Next]_vars,
                    NEW d \in Databases
             PROVE  Covers(database'[d], database[d])
    OBVIOUS
<1>1. database[d] \in Contents
    BY DEF TypeOK
<1>2. CASE UNCHANGED database
    BY <1>1, <1>2, CoversReflexive
<1>3. ASSUME NEW t \in Tasks, NEW r \in Contents,
             Commit(t, Merged(database[own[t]], r))
      PROVE  Covers(database'[d], database[d])
    <2>1. own[t] \in Databases /\ database[own[t]] \in Contents
        BY DEF TypeOK
    <2>2. Covers(Merged(database[own[t]], r), database[own[t]])
        BY <2>1, MergedRows
    <2>3. database' = [database EXCEPT ![own[t]] = Merged(database[own[t]], r)]
        BY <1>3 DEF Commit
    <2>4. database'[d] = IF d = own[t] THEN Merged(database[own[t]], r)
                                       ELSE database[d]
        BY <2>1, <2>3 DEF TypeOK
    <2> QED BY <2>2, <2>4, <1>1, CoversReflexive
<1>4. ASSUME NEW t \in Tasks, NEW r \in Contents,
             Commit(t, Inserted(database[own[t]], r))
      PROVE  Covers(database'[d], database[d])
    <2>1. own[t] \in Databases /\ database[own[t]] \in Contents
        BY DEF TypeOK
    <2>2. Covers(Inserted(database[own[t]], r), database[own[t]])
        BY <2>1, KeptRows
    <2>3. database' = [database EXCEPT ![own[t]] = Inserted(database[own[t]], r)]
        BY <1>4 DEF Commit
    <2>4. database'[d] = IF d = own[t] THEN Inserted(database[own[t]], r)
                                       ELSE database[d]
        BY <2>1, <2>3 DEF TypeOK
    <2> QED BY <2>2, <2>4, <1>1, CoversReflexive
<1>5. ASSUME NEW t \in Tasks, Insert(t) PROVE Covers(database'[d], database[d])
    BY <1>5, <1>4, InsertedRows
<1>6. ASSUME NEW t \in Tasks, Merge(t) \/ Import(t) PROVE Covers(database'[d], database[d])
    <2>1. rows[t] \in Contents
        BY DEF TypeOK
    <2> QED BY <2>1, <1>3, <1>4, <1>6 DEF Merge, Import
<1>7. ASSUME NEW t \in Tasks,
             Call(t) \/ Lock(t) \/ ReadDigests(t) \/ ReadWithheld(t) \/ Fail(t)
      PROVE  UNCHANGED database
    BY <1>7 DEF Call, CallMerge, CallExport, CallImport, CallInsert, Begin, Lock, ReadDigests,
                ReadWithheld, Fail
<1> QED BY <1>2, <1>5, <1>6, <1>7 DEF Next, Work, vars

\* No row is ever lost, and an observation time only becomes earlier.
THEOREM LogForgetsNothing == Spec => NothingForgotten
<1>1. TypeOK /\ [Next]_vars => [\A d \in Databases : Covers(database'[d], database[d])]_vars
    BY DatabasesGrow
<1> QED BY <1>1, LogTypeCorrect, PTL DEF Spec, NothingForgotten
-----------------------------------------------------------------------------
(* Nothing is made up *)

AllObserved ==
    /\ \A d \in Databases : RowsOf(database[d]) \subseteq observed
    /\ RowsOf(saved) \subseteq observed
    /\ \A t \in Tasks : RowsOf(rows[t]) \subseteq observed

LEMMA NextObserved == TypeOK /\ AllObserved /\ [Next]_vars => AllObserved'
<1> SUFFICES ASSUME TypeOK, AllObserved, [Next]_vars PROVE AllObserved'
    OBVIOUS
<1>1. CASE UNCHANGED <<database, saved, rows, observed>>
    BY <1>1 DEF AllObserved
\* A statement that adds the rows r, all of them observed.
<1>2. ASSUME NEW t \in Tasks, NEW new \in Contents, NEW r \in Contents, Commit(t, new),
             RowsOf(new) \subseteq RowsOf(database[own[t]]) \cup RowsOf(r),
             RowsOf(r) \subseteq observed', observed \subseteq observed'
      PROVE  AllObserved'
    <2>1. \A d \in Databases : database'[d] = IF d = own[t] THEN new ELSE database[d]
        BY <1>2 DEF Commit, TypeOK
    <2>2. RowsOf(new) \subseteq observed'
        BY <1>2 DEF AllObserved, TypeOK
    <2>3. \A d \in Databases : RowsOf(database'[d]) \subseteq observed'
        BY <2>1, <2>2, <1>2 DEF AllObserved
    <2>4. UNCHANGED <<saved, rows>>
        BY <1>2 DEF Commit
    <2> QED BY <2>3, <2>4, <1>2 DEF AllObserved
<1>3. ASSUME NEW t \in Tasks, Insert(t) PROVE AllObserved'
    <2>1. PICK seen \in Contents :
            /\ Commit(t, Inserted(database[own[t]], seen))
            /\ RowsOf(seen) \subseteq observed'
            /\ observed \subseteq observed'
        BY <1>3, InsertedRows
    <2>2. database[own[t]] \in Contents
        BY DEF TypeOK
    <2> QED BY <1>2, <2>1, <2>2, KeptRows
<1>4. ASSUME NEW t \in Tasks, Merge(t) \/ Import(t) PROVE AllObserved'
    <2>1. database[own[t]] \in Contents /\ rows[t] \in Contents
        BY DEF TypeOK
    <2>2. RowsOf(rows[t]) \subseteq observed' /\ observed \subseteq observed'
        BY <1>4 DEF Merge, Import, AllObserved
    <2>3. CASE Merge(t)
        BY <2>1, <2>2, <2>3, <1>2, MergedRows DEF Merge
    <2>4. CASE Import(t)
        BY <2>1, <2>2, <2>4, <1>2, KeptRows DEF Import
    <2> QED BY <1>4, <2>3, <2>4
\* What is read is part of what a database holds, beside what the task had read before.
<1>5. ASSUME NEW t \in Tasks, ReadDigests(t) \/ ReadWithheld(t) PROVE AllObserved'
    <2>1. other[t] \in Databases /\ rows[t] \in Contents
        BY DEF TypeOK
    <2>2. UNCHANGED <<database, observed>>
        BY <1>5 DEF ReadDigests, ReadWithheld
    <2>3. RowsOf(rows'[t]) \subseteq RowsOf(rows[t]) \cup RowsOf(database[other[t]])
        <3>1. CASE ReadDigests(t)
            <4>1. /\ rows'[t].invalid = database[other[t]].invalid
                  /\ rows'[t].withheld = rows[t].withheld
                BY <3>1 DEF ReadDigests, TypeOK, Contents
            <4> QED BY <4>1 DEF RowsOf
        <3>2. CASE ReadWithheld(t)
            <4>1. /\ rows'[t].invalid = rows[t].invalid
                  /\ rows'[t].withheld = database[other[t]].withheld
                BY <3>2 DEF ReadWithheld, TypeOK, Contents
            <4> QED BY <4>1 DEF RowsOf
        <3> QED BY <1>5, <3>1, <3>2
    <2>4. RowsOf(rows'[t]) \subseteq observed'
        BY <2>1, <2>2, <2>3 DEF AllObserved
    <2>5. \A u \in Tasks : u # t => rows'[u] = rows[u]
        BY <1>5 DEF ReadDigests, ReadWithheld, TypeOK
    <2>6. saved' = saved \/ saved' = rows'[t]
        BY <1>5 DEF ReadDigests, ReadWithheld
    <2> QED BY <2>2, <2>4, <2>5, <2>6 DEF AllObserved
<1>6. ASSUME NEW t \in Tasks, CallImport(t) PROVE AllObserved'
    <2>1. UNCHANGED <<database, saved, observed>>
        BY <1>6 DEF CallImport, Begin
    <2>2. \A u \in Tasks : rows'[u] = IF u = t THEN saved ELSE rows[u]
        BY <1>6 DEF CallImport, TypeOK
    <2> QED BY <2>1, <2>2 DEF AllObserved
<1>7. ASSUME NEW t \in Tasks,
             CallMerge(t) \/ CallExport(t) \/ CallInsert(t) \/ Lock(t) \/ Fail(t)
      PROVE  UNCHANGED <<database, saved, rows, observed>>
    BY <1>7 DEF CallMerge, CallExport, CallInsert, Begin, Lock, Fail
<1> QED BY <1>1, <1>3, <1>4, <1>5, <1>6, <1>7 DEF Next, Call, Work, vars

\* No chain of merges, exports and imports makes up a row or mixes two observations.
THEOREM LogInventsNothing == Spec => []NothingInvented
<1>1. Init => AllObserved
    <2> SUFFICES ASSUME Init PROVE AllObserved
        OBVIOUS
    <2>1. \A d \in Databases : RowsOf(database[d]) \subseteq observed
        BY DEF Init
    <2>2. RowsOf(saved) = {} /\ \A t \in Tasks : RowsOf(rows[t]) = {}
        BY EmptyIsContents DEF Init
    <2> QED BY <2>1, <2>2 DEF AllObserved
<1>2. AllObserved => NothingInvented
    BY DEF AllObserved, NothingInvented
<1> QED BY <1>1, <1>2, NextObserved, LogTypeCorrect, PTL DEF Spec
-----------------------------------------------------------------------------
(* What a merge and an export have read *)

DigestsCover(c, b) ==
    \A e \in Entries :
      b.invalid[e] # Never => c.invalid[e] # Never /\ c.invalid[e] <= b.invalid[e]

\* What a task has read lies between what the other database held when the task called and
\* what it holds now; what it has merged, its own database covers.
ReadsBetween(t) ==
    /\ op[t] # "merge" => own[t] = other[t]
    /\ pc[t] \in {"digests", "withheld"} => Covers(database[other[t]], before[t])
    /\ pc[t] = "withheld" =>
         /\ DigestsCover(rows[t], before[t])
         /\ DigestsCover(database[other[t]], rows[t])
    /\ pc[t] = "write" /\ op[t] = "merge" => Covers(rows[t], before[t])
    /\ Ended(t, "merge") => Covers(database[own[t]], before[t])
    /\ Ended(t, "export") => Covers(rows[t], before[t]) /\ Covers(database[own[t]], rows[t])

LEMMA DigestsCoverTransitive ==
    ASSUME NEW a \in Contents, NEW b \in Contents, NEW c \in Contents,
           Covers(a, b), DigestsCover(b, c)
    PROVE  DigestsCover(a, c)
<1> SUFFICES ASSUME NEW e \in Entries, c.invalid[e] # Never
             PROVE  a.invalid[e] # Never /\ a.invalid[e] <= c.invalid[e]
    BY DEF DigestsCover
<1>1. b.invalid[e] # Never /\ b.invalid[e] <= c.invalid[e]
    BY DEF DigestsCover
<1>2. a.invalid[e] # Never /\ a.invalid[e] <= b.invalid[e]
    BY <1>1 DEF Covers
<1>3. a.invalid[e] \in Times /\ b.invalid[e] \in Times /\ c.invalid[e] \in Times
    BY <1>1, <1>2 DEF Contents
<1> QED BY <1>1, <1>2, <1>3, TimesAreNumbers

\* Databases only grow, so what a task has read is not disturbed by the others.
LEMMA OthersDoNotDisturb ==
    ASSUME TypeOK, TypeOK', \A d \in Databases : Covers(database'[d], database[d]),
           NEW t \in Tasks, ReadsBetween(t),
           pc'[t] = pc[t], op'[t] = op[t], own'[t] = own[t], other'[t] = other[t],
           rows'[t] = rows[t], before'[t] = before[t], answer'[t] = answer[t]
    PROVE  ReadsBetween(t)'
<1>1. \A d \in Databases : database[d] \in Contents /\ database'[d] \in Contents
    BY DEF TypeOK
<1>2. /\ own[t] \in Databases
      /\ other[t] \in Databases
      /\ rows[t] \in Contents
      /\ before[t] \in Contents
    BY DEF TypeOK
<1>3. \A d \in Databases, c \in Contents :
        Covers(database[d], c) => Covers(database'[d], c)
    BY <1>1, CoversTransitive
<1>4. \A d \in Databases, c \in Contents :
        DigestsCover(database[d], c) => DigestsCover(database'[d], c)
    BY <1>1, DigestsCoverTransitive
<1> QED BY <1>2, <1>3, <1>4 DEF ReadsBetween, Ended

LEMMA NextReads ==
    TypeOK /\ (\A t \in Tasks : ReadsBetween(t)) /\ [Next]_vars
      => (\A t \in Tasks : ReadsBetween(t))'
<1> SUFFICES ASSUME TypeOK, \A t \in Tasks : ReadsBetween(t), [Next]_vars
             PROVE  \A t \in Tasks : ReadsBetween(t)'
    OBVIOUS
<1>1. TypeOK' /\ \A d \in Databases : Covers(database'[d], database[d])
    BY NextTypes, DatabasesGrow
<1>2. CASE UNCHANGED vars
    BY <1>1, <1>2, OthersDoNotDisturb DEF vars
<1>3. ASSUME NEW t \in Tasks, Call(t) \/ Work(t), NEW u \in Tasks, u # t
      PROVE  ReadsBetween(u)'
    <2>1. /\ pc'[u] = pc[u]
          /\ op'[u] = op[u]
          /\ own'[u] = own[u]
          /\ other'[u] = other[u]
          /\ rows'[u] = rows[u]
          /\ before'[u] = before[u]
          /\ answer'[u] = answer[u]
        <3>1. CASE Call(t)
            BY <1>3, <3>1 DEF TypeOK, Call, CallMerge, CallExport, CallImport, CallInsert, Begin
        <3>2. CASE Lock(t) \/ Fail(t)
            BY <1>3, <3>2 DEF TypeOK, Lock, Fail, taskVars
        <3>3. CASE ReadDigests(t) \/ ReadWithheld(t)
            BY <1>3, <3>3 DEF TypeOK, ReadDigests, ReadWithheld, UnlockTo, taskVars
        <3>4. CASE Insert(t) \/ Merge(t) \/ Import(t)
            BY <1>3, <3>4 DEF TypeOK, Insert, Merge, Import, Commit, UnlockTo, taskVars
        <3> QED BY <1>3, <3>1, <3>2, <3>3, <3>4 DEF Work
    <2> QED BY <1>1, <2>1, OthersDoNotDisturb
<1>4. ASSUME NEW t \in Tasks, Call(t) PROVE ReadsBetween(t)'
    <2>1. PICK d \in Databases, s \in Databases, step \in {"idle", "digests", "write"} :
            /\ \E o \in {"insert", "merge", "export", "import"} : Begin(t, o, d, s, step)
            /\ op'[t] # "merge" => d = s
            /\ step = "write" => op'[t] # "merge"
            /\ step = "idle" => op'[t] = "merge" /\ d = s
        BY <1>4 DEF Call, CallMerge, CallExport, CallImport, CallInsert, Begin, TypeOK
    <2>2. /\ pc'[t] = step
          /\ own'[t] = d
          /\ other'[t] = s
          /\ before'[t] = database[s]
          /\ database' = database
        BY <2>1 DEF Begin, TypeOK
    <2>3. Covers(database[s], database[s])
        BY CoversReflexive DEF TypeOK
    <2> QED BY <2>1, <2>2, <2>3 DEF ReadsBetween, Ended
<1>5. ASSUME NEW t \in Tasks, Lock(t) PROVE ReadsBetween(t)'
    <2>1. UNCHANGED <<pc, op, own, other, rows, before, answer>>
        BY <1>5 DEF Lock, taskVars
    <2> QED BY <1>1, <2>1, OthersDoNotDisturb
<1>6. ASSUME NEW t \in Tasks, Fail(t) PROVE ReadsBetween(t)'
    BY <1>6 DEF Fail, taskVars, TypeOK, ReadsBetween, Ended
<1>7. ASSUME NEW t \in Tasks, ReadDigests(t) PROVE ReadsBetween(t)'
    <2>1. /\ pc[t] = "digests"
          /\ pc'[t] = "withheld"
          /\ UNCHANGED <<database, op, own, other, before>>
          /\ rows'[t].invalid = database[other[t]].invalid
        BY <1>7 DEF ReadDigests, UnlockTo, taskVars, TypeOK
    <2>2. Covers(database[other[t]], before[t])
        BY <2>1 DEF ReadsBetween
    <2>3. DigestsCover(rows'[t], before[t])
        BY <2>1, <2>2 DEF Covers, DigestsCover
    <2>4. Covers(database[other[t]], database[other[t]])
        BY CoversReflexive DEF TypeOK
    <2>5. DigestsCover(database[other[t]], rows'[t])
        BY <2>1, <2>4 DEF Covers, DigestsCover
    <2> QED BY <2>1, <2>2, <2>3, <2>5 DEF ReadsBetween, Ended
<1>8. ASSUME NEW t \in Tasks, ReadWithheld(t) PROVE ReadsBetween(t)'
    <2>1. /\ pc[t] = "withheld"
          /\ UNCHANGED <<database, op, own, other, before>>
          /\ rows'[t].invalid = rows[t].invalid
          /\ rows'[t].withheld = database[other[t]].withheld
        BY <1>8 DEF ReadWithheld, taskVars, TypeOK, Contents
    <2>2. IF op[t] = "merge" THEN pc'[t] = "write" ELSE pc'[t] = "idle"
        BY <1>8 DEF ReadWithheld, UnlockTo, TypeOK
    <2>3. /\ Covers(database[other[t]], before[t])
          /\ DigestsCover(rows[t], before[t])
          /\ DigestsCover(database[other[t]], rows[t])
        BY <2>1 DEF ReadsBetween
    <2>4. Covers(rows'[t], before[t])
        BY <2>1, <2>3 DEF Covers, DigestsCover
    <2>5. Covers(database[other[t]], rows'[t])
        BY <2>1, <2>3 DEF Covers, DigestsCover
    <2>6. op[t] # "merge" => own[t] = other[t]
        BY DEF ReadsBetween
    <2> QED BY <2>1, <2>2, <2>4, <2>5, <2>6 DEF ReadsBetween, Ended
<1>9. ASSUME NEW t \in Tasks, Insert(t) \/ Import(t) PROVE ReadsBetween(t)'
    <2>1. op[t] \in {"insert", "import"} /\ pc'[t] = "idle" /\ UNCHANGED <<op, own, other>>
        BY <1>9 DEF Insert, Import, Commit, UnlockTo, taskVars, TypeOK
    <2> QED BY <2>1 DEF ReadsBetween, Ended
<1>10. ASSUME NEW t \in Tasks, Merge(t) PROVE ReadsBetween(t)'
    <2>1. /\ op[t] = "merge"
          /\ pc[t] = "write"
          /\ pc'[t] = "idle"
          /\ UNCHANGED <<op, own, other, before>>
          /\ database'[own[t]] = Merged(database[own[t]], rows[t])
        BY <1>10 DEF Merge, Commit, UnlockTo, taskVars, TypeOK
    <2>2. /\ database[own[t]] \in Contents
          /\ rows[t] \in Contents
          /\ before[t] \in Contents
        BY DEF TypeOK
    <2>3. /\ database'[own[t]] \in Contents
          /\ Covers(database'[own[t]], rows[t])
        BY <2>1, <2>2, MergedRows
    <2>4. Covers(rows[t], before[t])
        BY <2>1 DEF ReadsBetween
    <2>5. Covers(database'[own[t]], before[t])
        BY <2>2, <2>3, <2>4, CoversTransitive
    <2> QED BY <2>1, <2>5 DEF ReadsBetween, Ended
<1>11. ASSUME NEW t \in Tasks, Call(t) \/ Work(t) PROVE ReadsBetween(t)'
    BY <1>4, <1>5, <1>6, <1>7, <1>8, <1>9, <1>10, <1>11 DEF Work
<1> QED BY <1>2, <1>3, <1>11 DEF Next

LEMMA ReadsInvariant == Spec => [](\A t \in Tasks : ReadsBetween(t))
<1>1. Init => \A t \in Tasks : ReadsBetween(t)
    BY DEF Init, ReadsBetween, Ended
<1> QED BY <1>1, NextReads, LogTypeCorrect, PTL DEF Spec

\* A merge that ended well has brought over every row the other database had when it was
\* called, however the two were written to in between.
THEOREM LogMergeCovers == Spec => []MergeCovers
<1>1. (\A t \in Tasks : ReadsBetween(t)) => MergeCovers
    BY DEF ReadsBetween, MergeCovers
<1> QED BY <1>1, ReadsInvariant, PTL

\* An export has every row the database held when it began, and none it does not hold now.
THEOREM LogExportBetween == Spec => []ExportBetween
<1>1. (\A t \in Tasks : ReadsBetween(t)) => ExportBetween
    BY DEF ReadsBetween, ExportBetween
<1> QED BY <1>1, ReadsInvariant, PTL

\* Whatever interferes with a call, it is truthful.
THEOREM LogCallsAreTruthful == Spec => []CallsAreTruthful
BY LogInventsNothing, LogMergeCovers, LogExportBetween, PTL DEF CallsAreTruthful

\* An import adds the rows that are missing, leaves the others as they are, and reproduces the
\* export in an empty database.
THEOREM LogImportAdds == Spec => ImportAdds
<1> DEFINE Adds ==
      \A t \in Tasks :
        pc[t] = "write" /\ op[t] = "import" /\ pc'[t] = "idle" /\ answer'[t] = "ok" =>
          LET d == own[t]
          IN  /\ \A e \in Entries : database[d].invalid[e] # Never
                                      => database'[d].invalid[e] = database[d].invalid[e]
              /\ Covers([database'[d] EXCEPT !.invalid = rows[t].invalid], rows[t])
              /\ database[d] = Empty => database'[d] = rows[t]
<1>1. TypeOK /\ [Next]_vars => [Adds]_vars
    <2> SUFFICES ASSUME TypeOK, [Next]_vars,
                        NEW t \in Tasks,
                        pc[t] = "write", op[t] = "import", pc'[t] = "idle", answer'[t] = "ok"
                 PROVE  LET d == own[t]
                        IN  /\ \A e \in Entries :
                                 database[d].invalid[e] # Never
                                   => database'[d].invalid[e] = database[d].invalid[e]
                            /\ Covers([database'[d] EXCEPT !.invalid = rows[t].invalid], rows[t])
                            /\ database[d] = Empty => database'[d] = rows[t]
        OBVIOUS
    <2>1. PICK u \in Tasks : Call(u) \/ Work(u)
        BY DEF Next, vars
    <2>2. u = t
        <3>1. CASE Call(u)
            BY <3>1 DEF Call, CallMerge, CallExport, CallImport, CallInsert, Begin, TypeOK
        <3>2. CASE Work(u)
            BY <3>2 DEF Work, Lock, Fail, ReadDigests, ReadWithheld, Insert, Merge, Import, Commit,
                        UnlockTo, TypeOK
        <3> QED BY <2>1, <3>1, <3>2
    <2>3. Import(t)
        BY <2>1, <2>2 DEF Call, CallMerge, CallExport, CallImport, CallInsert, Begin, Work, Lock,
                          Fail, ReadDigests, ReadWithheld, Insert, Merge, TypeOK
    <2>4. /\ own[t] \in Databases
          /\ database[own[t]] \in Contents
          /\ rows[t] \in Contents
        BY DEF TypeOK
    <2>5. database'[own[t]] = Inserted(database[own[t]], rows[t])
        BY <2>3, <2>4 DEF Import, Commit, TypeOK
    <2>6. /\ database'[own[t]] \in Contents
          /\ rows[t].withheld \subseteq database'[own[t]].withheld
          /\ \A e \in Entries : database[own[t]].invalid[e] # Never
               => database'[own[t]].invalid[e] = database[own[t]].invalid[e]
          /\ database[own[t]] = Empty => database'[own[t]] = rows[t]
        BY <2>4, <2>5, KeptRows
    <2>7. Covers([database'[own[t]] EXCEPT !.invalid = rows[t].invalid], rows[t])
        <3>1. Covers(rows[t], rows[t])
            BY <2>4, CoversReflexive
        <3>2. /\ [database'[own[t]] EXCEPT !.invalid = rows[t].invalid].invalid
                   = rows[t].invalid
              /\ [database'[own[t]] EXCEPT !.invalid = rows[t].invalid].withheld
                   = database'[own[t]].withheld
            BY <2>6 DEF Contents
        <3> QED BY <2>6, <3>1, <3>2 DEF Covers
    <2> QED BY <2>6, <2>7
<1> QED BY <1>1, LogTypeCorrect, PTL DEF Spec, ImportAdds
-----------------------------------------------------------------------------
-----------------------------------------------------------------------------
(* What two merges into each other leave behind *)

\* A task that has not been called does nothing.
Uncalled == \A x \in Tasks : calls[x] = 0 => pc[x] = "idle" /\ answer[x] # "ok"

\* Of the tasks only t and u were called, at most once each, and to merge s into d and d into s.
Crossing(t, u, d, s) ==
    /\ \A x \in Tasks : calls[x] = 0 \/ (x \in {t, u} /\ calls[x] = 1)
    /\ calls[t] = 1 => op[t] = "merge" /\ own[t] = d /\ other[t] = s
    /\ calls[u] = 1 => op[u] = "merge" /\ own[u] = s /\ other[u] = d

\* What a task has read of a database that held b, and later perhaps j.
HasRead(t, b, j) ==
    /\ pc[t] \in {"withheld", "write"} => rows[t].invalid = b.invalid \/ rows[t].invalid = j.invalid
    /\ pc[t] = "write" => rows[t].withheld = b.withheld \/ rows[t].withheld = j.withheld
Half(t, d, a, b, j) ==
    /\ database[d] = IF Ended(t, "merge") THEN j ELSE a
    /\ HasRead(t, b, j)
\* d held a and s held b; each holds what both did from when it was merged into.
Converging(t, u, d, s) ==
    \E a, b \in Contents :
      Half(t, d, a, b, Merged(a, b)) /\ Half(u, s, b, a, Merged(a, b))
Crossings ==
    \A t, u \in Tasks, d, s \in Databases :
      t # u /\ d # s /\ Crossing(t, u, d, s) => Converging(t, u, d, s)

LEMMA EarlierFacts ==
    ASSUME NEW x \in Times \cup {Never}, NEW y \in Times \cup {Never}
    PROVE  /\ Earlier(x, y) = Earlier(y, x) /\ Earlier(x, y) \in Times \cup {Never}
           /\ Earlier(x, Earlier(x, y)) = Earlier(x, y)
<1>1. \A n \in Times : n \in Int /\ n # Never
    BY LogAssumption
<1>2. CASE x = Never
    BY <1>1, <1>2 DEF Earlier
<1>3. CASE x # Never /\ y = Never
    BY <1>1, <1>3 DEF Earlier
<1>4. CASE x # Never /\ y # Never
  <2>1. x \in Int /\ y \in Int
      BY <1>1, <1>4
  <2>2. CASE x <= y
    <3>1. Earlier(x, y) = x /\ Earlier(y, x) = x
        BY <1>4, <2>1, <2>2 DEF Earlier
    <3> QED BY <3>1, <1>4, <2>1 DEF Earlier
  <2>3. CASE ~ x <= y
    <3>1. Earlier(x, y) = y /\ Earlier(y, x) = y
        BY <1>4, <2>1, <2>3 DEF Earlier
    <3> QED BY <3>1, <1>4, <2>1, <2>3 DEF Earlier
  <2> QED BY <2>2, <2>3
<1> QED BY <1>2, <1>3, <1>4

\* A merge gives the same rows whichever side comes first and however much of them is there already.
LEMMA MergedTwice ==
    ASSUME NEW a \in Contents, NEW b \in Contents, NEW r \in Contents,
           r.invalid = b.invalid \/ r.invalid = Merged(a, b).invalid,
           r.withheld = b.withheld \/ r.withheld = Merged(a, b).withheld
    PROVE  Merged(a, r) = Merged(a, b)
<1>1. /\ Merged(a, b).invalid = [e \in Entries |-> Earlier(a.invalid[e], b.invalid[e])]
      /\ Merged(a, b).withheld = a.withheld \cup b.withheld
    BY DEF Merged
<1>2. \A e \in Entries : a.invalid[e] \in Times \cup {Never} /\ b.invalid[e] \in Times \cup {Never}
    BY DEF Contents
<1>3. \A e \in Entries : Earlier(a.invalid[e], r.invalid[e]) = Earlier(a.invalid[e], b.invalid[e])
  <2> TAKE e \in Entries
  <2>1. CASE r.invalid = b.invalid
      BY <2>1
  <2>2. CASE r.invalid = Merged(a, b).invalid
    <3>1. r.invalid[e] = Earlier(a.invalid[e], b.invalid[e])
        BY <1>1, <2>2
    <3> QED BY <1>2, <3>1, EarlierFacts
  <2> QED BY <2>1, <2>2
<1>4. [e \in Entries |-> Earlier(a.invalid[e], r.invalid[e])]
        = [e \in Entries |-> Earlier(a.invalid[e], b.invalid[e])]
    BY <1>3
<1>5. a.withheld \cup r.withheld = a.withheld \cup b.withheld
  <2>1. CASE r.withheld = b.withheld
      BY <2>1
  <2>2. CASE r.withheld = a.withheld \cup b.withheld
      BY <2>2
  <2> QED BY <1>1, <2>1, <2>2
<1> QED BY <1>4, <1>5 DEF Merged
LEMMA MergedEitherWay ==
    ASSUME NEW a \in Contents, NEW b \in Contents
    PROVE  Merged(a, b) = Merged(b, a)
<1>1. \A e \in Entries : a.invalid[e] \in Times \cup {Never} /\ b.invalid[e] \in Times \cup {Never}
    BY DEF Contents
<1>2. \A e \in Entries : Earlier(a.invalid[e], b.invalid[e]) = Earlier(b.invalid[e], a.invalid[e])
    BY <1>1, EarlierFacts
<1>3. [e \in Entries |-> Earlier(a.invalid[e], b.invalid[e])]
        = [e \in Entries |-> Earlier(b.invalid[e], a.invalid[e])]
    BY <1>2
<1>4. a.withheld \cup b.withheld = b.withheld \cup a.withheld
    OBVIOUS
<1> QED BY <1>3, <1>4 DEF Merged

LEMMA CallsAreCounted ==
    ASSUME TypeOK, NEW t \in Tasks, Call(t)
    PROVE  /\ calls' = [calls EXCEPT ![t] = @ + 1] /\ calls'[t] # 0 /\ pc[t] = "idle"
           /\ \A x \in Tasks \ {t} : /\ pc'[x] = pc[x] /\ answer'[x] = answer[x] /\ op'[x] = op[x]
                                     /\ rows'[x] = rows[x]
                                     /\ own'[x] = own[x] /\ other'[x] = other[x]
           /\ database' = database
<1>1. \E d \in Databases, s \in Databases, o \in {"insert", "merge", "export", "import"},
         step \in {"idle", "digests", "write"} : Begin(t, o, d, s, step)
    BY DEF Call, CallMerge, CallExport, CallImport, CallInsert, TypeOK
<1>2. /\ calls' = [calls EXCEPT ![t] = @ + 1] /\ pc[t] = "idle"
      /\ \A x \in Tasks \ {t} : pc'[x] = pc[x] /\ op'[x] = op[x] /\ own'[x] = own[x] /\ other'[x] = other[x]
      /\ database' = database
    BY <1>1 DEF Begin, TypeOK
<1>3. \A x \in Tasks \ {t} : answer'[x] = answer[x] /\ rows'[x] = rows[x]
    BY DEF Call, CallMerge, CallExport, CallImport, CallInsert, TypeOK
<1>4. calls \in [Tasks -> Nat]
    BY DEF TypeOK
<1>5. calls'[t] = calls[t] + 1 /\ calls[t] \in Nat
    BY <1>2, <1>4
<1>6. calls'[t] # 0
    BY <1>5
<1> QED BY <1>2, <1>3, <1>6

LEMMA UncalledKept ==
    ASSUME TypeOK, Uncalled, [Next]_vars
    PROVE  Uncalled'
<1>1. CASE UNCHANGED vars
    BY <1>1 DEF Uncalled, vars
<1>2. ASSUME NEW t \in Tasks, Call(t) PROVE Uncalled'
  <2> SUFFICES ASSUME NEW x \in Tasks, calls'[x] = 0 PROVE pc'[x] = "idle" /\ answer'[x] # "ok"
      BY DEF Uncalled
  <2>1. x # t
      BY <1>2, CallsAreCounted
  <2>2. calls'[x] = calls[x] /\ pc'[x] = pc[x] /\ answer'[x] = answer[x]
      BY <1>2, <2>1, CallsAreCounted DEF TypeOK
  <2> QED BY <2>2 DEF Uncalled
<1>3. ASSUME NEW t \in Tasks, Work(t) PROVE Uncalled'
  <2>1. pc[t] # "idle" /\ calls' = calls
      BY <1>3 DEF Work, Lock, ReadDigests, ReadWithheld, Insert, Merge, Import, Commit, Fail, Holds, taskVars
  <2>2. \A x \in Tasks \ {t} : pc'[x] = pc[x] /\ answer'[x] = answer[x]
    <3>1. CASE Lock(t) \/ Fail(t)
        BY <1>3, <3>1 DEF TypeOK, Lock, Fail, taskVars
    <3>2. CASE ReadDigests(t) \/ ReadWithheld(t)
        BY <1>3, <3>2 DEF TypeOK, ReadDigests, ReadWithheld, UnlockTo, taskVars
    <3>3. CASE Insert(t) \/ Merge(t) \/ Import(t)
        BY <1>3, <3>3 DEF TypeOK, Insert, Merge, Import, Commit, UnlockTo, taskVars
    <3> QED BY <1>3, <3>1, <3>2, <3>3 DEF Work
  <2>3. calls[t] # 0
      BY <2>1 DEF Uncalled
  <2> QED BY <2>1, <2>2, <2>3 DEF Uncalled
<1> QED BY <1>1, <1>2, <1>3 DEF Next

\* One of two crossing tasks goes on; the other one's half is as it was.
LEMMA HalfKept ==
    ASSUME TypeOK, TypeOK', Uncalled, NEW t \in Tasks, NEW u \in Tasks, t # u,
           NEW d \in Databases, NEW s \in Databases, d # s,
           Crossing(t, u, d, s), Crossing(t, u, d, s)', Call(t) \/ Work(t),
           NEW a \in Contents, NEW b \in Contents, NEW j \in Contents, j = Merged(a, b),
           Half(t, d, a, b, j), Half(u, s, b, a, j)
    PROVE  Half(t, d, a, b, j)' /\ Half(u, s, b, a, j)'
<1>1. /\ database[d] = (IF Ended(t, "merge") THEN j ELSE a)
      /\ database[s] = (IF Ended(u, "merge") THEN j ELSE b)
    BY DEF Half
<1>2. ASSUME pc'[u] = pc[u], answer'[u] = answer[u], op'[u] = op[u], rows'[u] = rows[u],
             database'[s] = database[s]
      PROVE  Half(u, s, b, a, j)'
    BY <1>2 DEF Half, HasRead, Ended
<1>3. CASE Call(t)
  <2>1. /\ calls'[t] = 1 /\ calls[t] = 0
    <3>1. calls'[t] = calls[t] + 1 /\ calls'[t] \in {0, 1} /\ calls[t] \in Nat
        BY <1>3, CallsAreCounted DEF Crossing, TypeOK
    <3> QED BY <3>1
  <2>2. op'[t] = "merge" /\ own'[t] = d /\ other'[t] = s /\ ~ Ended(t, "merge")
      BY <2>1 DEF Crossing, Uncalled, Ended
  <2>3. CallMerge(t)
      BY <1>3, <2>2 DEF Call, CallMerge, CallExport, CallImport, CallInsert, Begin, TypeOK
  <2>4. pc'[t] = "digests"
      BY <2>2, <2>3 DEF CallMerge, Begin, TypeOK
  <2>5. Half(t, d, a, b, j)'
    <3>1. database'[d] = a /\ ~ Ended(t, "merge")'
        BY <1>1, <1>3, <2>2, <2>4, CallsAreCounted DEF Ended
    <3> QED BY <3>1, <2>4 DEF Half, HasRead
  <2> QED BY <1>2, <1>3, <2>5, CallsAreCounted
<1>4. CASE Work(t)
  <2>1. pc[t] # "idle" /\ calls' = calls /\ UNCHANGED <<op, own, other>>
      BY <1>4 DEF Work, Lock, ReadDigests, ReadWithheld, Insert, Merge, Import, Commit, Fail, Holds, taskVars
  <2>2. calls[t] = 1 /\ op[t] = "merge" /\ own[t] = d /\ other[t] = s
      BY <2>1 DEF Crossing, Uncalled
  <2>3. ~ Ended(t, "merge") /\ database[d] = a
      BY <1>1, <2>1 DEF Ended
  <2>4. database[s] = b \/ database[s] = j
      BY <1>1
  <2>5. CASE Lock(t)
    <3>1. UNCHANGED <<database, pc, rows, answer, op>>
        BY <2>5 DEF Lock, taskVars
    <3> QED BY <3>1 DEF Half, HasRead, Ended
  <2>6. CASE Fail(t)
    <3>1. /\ UNCHANGED <<database, rows, op>> /\ pc'[t] = "idle" /\ answer'[t] = "error"
          /\ pc'[u] = pc[u] /\ answer'[u] = answer[u]
        BY <2>6 DEF Fail, taskVars, TypeOK
    <3>2. Half(t, d, a, b, j)'
        BY <2>3, <3>1 DEF Half, HasRead, Ended
    <3> QED BY <1>2, <3>1, <3>2
  <2>7. CASE ReadDigests(t)
    <3>1. /\ UNCHANGED <<database, op>> /\ pc'[t] = "withheld"
          /\ rows'[t].invalid = database[s].invalid
          /\ pc'[u] = pc[u] /\ answer'[u] = answer[u] /\ rows'[u] = rows[u]
        BY <2>2, <2>7 DEF ReadDigests, UnlockTo, taskVars, TypeOK
    <3>2. Half(t, d, a, b, j)'
        BY <2>3, <2>4, <3>1 DEF Half, HasRead, Ended
    <3> QED BY <1>2, <3>1, <3>2
  <2>8. CASE ReadWithheld(t)
    <3>1. /\ pc[t] = "withheld" /\ UNCHANGED <<database, op>> /\ pc'[t] = "write"
          /\ rows'[t].invalid = rows[t].invalid /\ rows'[t].withheld = database[s].withheld
          /\ pc'[u] = pc[u] /\ answer'[u] = answer[u] /\ rows'[u] = rows[u]
        BY <2>2, <2>8 DEF ReadWithheld, UnlockTo, taskVars, TypeOK, Contents
    <3>2. Half(t, d, a, b, j)'
        BY <2>3, <2>4, <3>1 DEF Half, HasRead, Ended
    <3> QED BY <1>2, <3>1, <3>2
  <2>9. CASE Merge(t)
    <3>1. /\ pc[t] = "write" /\ pc'[t] = "idle" /\ answer'[t] = "ok" /\ UNCHANGED <<rows, op>>
          /\ database'[d] = Merged(a, rows[t]) /\ database'[s] = database[s]
          /\ pc'[u] = pc[u] /\ answer'[u] = answer[u]
        BY <2>2, <2>3, <2>9 DEF Merge, Commit, UnlockTo, taskVars, TypeOK
    <3>2. rows[t] \in Contents
        BY DEF TypeOK
    <3>3. /\ rows[t].invalid = b.invalid \/ rows[t].invalid = j.invalid
          /\ rows[t].withheld = b.withheld \/ rows[t].withheld = j.withheld
        BY <3>1 DEF Half, HasRead
    <3>4. Merged(a, rows[t]) = j
        BY <3>2, <3>3, MergedTwice
    <3>5. Half(t, d, a, b, j)'
        BY <2>2, <3>1, <3>4 DEF Half, HasRead, Ended
    <3> QED BY <1>2, <3>1, <3>5
  <2> QED BY <1>4, <2>2, <2>5, <2>6, <2>7, <2>8, <2>9 DEF Work, Insert, Import
<1> QED BY <1>3, <1>4

LEMMA CrossingsKept ==
    ASSUME TypeOK, TypeOK', Uncalled, Crossings, [Next]_vars
    PROVE  Crossings'
<1> SUFFICES ASSUME NEW t \in Tasks, NEW u \in Tasks, NEW d \in Databases, NEW s \in Databases,
                    t # u, d # s, Crossing(t, u, d, s)'
             PROVE  Converging(t, u, d, s)'
    BY DEF Crossings
<1>1. CASE UNCHANGED vars
  <2>1. UNCHANGED <<calls, op, own, other, database, pc, rows, answer>>
      BY <1>1 DEF vars
  <2>2. Crossing(t, u, d, s)
      BY <2>1 DEF Crossing
  <2>3. PICK a \in Contents, b \in Contents :
          Half(t, d, a, b, Merged(a, b)) /\ Half(u, s, b, a, Merged(a, b))
      BY <2>2 DEF Crossings, Converging
  <2>4. Half(t, d, a, b, Merged(a, b))' /\ Half(u, s, b, a, Merged(a, b))'
      BY <2>1, <2>3 DEF Half, HasRead, Ended
  <2> QED BY <2>4 DEF Converging
<1>2. ASSUME NEW x \in Tasks, Call(x) \/ Work(x)
      PROVE  Converging(t, u, d, s)'
  <2>1. \A y \in Tasks : calls[y] = 0 \/ (calls'[y] = calls[y] /\ op'[y] = op[y] /\ own'[y] = own[y]
                                          /\ other'[y] = other[y])
    <3>1. CASE Work(x)
        BY <3>1 DEF Work, Lock, ReadDigests, ReadWithheld, Insert, Merge, Import, Commit, Fail, taskVars
    <3>2. CASE Call(x)
      <4>1. calls'[x] = calls[x] + 1 /\ calls[x] \in Nat /\ calls'[x] \in {0, 1}
          BY <3>2, CallsAreCounted DEF Crossing, TypeOK
      <4>2. calls[x] = 0
          BY <4>1
      <4>3. \A y \in Tasks \ {x} : calls'[y] = calls[y]
          BY <3>2, CallsAreCounted DEF TypeOK
      <4> QED BY <3>2, <4>2, <4>3, CallsAreCounted
    <3> QED BY <1>2, <3>1, <3>2
  <2>2. Crossing(t, u, d, s)
      BY <2>1 DEF Crossing
  <2>3. x \in {t, u}
    <3>1. CASE Call(x)
        BY <3>1, CallsAreCounted DEF Crossing
    <3>2. CASE Work(x)
      <4>1. pc[x] # "idle"
          BY <3>2 DEF Work, Lock, ReadDigests, ReadWithheld, Insert, Merge, Import, Commit, Fail, Holds
      <4> QED BY <2>2, <4>1 DEF Crossing, Uncalled
    <3> QED BY <1>2, <3>1, <3>2
  <2>4. PICK a \in Contents, b \in Contents :
          Half(t, d, a, b, Merged(a, b)) /\ Half(u, s, b, a, Merged(a, b))
      BY <2>2 DEF Crossings, Converging
  <2>5. PICK j \in Contents : j = Merged(a, b) /\ j = Merged(b, a)
      BY MergedRows, MergedEitherWay
  <2>6. Half(t, d, a, b, j) /\ Half(u, s, b, a, j)
      BY <2>4, <2>5
  <2>7. ASSUME x = t
        PROVE  Half(t, d, a, b, j)' /\ Half(u, s, b, a, j)'
      BY <1>2, <2>2, <2>5, <2>6, <2>7, HalfKept
  <2>8. ASSUME x = u
        PROVE  Half(t, d, a, b, j)' /\ Half(u, s, b, a, j)'
    <3>1. Crossing(u, t, s, d) /\ Crossing(u, t, s, d)'
        BY <2>2 DEF Crossing
    <3> QED BY <1>2, <2>5, <2>6, <2>8, <3>1, HalfKept
  <2>9. Half(t, d, a, b, j)' /\ Half(u, s, b, a, j)'
      BY <2>3, <2>7, <2>8
  <2> QED BY <2>5, <2>9 DEF Converging
<1> QED BY <1>1, <1>2 DEF Next

LEMMA CrossingsAlways == Spec => [](TypeOK /\ Uncalled /\ Crossings)
<1>1. Init => Uncalled
    BY DEF Init, Uncalled
<1>2. Init => Crossings
  <2> SUFFICES ASSUME Init, NEW t \in Tasks, NEW u \in Tasks, NEW d \in Databases, NEW s \in Databases
               PROVE  Converging(t, u, d, s)
      BY DEF Crossings
  <2>1. database[d] \in Contents /\ database[s] \in Contents
      BY LogAssumption DEF Init
  <2>2. \A x \in Tasks : pc[x] = "idle" /\ ~ Ended(x, "merge")
      BY DEF Init, Ended
  <2>3. /\ Half(t, d, database[d], database[s], Merged(database[d], database[s]))
        /\ Half(u, s, database[s], database[d], Merged(database[d], database[s]))
      BY <2>2 DEF Half, HasRead
  <2> QED BY <2>1, <2>3 DEF Converging
<1>3. TypeOK /\ Uncalled /\ Crossings /\ [Next]_vars => (TypeOK /\ Uncalled /\ Crossings)'
    BY NextTypes, UncalledKept, CrossingsKept
<1> QED BY <1>1, <1>2, <1>3, InitTypes, PTL DEF Spec

\* Two merges of two databases into each other end with the same rows in both, however their steps
\* alternate (merge_from reads the other database without holding its own).
THEOREM LogMergesConverge == Spec => []MergesConverge
<1>1. TypeOK /\ Crossings => MergesConverge
  <2> SUFFICES ASSUME TypeOK, Crossings, NEW t \in Tasks, NEW u \in Tasks,
                      Ended(t, "merge"), Ended(u, "merge"),
                      own[t] = other[u], other[t] = own[u],
                      \A x \in Tasks : calls[x] = (IF x \in {t, u} THEN 1 ELSE 0)
               PROVE  database[own[t]] = database[own[u]]
      BY DEF MergesConverge
  <2>1. CASE own[t] = own[u]
      BY <2>1
  <2>2. CASE own[t] # own[u]
    <3>1. t # u /\ own[t] \in Databases /\ own[u] \in Databases
        BY <2>2 DEF TypeOK
    <3>2. Crossing(t, u, own[t], own[u])
        BY DEF Crossing, Ended
    <3>3. PICK a \in Contents, b \in Contents :
            Half(t, own[t], a, b, Merged(a, b)) /\ Half(u, own[u], b, a, Merged(a, b))
        BY <2>2, <3>1, <3>2 DEF Crossings, Converging
    <3> QED BY <3>3 DEF Half
  <2> QED BY <2>1, <2>2
<1> QED BY <1>1, CrossingsAlways, PTL
=============================================================================
