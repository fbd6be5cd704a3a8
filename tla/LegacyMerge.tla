----------------------------- MODULE LegacyMerge -----------------------------
(***************************************************************************)
(* The walk through directories of an old layout                           *)
(* (crates/cas/src/legacy/import.rs), what the tools make of it            *)
(* (tools/json-cli/src/snapshot.rs), and merge-old of json-cli, which      *)
(* merges the files found into a copy of two sorted files of snapshots.    *)
(*                                                                         *)
(* An entry of a directory has a path, a kind, and                         *)
(*   - for a directory the one it leads to, or 0 if it cannot be opened;   *)
(*   - for a file the digest its name begins with, or 0, the extensions    *)
(*     after it, the digest of what it holds when it is decoded, or 0 if   *)
(*     it cannot be, and the output such content belongs to.               *)
(***************************************************************************)
EXTENDS SnapshotOutput, FiniteSets

CONSTANTS
    Trees,      \* directories, functions from numbers to sets of entries, and which of them are
                \* the bases asked for
    OldFiles,   \* what each of the two files may hold
    BadLine     \* a line that cannot be read

Output == {"flat", "data"}
OldLine == [digest : Nat \ {0}, from : {"input"}]
NewLine(d) == [digest |-> d, from |-> "file"]

\* Directories that are all below a base.
IsTree(t) ==
    LET places == DOMAIN t.directories
        Within(D) == /\ \A i \in DOMAIN t.bases : t.bases[i] \in D
                     /\ \A d \in D : \A e \in t.directories[d] :
                          e.kind = "dir" /\ e.to # 0 => e.to \in D
    IN  /\ places \subseteq Nat \ {0}
        /\ t.bases \in Seq(places)
        /\ \A d \in places : \A e \in t.directories[d] :
             /\ e.kind \in {"file", "dir", "symlink", "typeless"}
             /\ e.digest \in Nat /\ e.found \in Nat
             /\ e.kind = "dir" => e.to \in places \cup {0}
        /\ \A D \in SUBSET places : Within(D) => D = places

ASSUME LegacyAssumption ==
    /\ OldFiles \subseteq Seq(OldLine \cup {BadLine})
    /\ BadLine \notin OldLine
    /\ \A lines \in OldFiles : \A i, j \in DOMAIN lines :
         i < j /\ BadLine \notin {lines[i], lines[j]} => lines[i].digest <= lines[j].digest
    /\ \A t \in Trees : IsTree(t)

VARIABLES
    tree,
    bases,      \* the base directories that were not walked
    stack,      \* the open directories, each with the entries still to come
    imported,   \* SnapshotImport: paths, skipped, invalid_digests
    old,        \* the rest of the two files
    copies,     \* the writers of the two outputs
    visit,      \* "walk", "open", "merge", "drain", "finish flat", "finish data" or "done"
    mergeOld,   \* what the command returned
    given       \* the two files, as they were

legacyVars == <<tree, bases, stack, imported, old, copies, visit, mergeOld, given>>

LegacyInit ==
    /\ tree \in Trees
    /\ bases = tree.bases
    /\ stack = <<>>
    /\ imported = [paths |-> <<>>, skipped |-> {}, invalid |-> {}]
    /\ given \in [Output -> OldFiles]
    /\ old = given
    /\ copies = [o \in Output |-> NewWriter]
    /\ visit = "walk"
    /\ mergeOld = NoError

\* Any error but a wrong digest ends the command, and the writers are dropped.
GiveUp(error) ==
    /\ visit' = "done"
    /\ mergeOld' = error
-----------------------------------------------------------------------------
(* Importer::next and VerifyingImporter::next *)

\* Importer::new opens the base directory, or fails; snapshot_import takes one after the other.
OpenBase(ok) ==
    /\ visit = "walk"
    /\ stack = <<>>
    /\ bases # <<>>
    /\ bases' = Tail(bases)
    /\ IF ok
       THEN stack' = <<tree.directories[Head(bases)]>> /\ UNCHANGED <<visit, mergeOld>>
       ELSE GiveUp("OtherIo") /\ UNCHANGED stack
    /\ UNCHANGED <<tree, imported, old, copies, given>>

Top == stack[Len(stack)]
Taken(entry) == [stack EXCEPT ![Len(stack)] = @ \ {entry}]

\* A directory with no more entries is left for its parent.
LeaveAll ==
    /\ visit = "walk"
    /\ stack # <<>>
    /\ Top = {}
    /\ stack' = <<>>
    /\ UNCHANGED <<tree, bases, imported, old, copies, visit, mergeOld, given>>
LeaveDirectory ==
    /\ visit = "walk"
    /\ stack # <<>>
    /\ Top = {}
    /\ stack' = SubSeq(stack, 1, Len(stack) - 1)
    /\ UNCHANGED <<tree, bases, imported, old, copies, visit, mergeOld, given>>

\* File::new: a digest, and at most one extension, which is known.
IsLegacyItem(entry) ==
    /\ entry.kind = "file"
    /\ entry.digest # 0
    /\ entry.extensions \in {<<>>, <<"zst">>, <<"gz">>}

\* An entry whose type cannot be told, or a directory that cannot be opened, ends the import; a
\* directory is gone into at once; a symbolic link is never followed.
NextEntry(entry) ==
    /\ visit = "walk"
    /\ stack # <<>>
    /\ entry \in Top
    /\ CASE entry.kind = "typeless" \/ (entry.kind = "dir" /\ entry.to = 0) ->
              GiveUp("OtherIo") /\ stack' = Taken(entry) /\ UNCHANGED imported
         [] entry.kind = "dir" /\ entry.to # 0 ->
              /\ stack' = Append(Taken(entry), tree.directories[entry.to])
              /\ UNCHANGED <<imported, visit, mergeOld>>
         [] entry.kind = "symlink" \/ (entry.kind = "file" /\ ~ IsLegacyItem(entry)) ->
              /\ stack' = Taken(entry)
              /\ imported' = [imported EXCEPT !.skipped = @ \cup {entry.path}]
              /\ UNCHANGED <<visit, mergeOld>>
         [] IsLegacyItem(entry) ->
              /\ stack' = Taken(entry)
              /\ CASE entry.found = 0 -> GiveUp("FileIo") /\ UNCHANGED imported
                   [] entry.found = entry.digest ->
                        /\ imported' = [imported EXCEPT !.paths = Append(@, entry)]
                        /\ UNCHANGED <<visit, mergeOld>>
                   [] OTHER ->
                        /\ imported' = [imported EXCEPT !.invalid =
                                          @ \cup {<<entry.digest, entry.found>>}]
                        /\ UNCHANGED <<visit, mergeOld>>
    /\ UNCHANGED <<tree, bases, old, copies, given>>

\* snapshot_import sorts what was found, and dedup_paths keeps the first path of each digest.
SortedOnce(paths) ==
    LET firsts == {i \in DOMAIN paths : \A j \in 1 .. i - 1 : paths[j].digest # paths[i].digest}
    IN  CHOOSE s \in [1 .. Cardinality(firsts) -> {paths[i] : i \in firsts}] :
          \A i, j \in DOMAIN s : i < j => s[i].digest < s[j].digest

Imported ==
    /\ visit = "walk"
    /\ stack = <<>>
    /\ bases = <<>>
    /\ imported' = [imported EXCEPT !.paths = SortedOnce(@)]
    /\ visit' = "open"
    /\ UNCHANGED <<tree, bases, stack, old, copies, mergeOld, given>>
-----------------------------------------------------------------------------
(* merge-old *)

OpenOld(ok) ==
    /\ visit = "open"
    /\ IF ok THEN visit' = "merge" /\ UNCHANGED mergeOld ELSE GiveUp("Io")
    /\ UNCHANGED <<tree, bases, stack, imported, old, copies, given>>

\* copy_through: how many lines of a file come before the first that is above the digest or cannot
\* be read, or end with the digest itself.
Copied(lines, d) ==
    LET goes == {n \in 0 .. Len(lines) : \A i \in 1 .. n : /\ lines[i] # BadLine
                                                           /\ lines[i].digest <= d
                                                           /\ i < n => lines[i].digest # d}
    IN  CHOOSE n \in goes : \A m \in goes : m <= n
Present(lines, d) == Copied(lines, d) > 0 /\ lines[Copied(lines, d)].digest = d

\* write_snapshot for each of some lines.
WrittenAll(w, lines) ==
    LET after[n \in 0 .. Len(lines)] ==
          IF n = 0 THEN w
          ELSE IF Repeats(after[n - 1], lines[n].digest) THEN after[n - 1]
          ELSE Written(after[n - 1], lines[n])
    IN  after[Len(lines)]

\* One file found: both inputs are copied up to its digest, and it is added to the output its
\* content belongs to if neither has it; content of no output is skipped, and so is one that can no
\* longer be read.
MergeFile(readable) ==
    /\ visit = "merge"
    /\ imported.paths # <<>>
    /\ LET f == Head(imported.paths)
           through == [o \in Output |->
             WrittenAll(copies[o], SubSeq(old[o], 1, Copied(old[o], f.digest)))]
           new == \A o \in Output : ~ Present(old[o], f.digest)
       IN  /\ readable \/ new
           /\ copies' = [o \in Output |->
                IF new /\ readable /\ f.belongs = o /\ ~ Repeats(through[o], f.digest)
                THEN Written(through[o], NewLine(f.digest))
                ELSE through[o]]
           /\ old' = [o \in Output |->
                SubSeq(old[o], Copied(old[o], f.digest) + 1, Len(old[o]))]
    /\ imported' = [imported EXCEPT !.paths = Tail(@)]
    /\ UNCHANGED <<tree, bases, stack, visit, mergeOld, given>>

FilesMerged ==
    /\ visit = "merge"
    /\ imported.paths = <<>>
    /\ visit' = "drain"
    /\ UNCHANGED <<tree, bases, stack, imported, old, copies, mergeOld, given>>

\* What is left of the files, up to a line that cannot be read.
DrainOld ==
    /\ visit = "drain"
    /\ IF \E o \in Output : \E i \in DOMAIN old[o] : old[o][i] = BadLine
       THEN GiveUp("Read") /\ UNCHANGED <<old, copies>>
       ELSE /\ copies' = [o \in Output |-> WrittenAll(copies[o], old[o])]
            /\ old' = [o \in Output |-> <<>>]
            /\ visit' = "finish flat"
            /\ UNCHANGED mergeOld
    /\ UNCHANGED <<tree, bases, stack, imported, given>>

\* A line cannot be written, or the content of a file is no line.
MergeFails ==
    /\ visit \in {"merge", "drain"}
    /\ GiveUp("Io")
    /\ UNCHANGED <<tree, bases, stack, imported, old, copies, given>>

\* The two are finished one after the other; if the first returns an error, visible or not, the
\* second is dropped.
FinishOld(o, outcome) ==
    /\ visit = IF o = "flat" THEN "finish flat" ELSE "finish data"
    /\ copies' = [copies EXCEPT ![o] = Finished(@, outcome)]
    /\ IF outcome = "published" /\ o = "flat"
       THEN visit' = "finish data" /\ UNCHANGED mergeOld
       ELSE GiveUp(FinishError(outcome))
    /\ UNCHANGED <<tree, bases, stack, imported, old, given>>

LegacyNext ==
    \/ \E ok \in BOOLEAN : OpenBase(ok) \/ OpenOld(ok) \/ MergeFile(ok)
    \/ \E entry \in IF stack = <<>> THEN {} ELSE Top : NextEntry(entry)
    \/ LeaveDirectory \/ Imported \/ FilesMerged \/ DrainOld \/ MergeFails
    \/ \E o \in Output, outcome \in Outcomes : FinishOld(o, outcome)

LegacySpec == LegacyInit /\ [][LegacyNext]_legacyVars
-----------------------------------------------------------------------------
LegacyTypeOK ==
    /\ tree \in Trees
    /\ given \in [Output -> OldFiles]
    /\ \A i \in DOMAIN stack : \E d \in DOMAIN tree.directories : stack[i] \subseteq tree.directories[d]
    /\ copies \in [Output -> WriterType([digest : Nat, from : {"input", "file"}])]
    /\ visit \in {"walk", "open", "merge", "drain", "finish flat", "finish data", "done"}
    /\ mergeOld \in {NoError, "OtherIo", "FileIo", "Read", "Io"}

\* An import that goes to its end without an error has gone through every directory: each file is
\* skipped, reported with both digests, or offered once under its digest, in their order, and none
\* whose content is something else is (Importer::next, VerifyingImporter::next, snapshot_import).
WalkAccountsForAll ==
    visit = "open" =>
      LET entries == UNION {tree.directories[d] : d \in DOMAIN tree.directories}
          files == {e \in entries : IsLegacyItem(e)}
          offered == {imported.paths[i] : i \in DOMAIN imported.paths}
      IN  /\ imported.skipped = {e.path : e \in {x \in entries : x.kind # "dir"} \ files}
          /\ imported.invalid = {<<e.digest, e.found>> : e \in {x \in files : x.digest # x.found}}
          /\ offered \subseteq {e \in files : e.digest = e.found}
          /\ {e.digest : e \in offered} = {e.digest : e \in {x \in files : x.digest = x.found}}
          /\ \A i, j \in DOMAIN imported.paths :
               i < j => imported.paths[i].digest < imported.paths[j].digest

\* An output is visible only if both files were read to their end.  It then ascends, has every line
\* of its file as it was, and besides only files that neither has and that belong to it.  The
\* command succeeds exactly if both are published and synced; after an error the first may be
\* visible, alone or with an unsynced second, and each that is visible is whole all the same, and
\* the second never is without the first (merge-old, copy_through, write.rs:204-209).
OldMergeKeepsAll ==
    LET Lines(o) == {copies[o].lines[i] : i \in DOMAIN copies[o].lines}
        Old(o) == {given[o][i] : i \in DOMAIN given[o]}
    IN  /\ \A o \in Output : Visible(copies[o]) =>
             /\ \A p \in Output : BadLine \notin Old(p)
             /\ Old(o) = {l \in Lines(o) : l.from = "input"}
             /\ \A i, j \in DOMAIN copies[o].lines :
                  i < j => copies[o].lines[i].digest < copies[o].lines[j].digest
             /\ \A l \in Lines(o) : l.from = "file" =>
                  /\ \A p \in Output : \A k \in Old(p) : k.digest # l.digest
                  /\ \E d \in DOMAIN tree.directories : \E e \in tree.directories[d] :
                       IsLegacyItem(e) /\ e.digest = l.digest /\ e.found = l.digest /\ e.belongs = o
        /\ visit = "done" =>
             (mergeOld = NoError <=> \A o \in Output : copies[o].output = "published")
        /\ Visible(copies["data"]) => copies["flat"].output = "published"

\* Nothing of the old files and directories is lost on the way into the copies.
LegacyIsKept == LegacyTypeOK /\ WalkAccountsForAll /\ OldMergeKeepsAll
=============================================================================
