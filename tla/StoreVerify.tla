---------------------------- MODULE StoreVerify ----------------------------
(***************************************************************************)
(* Store::verify walks the directory and hashes each entry while savers    *)
(* and crashes go on around it.  The walk sees every entry that was there  *)
(* when it started and may or may not see one that appears meanwhile; it   *)
(* also meets temporary files, of live saves and of dead ones.  A copy     *)
(* (StoreCopy) may be one of those who save.                               *)
(***************************************************************************)
EXTENDS StoreCopy

VARIABLES
    walk,       \* whether a verification is running, and how it ended
    verified,   \* the digests counted in verified_count
    errors,     \* the digests in Summary::errors
    passed,    \* the directories whose temporary file the walk has passed over
    atStart     \* history: the entries there were when the walk began

walkVars == <<walk, verified, errors, passed, atStart>>
verifyVars == <<file, temp, stale, pc, request, answer, unverified, crashes,
                copy, copied, skipped, mismatched, walk, verified, errors, passed, atStart>>

Present == {d \in Digests : file[d] # Missing}

VerifyTypeOK ==
    /\ CopyTypeOK
    /\ walk \in {"idle", "walking", "done", "io error", "entry error"}
    /\ verified \subseteq Digests
    /\ errors \subseteq Digests
    /\ passed \subseteq Digests
    /\ atStart \subseteq Digests

VerifyInit ==
    /\ CopyInit
    /\ walk = "idle"
    /\ verified = {}
    /\ errors = {}
    /\ passed = {}
    /\ atStart = {}
-----------------------------------------------------------------------------
BeginWalk ==
    /\ walk = "idle"
    /\ walk' = "walking"
    /\ atStart' = Present
    /\ UNCHANGED <<allVars, verified, errors, passed>>

\* The walk reads the whole entry and compares its hash with its name.
HashesToName(d) == DigestOf[file[d]] = d

VisitEntryStopsAtError(d) ==
    /\ walk = "walking"
    /\ d \in Present \ (verified \cup errors)
    /\ IF DigestOf[file[d]] = d
       THEN verified' = verified \cup {d} /\ UNCHANGED <<errors, walk>>
       ELSE errors' = errors \cup {d} /\ walk' = "done" /\ UNCHANGED verified
    /\ UNCHANGED <<allVars, passed, atStart>>
VisitEntry(d) ==
    /\ walk = "walking"
    /\ d \in Present \ (verified \cup errors)
    /\ IF HashesToName(d)
       THEN verified' = verified \cup {d} /\ UNCHANGED errors
       ELSE errors' = errors \cup {d} /\ UNCHANGED verified
    /\ UNCHANGED <<allVars, walk, passed, atStart>>

\* A name the tree does not accept is an error of the iteration, which ends the walk, unless
\* its extension is that of a temporary file.
Skips(extension) == extension = "tmp"

TempIn(d) == d \in stale \/ \E s \in Savers : temp[s] # NoTemp /\ Digest(s) = d

VisitTemp(d) ==
    /\ walk = "walking"
    /\ TempIn(d)
    /\ d \notin passed
    /\ IF Skips("tmp")
       THEN passed' = passed \cup {d} /\ UNCHANGED walk
       ELSE walk' = "entry error" /\ UNCHANGED passed
    /\ UNCHANGED <<allVars, verified, errors, atStart>>

\* Opening, reading or listing fails: `?`.
VisitFails ==
    /\ walk = "walking"
    /\ walk' = "io error"
    /\ UNCHANGED <<allVars, verified, errors, passed, atStart>>

\* The underlying iterator is exhausted.
EndWalk ==
    /\ walk = "walking"
    /\ atStart \subseteq verified \cup errors
    /\ walk' = "done"
    /\ UNCHANGED <<allVars, verified, errors, passed, atStart>>

Walk ==
    \/ BeginWalk
    \/ \E d \in Digests : VisitEntry(d) \/ VisitTemp(d)
    \/ VisitFails
    \/ EndWalk

\* The process that verifies is not one of those that crash.
VerifyNext ==
    \/ CopyNext /\ UNCHANGED walkVars
    \/ Walk

VerifySpec == VerifyInit /\ [][VerifyNext]_verifyVars
-----------------------------------------------------------------------------
(* Properties *)

\* A finished verification has judged every entry that was there when it began, each once, and
\* nothing that is not there, however savers and a copy interleave with it.  What it says of an
\* entry is still true when it ends: one it counts as verified hashes to its name, one it reports
\* does not, and someone saved that one without verification.  And no temporary file, of a live
\* save or of a crashed one, makes the iteration fail.
VerifyCovers ==
    /\ walk # "entry error"
    /\ walk = "done" =>
         /\ atStart \subseteq verified \cup errors
         /\ verified \cup errors \subseteq Present
    /\ \A d \in verified : DigestOf[file[d]] = d
    /\ \A d \in errors : DigestOf[file[d]] # d /\ d \in unverified
=============================================================================
