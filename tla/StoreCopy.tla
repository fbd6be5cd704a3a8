----------------------------- MODULE StoreCopy -----------------------------
(***************************************************************************)
(* Store::copy: one saver of the target, the copier, saves every entry of  *)
(* a source store, one after the other, while others save into the same    *)
(* target.  A crash kills the copier too; it may be started again.         *)
(***************************************************************************)
EXTENDS FileStore

CONSTANTS
    copier,     \* the saver that copies
    Source,     \* what the source store holds: Source[d] \in Contents \cup {Missing}
    CopyVerify  \* the `verify` argument of `copy`

ASSUME CopyAssumption ==
    /\ copier \in Savers
    /\ Source \in [Digests -> Contents \cup {Missing}]
    /\ CopyVerify \in BOOLEAN

VARIABLES
    copy,       \* "idle", "walking", "done" or "failed"
    copied,     \* the digests counted in CopySummary::copied
    skipped,    \* those counted as skipped
    mismatched  \* those counted as mismatched

copyVars == <<copy, copied, skipped, mismatched>>
allVars == <<file, temp, stale, pc, request, answer, unverified, crashes,
             copy, copied, skipped, mismatched>>

Entries == {d \in Digests : Source[d] # Missing}
Counted == copied \cup skipped \cup mismatched

\* What a source entry is saved as.
CopyRequest(d) == [digest |-> d, bytes |-> Source[d], verify |-> CopyVerify]

CopyTypeOK ==
    /\ TypeOK
    /\ copy \in {"idle", "walking", "done", "failed"}
    /\ copied \subseteq Entries
    /\ skipped \subseteq Entries
    /\ mismatched \subseteq Entries

CopyInit ==
    /\ Init
    /\ copy = "idle"
    /\ copied = {}
    /\ skipped = {}
    /\ mismatched = {}
-----------------------------------------------------------------------------
Begin ==
    /\ copy = "idle"
    /\ copy' = "walking"
    /\ copied' = {}
    /\ skipped' = {}
    /\ mismatched' = {}
    /\ UNCHANGED vars

\* The next entry is read into the buffer and saved to the target.
SaveNext(d) ==
    /\ copy = "walking"
    /\ pc[copier] = "idle"
    /\ d \in Entries \ Counted
    /\ Goto(copier, "exists")
    /\ request' = [request EXCEPT ![copier] = CopyRequest(d)]
    /\ UNCHANGED <<file, temp, stale, answer, unverified, crashes, copyVars>>

\* The SaveSummary of the target goes into one of the three counters, an error ends the copy.
CountMismatchAsCopied ==
    /\ copied' = IF answer[copier] \in {"Success", "DigestMismatch"}
                 THEN copied \cup {Digest(copier)} ELSE copied
    /\ skipped' = IF answer[copier] = "AlreadyPresent"
                  THEN skipped \cup {Digest(copier)} ELSE skipped
    /\ UNCHANGED mismatched
Count ==
    /\ copied' = IF answer[copier] = "Success"
                 THEN copied \cup {Digest(copier)} ELSE copied
    /\ skipped' = IF answer[copier] = "AlreadyPresent"
                  THEN skipped \cup {Digest(copier)} ELSE skipped
    /\ mismatched' = IF answer[copier] = "DigestMismatch"
                     THEN mismatched \cup {Digest(copier)} ELSE mismatched

Saved ==
    /\ copy = "walking"
    /\ pc[copier] = "done"
    /\ Count
    /\ copy' = IF answer[copier] = "Error" THEN "failed" ELSE copy
    /\ Return(copier)

\* Iterating or reading the source fails: `?`.
ReadFails ==
    /\ copy = "walking"
    /\ pc[copier] = "idle"
    /\ Entries \ Counted # {}
    /\ copy' = "failed"
    /\ UNCHANGED <<vars, copied, skipped, mismatched>>

End ==
    /\ copy = "walking"
    /\ pc[copier] = "idle"
    /\ Entries \subseteq Counted
    /\ copy' = "done"
    /\ UNCHANGED <<vars, copied, skipped, mismatched>>

\* The copier dies with the savers and the next copy starts over.
CrashCopy ==
    /\ Crash
    /\ copy' = "idle"
    /\ copied' = {}
    /\ skipped' = {}
    /\ mismatched' = {}

Copy ==
    \/ Begin
    \/ \E d \in Digests : SaveNext(d)
    \/ (Step(copier) \/ Fail(copier)) /\ UNCHANGED copyVars
    \/ Saved
    \/ ReadFails
    \/ End

Other(s) == (Call(s) \/ Step(s) \/ Fail(s) \/ Return(s)) /\ UNCHANGED copyVars

CopyNext ==
    \/ Copy
    \/ \E s \in Savers \ {copier} : Other(s)
    \/ CrashCopy

\* Each step of a copy is taken once it can be.
CopyFairness ==
    /\ WF_allVars(Begin)
    /\ WF_allVars(\E d \in Digests : SaveNext(d))
    /\ WF_allVars(Step(copier) /\ UNCHANGED copyVars)
    /\ WF_allVars(Saved)
    /\ WF_allVars(End)

CopySpec == CopyInit /\ [][CopyNext]_allVars /\ CopyFairness
-----------------------------------------------------------------------------
(* Properties *)

Disjoint(a, b) == a \cap b = {}

\* A finished copy has put every source entry into exactly one counter, and the counters tell
\* the truth about the target, whoever else saves into it: a copied entry has the bytes of the
\* source, a skipped one is there, and only a corrupt entry is left out, when verification is on.
CopyAccountsForAll ==
    /\ copy = "done" => Counted = Entries
    /\ Disjoint(copied, skipped) /\ Disjoint(copied \cup skipped, mismatched)
    /\ \A d \in copied : file[d] = Source[d] /\ (CopyVerify => DigestOf[file[d]] = d)
    /\ \A d \in skipped : file[d] # Missing
    /\ \A d \in mismatched : CopyVerify /\ DigestOf[Source[d]] # d
=============================================================================
