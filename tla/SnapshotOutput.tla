--------------------------- MODULE SnapshotOutput ---------------------------
(***************************************************************************)
(* What the jobs of json-processing share: a SnapshotWriter over a         *)
(* DurableEncoder (io/write.rs) and prefer_loop_error (process/mod.rs).    *)
(*                                                                         *)
(* A writer is the lines it was given, the digest it wrote last and what   *)
(* became of its output.  Finishing it ends the frame, syncs the file,     *)
(* gives it its name unless the name is taken, and syncs the directory.    *)
(* A failure before the output has its name removes it; one after leaves   *)
(* it visible, and is an error all the same.  A writer that is dropped     *)
(* while it is open leaves nothing behind.                                 *)
(***************************************************************************)
EXTENDS Integers, Sequences

NoError == "none"
NoDigest == 0

\* SnapshotWriter::new over DurableEncoder::create.
NewWriter == [lines |-> <<>>, last_written |-> NoDigest, output |-> "open"]

\* write_snapshot: a snapshot with the digest written last is not written again.
Repeats(w, digest) == w.last_written = digest
Written(w, snapshot) ==
    [w EXCEPT !.lines = Append(@, snapshot), !.last_written = snapshot.digest]

\* finish: encoder.finish()?.finish() publishes what was written, or fails before it is visible, or
\* publishes it and fails to sync the directory, which is an error that retains the output.
Outcomes == {"published", "unsynced", "failed"}
Finished(w, outcome) == [w EXCEPT !.output = outcome]
FinishError(outcome) == IF outcome = "published" THEN NoError ELSE "Io"

\* The output is under its name, whatever finish returned.
Visible(w) == w.output \in {"published", "unsynced"}

WriterType(Snapshot) ==
    [lines : Seq(Snapshot), last_written : Nat, output : {"open"} \cup Outcomes]

\* The loop's error is preferred to that of finishing the output.
PreferLoopError(loop_error, finish_error) ==
    IF loop_error # NoError THEN loop_error ELSE finish_error
=============================================================================
