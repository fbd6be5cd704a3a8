------------------------- MODULE MCDownloadManager -------------------------
(* Instances of DownloadManager for TLC. *)
EXTENDS DownloadManager, TLC

CONSTANTS d1, d2, d3, c1, c2, c3

MCDigestOf == (c1 :> d1) @@ (c2 :> d2) @@ (c3 :> d3)

\* A capture, and one whose digest in the index is not a SHA-1 digest.
MCExpected == <<d1, NoDigest>>

\* The output directory holds a file with other bytes than its name says.
MCExisting == (d1 :> Missing) @@ (d2 :> c1) @@ (d3 :> Missing)
=============================================================================
