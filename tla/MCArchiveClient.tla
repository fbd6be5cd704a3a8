--------------------------- MODULE MCArchiveClient ---------------------------
(* An instance of ArchiveClient for TLC. *)
EXTENDS ArchiveClient, TLC

CONSTANTS s1, s2, s3, s4, p1, p2, p3

\* Two targets have pages of their own, one of them with the expected digest; the others share
\* the page p3.
MCHtmlOf == (s1 :> p3) @@ (s2 :> p1) @@ (s3 :> p2) @@ (s4 :> p3)
=============================================================================
