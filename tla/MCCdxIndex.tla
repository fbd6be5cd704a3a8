----------------------------- MODULE MCCdxIndex -----------------------------
(* Instances of CdxIndex for TLC. *)
EXTENDS CdxIndex, TLC

CONSTANTS w, r, d1, d2, u1, u2

Item(k, d, u) == [key |-> k, digest |-> d, original |-> u, valid |-> TRUE, short |-> TRUE]

\* Keys 1 and 2 are captures of one second.
MCTimeOf == <<1, 1>>
\* New items, the same key twice in a batch, a digest that goes and comes back, an item without
\* one, and a batch whose second item cannot be encoded.
MCBatches ==
    {<<Item(1, d1, u1), Item(2, d1, u2)>>,
     <<Item(1, d2, u1)>>,
     <<Item(1, d1, u2), Item(1, d2, u2)>>,
     <<Item(2, NoDigest, u1)>>,
     <<Item(2, d2, u1), [Item(1, d1, u1) EXCEPT !.valid = FALSE]>>}
MCMaxCalls == (w :> 3) @@ (r :> 2)
=============================================================================
