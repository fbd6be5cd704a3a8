------------------------------ MODULE MCStore ------------------------------
(* Two savers of one store, two digests with one content each, one crash.  Either both savers
   call `save` as they like; or one of them copies a source with a sound and a corrupt entry
   while the other saves; or the store is verified while one of the two does what it does. *)
EXTENDS StoreVerify, TLC

CONSTANTS d1, d2, c1, c2, both, copying

MCDigestOf == (c1 :> d1) @@ (c2 :> d2)
MCSource == (d1 :> c1) @@ (d2 :> c1)

VARIABLE scene  \* which of the three, and who saves around a verification
Scenes == {both, copying} \cup Savers
storeVars == <<allVars, walkVars, scene>>

StoreInit == VerifyInit /\ scene \in Scenes

Alone(s) == \A t \in Savers \ {s} : pc'[t] = "idle"
StoreNext ==
    \/ scene = both /\ Next /\ UNCHANGED <<copyVars, walkVars, scene>>
    \/ scene = copying /\ CopyNext /\ UNCHANGED <<walkVars, scene>>
    \/ scene \in Savers /\ VerifyNext /\ Alone(scene) /\ UNCHANGED scene

StoreSpec == StoreInit /\ [][StoreNext]_storeVars
=============================================================================
