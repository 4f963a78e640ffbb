----------------------------- MODULE MCOciCache -----------------------------
(***************************************************************************)
(* Instances of OciCache: two images and a registry tag and a local tag.   *)
(* A published image is the second one: it may be one that is pushed, too. *)
(***************************************************************************)
EXTENDS OciCache, TLC

CONSTANTS c1, c2, d1, d2, registry, local

MCCreator == {c1, c2}
MCDigest == {d1, d2}
MCReference == {registry, local}
MCLocalReference == {local}
MCDerived == [d \in MCDigest |-> d2]
MCSymmetry == Permutations(MCCreator)
=============================================================================
