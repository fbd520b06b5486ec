-------------------------- MODULE ManifestRegister --------------------------
(***************************************************************************)
(* What bridge_cache.rs:90-91 promises of one MANIFEST.json, "atomic       *)
(* overwrite": a reader finds no manifest or a whole one, and a manifest   *)
(* is only ever replaced by one built later.                               *)
(***************************************************************************)
EXTENDS Naturals

CONSTANT None

VARIABLE published      \* built_at of the manifest on disk, or None

Init == published = None

Publish ==
    /\ published' \in Nat \ {0}
    /\ published = None \/ published < published'

Spec == Init /\ [][Publish]_published
=============================================================================
