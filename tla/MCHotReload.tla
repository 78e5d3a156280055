----------------------------- MODULE MCHotReload -----------------------------
(***************************************************************************)
(* Instances of HotReload for TLC: two agents, a and b, and the contents   *)
(* the editors write.                                                      *)
(***************************************************************************)
EXTENDS HotReload

CONSTANTS a, b, v1, v2

Says(n, v, needs) == [name |-> n, version |-> v, needs |-> needs]

\* Two versions of a, an a that cannot be built, a b that needs the tool of a.
Manifests == {Says(a, v1, Nothing), Says(a, v2, Nothing), Says(a, v1, Unknown),
              Says(b, v1, a)}

Contents == Manifests \cup {Unreadable, Inactive, Nameless}

=============================================================================
