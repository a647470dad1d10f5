----------------------------- MODULE MCContexts ------------------------------
(* Contexts with "any", a plain name, a name with a second spelling, and   *)
(* one that normalises to nothing; up to three sessions.                   *)
EXTENDS Contexts, TLC

CONSTANTS any, recipes, ab, ba, sequence

MCNames == {any, recipes, ab, ba, sequence}
MCCanon == any :> any @@ recipes :> recipes @@ ab :> ab @@ ba :> ab @@ sequence :> NoName

(* Without second spellings. *)
MCPlainNames == {any, recipes, ab}
MCPlainCanon == [n \in MCPlainNames |-> n]
=============================================================================
