---------------------------- MODULE MCGroupQuery ----------------------------
(* Small instances of GroupQuery: two groups, files with two document names *)
(* and two texts, a public schema that holds a document of its own.         *)
EXTENDS GroupQuery, TLC

CONSTANTS g1, g2, n1, n2, x, y, p, t, u

MCMentions == (t :> {x, p}) @@ (u :> {y})

MCUploads == {[name |-> n1, text |-> x], [name |-> n1, text |-> y],
              [name |-> n2, text |-> x]}

(* Groups are told apart by nothing but what is in them.                    *)
Symmetry == Permutations({g1, g2})

MCPublicDocuments == {[name |-> n1, text |-> p]}
=============================================================================
