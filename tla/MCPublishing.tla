---------------------------- MODULE MCPublishing ----------------------------
(***************************************************************************)
(* The publication lifecycle as TLC checks it: owners, workers, admins and *)
(* plans are interchangeable model values.                                 *)
(***************************************************************************)
EXTENDS PublishingIntents, TLC

Symmetry == Permutations(Owners) \union Permutations(Workers)
              \union Permutations(Admins) \union Permutations(Plans)
=============================================================================
