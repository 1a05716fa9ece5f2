------------------------------ MODULE MCReview ------------------------------
(***************************************************************************)
(* Small instances of a user's review for TLC.                             *)
(***************************************************************************)
EXTENDS Review, TLC

\* Everything, a position, a range, and a position that only the longest view has.
MCReviewSelections ==
  {AllSelection, Ranges({<<1, 1>>}), Ranges({<<2, 2>>}), Ranges({<<1, 2>>})}

MCReviewSymmetry == Permutations(Clients)
=============================================================================
