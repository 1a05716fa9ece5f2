------------------------------ MODULE MCPrompt ------------------------------
(***************************************************************************)
(* Small instances of the daemon and its prompt for TLC.                   *)
(***************************************************************************)
EXTENDS Prompt, TLC

\* "all", one position, a range, two positions apart, one out of range.
MCSelections ==
  {AllSelection} \cup
    {Ranges(parts) : parts \in {{<<1, 1>>}, {<<2, 3>>}, {<<1, 1>>, <<3, 3>>}, {<<4, 4>>}}}

\* Two positions are enough where no request has three ids.
MCFewSelections == {AllSelection, Ranges({<<1, 1>>}), Ranges({<<2, 2>>})}

\* Clients and keys are interchangeable.
MCSymmetry == Permutations(Clients) \cup Permutations(Keys)
=============================================================================
