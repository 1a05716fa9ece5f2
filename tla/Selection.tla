----------------------------- MODULE Selection -----------------------------
(***************************************************************************)
(* How a user names some of the secrets of a pending request: the word     *)
(* "all", or a list such as "1,4,3-6" of positions in the numbered view of *)
(* the request.                                                            *)
(*                                                                         *)
(* A request keeps its secret ids sorted and without repetition (the code  *)
(* collects them from a BTreeSet and afterwards only filters them), so it  *)
(* is the set of its ids; the order of id strings is the order of Nat.     *)
(* The text of a selection is reduced to what the parser makes of it: each *)
(* non-empty part between commas is a range <<first, last>>, a lone index  *)
(* i being <<i, i>>, and a number that cannot be parsed being 0, which the *)
(* parser rejects just as well.                                            *)
(***************************************************************************)
EXTENDS Naturals, FiniteSets

\* A selection is the word "all" or a set of ranges; the order and the
\* repetition of the parts make no difference to the code.
AllSelection  == [all |-> TRUE,  parts |-> {}]
Ranges(parts) == [all |-> FALSE, parts |-> parts]

\* The position of id x in the numbered view of the ids S, counted from 1.
Position(S, x) == Cardinality({y \in S : y <= x})

\* parse_index: positions are 1..upper_bound.
ParseIndex(index, upper_bound) == index \in 1..upper_bound

\* What parse_selection accepts: at least one part, every bound of every part
\* in range, and no range that runs backwards.
ParseAccepts(parts, upper_bound) ==
  /\ parts # {}
  /\ \A part \in parts : /\ ParseIndex(part[1], upper_bound)
                         /\ ParseIndex(part[2], upper_bound)
                         /\ part[1] <= part[2]

\* Off-by-one of the range loop (start..end in place of start..=end).
ParseSelectionHalfOpen(parts) ==
  UNION {part[1]..(part[2] - 1) : part \in parts}

\* The positions an accepted selection picks.
ParseSelection(parts) == UNION {part[1]..part[2] : part \in parts}

\* Whether select_requested_ids returns Ok for the request with ids S.
SelectionOk(S, selection) ==
  selection.all \/ ParseAccepts(selection.parts, Cardinality(S))

\* select_requested_ids: the ids of S that the selection names.
SelectRequestedIds(S, selection) ==
  IF selection.all
  THEN S
  ELSE {x \in S : Position(S, x) \in ParseSelection(selection.parts)}
=============================================================================
