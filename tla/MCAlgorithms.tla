---------------------------- MODULE MCAlgorithms ----------------------------
(***************************************************************************)
(* The algorithms without state, over every small input.  Nothing moves:   *)
(* each initial state is one input of one of them.                         *)
(***************************************************************************)
EXTENDS Fields, Selection

CONSTANTS
  MaxId,     \* request ids are drawn from 1..MaxId
  MaxLength  \* the length of a --field argument

ASSUME AlgorithmsAssumption == MaxId \in Nat /\ MaxLength \in Nat \ {0}

VARIABLES requested, selection

\* Up to two parts, with numbers up to one past the last line.
SelectionInit ==
  /\ requested \in SUBSET (1..MaxId)
  /\ \/ selection = AllSelection
     \/ selection = Ranges({})
     \/ \E part, other \in (0..MaxId + 1) \X (0..MaxId + 1) : selection = Ranges({part, other})

Texts(chars, length) == UNION {[1..n -> chars] : n \in 0..length}

\* One of each kind.
Chars == {"a", "2", "-", "=", " ", Quote, Backslash}

\* One argument of every kind of character, or two of a few kinds.
FieldsInit ==
  /\ \/ \E arg \in Texts(Chars, MaxLength) : args = <<arg>>
     \/ \E arg, again \in Texts({"a", "-", "="}, MaxLength - 1) : args = <<arg, again>>
  /\ asked \in SUBSET {<<"a">>, <<"-">>}

AlgorithmsInit ==
  \/ SelectionInit /\ args = <<>> /\ asked = {}
  \/ FieldsInit /\ requested = {} /\ selection = AllSelection

AlgorithmsSpec ==
  AlgorithmsInit /\ [][UNCHANGED <<requested, selection, args, asked>>]_<<requested, selection, args, asked>>

----------------------------------------------------------------------------
\* The numbered views of the ids S: one line for each, in ascending order.
Views(S) ==
  {lines \in [1..Cardinality(S) -> S] :
     \A i, j \in 1..Cardinality(S) : i < j => lines[i] < lines[j]}

\* There is one, and line i of it shows the i-th id.
Lines == CHOOSE lines \in Views(requested) : TRUE

\* A selection is accepted when it is "all", or has a part, every number in it is the
\* number of a line and no range runs backwards; then it picks the ids on exactly the
\* lines that one of its parts covers, at least one of them unless it is "all".
PicksTheNumberedLines ==
  LET picked == SelectRequestedIds(requested, selection)
      Covers(part, i) == part[1] <= i /\ i <= part[2]
  IN /\ SelectionOk(requested, selection)
          <=> \/ selection.all
              \/ /\ selection.parts # {}
                 /\ \A part \in selection.parts :
                      {part[1], part[2]} \subseteq DOMAIN Lines /\ part[1] <= part[2]
     /\ SelectionOk(requested, selection) =>
          /\ \A i \in DOMAIN Lines :
               Lines[i] \in picked <=> selection.all \/ \E part \in selection.parts : Covers(part, i)
          /\ selection.all \/ picked # {}
=============================================================================
