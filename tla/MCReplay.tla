------------------------------ MODULE MCReplay ------------------------------
(* Replay for TLC: two models with two and three classes, and a file that  *)
(* is cut short. Headers are in order, reordered with an unused column,    *)
(* without a label, without one of the features, and absent. Not here:     *)
(* those the two tools are known to read differently (the README lists     *)
(* them).                                                                  *)
EXTENDS Replay

MCModelFiles ==
  {[words |-> <<2, 2, 1, 3>> \o <<0, -2>> \o <<2, 2>>      \* feature_min, feature_max
                \o <<1, -1, 2, 1>> \o <<0, -1>>            \* W1, b1
                \o <<1, 1>> \o <<0>>                       \* W2, b2
                \o <<0, 1, 2>> \o <<1, 0, -2>>,            \* W3, b3
    rest |-> 0],
   [words |-> <<1, 1, 2, 2>> \o <<-2, 1>> \o <<1, 0>> \o <<1, -1, 0, 1>> \o <<1, 2, -1, 0>> \o <<0, 1>>,
    rest |-> 0],
   [words |-> <<2, 2>>, rest |-> 1]}

Feature(j) == FEATURE_ORDER[j]

MCHeaders ==
  {<<Feature(1), Feature(2), Label>>, <<Label, Feature(2), Plain("other"), Feature(1)>>,
   <<Feature(2), Feature(1)>>, <<Feature(1), Label>>, << >>}

Cell(f, n) == [form |-> f, value |-> n]
Numerals   == {Cell("numeral", n) : n \in {-2, 0, 1, 2, 3}}
Junk       == Cell("junk", 0)
Empty      == Cell("empty", 0)

MCRows ==
  {<< >>, <<Junk, Cell("numeral", 1), Junk>>, <<Cell("numeral", 1), Cell("numeral", 0)>>,
   <<Cell("numeral", 1), Cell("numeral", 0), Empty>>, <<Empty, Empty>>,
   <<Cell("numeral", 1), Cell("numeral", 0), Empty, Cell("numeral", 2)>>,
   <<Cell("numeral", 3), Cell("numeral", 2), Junk, Cell("numeral", 1), Empty>>}
    \cup {<<a, b, c>> : a, b, c \in Numerals}

\* The run asks SameDump of inputs the tools are meant to agree on.
ASSUME ComparableInputs == Comparable
=============================================================================
