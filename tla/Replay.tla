------------------------------- MODULE Replay -------------------------------
(***************************************************************************)
(* hids_replay (src/replay_main.cpp) and its NumPy oracle                  *)
(* (tools/bin_oracle.py): both load one model.bin and read the same sorted *)
(* list of CSV files. What they predict, count and print.                  *)
(*                                                                         *)
(* The tools run independently; here they take each file and row together. *)
(* A line is the sequence of its cells, a blank line is empty. A cell      *)
(* holds a numeral, one out of the range of float or int, a numeral        *)
(* followed by more text ("1.0" where an integer is read), other text, or  *)
(* nothing. Without --raw a feature cell counts in units of 1/Unit. Header *)
(* cells have no blanks around the name.                                   *)
(***************************************************************************)
EXTENDS Model, FeatureRouting, Functions

CONSTANTS
  ModelFiles,   \* bound: contents model.bin may have
  Entries,      \* bound: arguments and directory entries that occur
  Headers,      \* bound: header lines that occur, << >> for a file with none
  Rows,         \* bound: lines that occur
  MaxRows       \* bound: lines that are not blank, all files together

Forms == {"numeral", "range", "more", "junk", "empty"}

\* FEATURE_ORDER has a name for every input, and a model file that is cut
\* short lacks a whole header.
ASSUME ReplayAssumption ==
  /\ \A f \in ModelFiles : /\ f.words \in Seq(Int) /\ f.rest \in Nat
                           /\ Len(f.words) >= 4 => load(f).ok /\ f.words[1] <= Len(FEATURE_ORDER)
  /\ Entries \subseteq {"given", "csv", "other", "unreadable"}
  /\ \A h \in Headers : h \in Seq(ToSet(h))
  /\ Rows \subseteq Seq([form : Forms, value : Int])
  /\ MaxRows \in Nat

VARIABLES
  model, m,     \* the model in hids_replay and in the oracle
  raw,          \* both were given --raw
  header,       \* columns of the current file
  cpp, py,      \* the state of the two tools
  rows          \* history: lines read that are not blank

vars == <<model, m, raw, header, cpp, py, rows>>

Fresh(K) ==
  [state |-> "between", total |-> 0, correct |-> 0, bad |-> 0, unlabeled |-> 0, gidx |-> 0,
   cm |-> [y \in 0..(K - 1) |-> [p \in 0..(K - 1) |-> 0]], dump |-> << >>, status |-> "none"]

Ended(t, s) == [t EXCEPT !.state = "ended", !.status = s]

Running(t) == t.state # "ended"

Init ==
  /\ model = Rejected /\ m = << >> /\ raw \in BOOLEAN /\ header = << >>
  /\ cpp = [Fresh(0) EXCEPT !.state = "load"] /\ py = cpp /\ rows = 0

-----------------------------------------------------------------------------
(* Models: the oracle slices the file and works with matrices *)

reshape(w, first, r, cols) ==
  [i \in 1..r |-> SubSeq(w, first + (i - 1) * cols, first + i * cols - 1)]

load_bin(f) ==
  LET w  == f.words   n  == w[1]   h1 == w[2]   h2 == w[3]   K == w[4]
      p1 == 5 + 2 * n           \* first word of W1, W2 and W3
      p2 == p1 + h1 * n + h1
      p3 == p2 + h2 * h1 + h2
  IN  [n_in |-> n, n_out |-> K,
       fmin |-> SubSeq(w, 5, 4 + n), fmax |-> SubSeq(w, 5 + n, 4 + 2 * n),
       W1 |-> reshape(w, p1, h1, n),  b1 |-> SubSeq(w, p2 - h1, p2 - 1),
       W2 |-> reshape(w, p2, h2, h1), b2 |-> SubSeq(w, p3 - h2, p3 - 1),
       W3 |-> reshape(w, p3, K, h2),  b3 |-> SubSeq(w, p3 + K * h2, p3 + K * h2 + K - 1)]

\* W @ x + b
Affine(W, x, b) ==
  << >> \o [i \in DOMAIN b |-> SumFunction([j \in DOMAIN x |-> W[i][j] * x[j]]) + Unit * b[i]]

maximum(z) == << >> \o [i \in DOMAIN z |-> CHOOSE v \in {z[i], 0} : v >= z[i] /\ v >= 0]

argmax(z) == CHOOSE p \in DOMAIN z : \A q \in DOMAIN z : z[q] < z[p] \/ (z[q] = z[p] /\ p <= q)

\* np.clip of the scaled input; a constant feature is divided by one.
Scaled(x) ==
  << >> \o [j \in DOMAIN x |->
     LET d == m.fmax[j] - m.fmin[j]
         v == (Unit * (x[j] - m.fmin[j])) \div (IF d > 0 THEN d ELSE 1)
     IN  CASE v < 0 -> 0 [] v > Unit -> Unit [] OTHER -> v]

PyPredict(x) ==
  LET h == maximum(Affine(m.W1, IF raw THEN Scaled(x) ELSE x, m.b1))
  IN  argmax(Affine(m.W3, maximum(Affine(m.W2, h, m.b2)), m.b3)) - 1

CppPredict(x) == predict(model, IF raw THEN normalize(model, x) ELSE x)

\* Too short a header: load() throws and the tool returns 1, unpack() raises.
LoadModel(f) ==
  /\ cpp.state = "load"
  /\ IF Len(f.words) < 4
     THEN cpp' = Ended(cpp, "1") /\ py' = Ended(py, "1") /\ UNCHANGED <<model, m>>
     ELSE /\ model' = load(f) /\ cpp' = Fresh(model'.n_out)
          /\ m' = load_bin(f) /\ py' = Fresh(m'.n_out)
  /\ UNCHANGED <<raw, header, rows>>

-----------------------------------------------------------------------------
(* Files *)

\* gather_csvs: directories are searched for *.csv, arguments taken as given.
Gathers(e) == e # "other"

Label == Plain("label")

\* Column of a name, 0 if absent: the oracle's dict keeps the last one.
CppColumn(n) == SelectInSeq(header, LAMBDA h : h = n)
PyColumn(n)  == SelectLastInSeq(header, LAMBDA h : h = n)

Lacks(n_in) == \E j \in 1..n_in : ~Contains(header', FEATURE_ORDER[j])

\* process_file skips a file it cannot open or without a header, and exits on
\* a missing column.
CppOpen(e) ==
  CASE ~Running(cpp)                                     -> cpp
    [] Running(cpp) /\ (e = "unreadable" \/ header' = << >>) -> [cpp EXCEPT !.state = "between"]
    [] OTHER -> IF Lacks(model.n_in) THEN Ended(cpp, "1") ELSE [cpp EXCEPT !.state = "reading"]

\* open() raises, and the header of an empty file lacks every column.
PyOpen(e) ==
  IF ~Running(py) THEN py
  ELSE IF e = "unreadable" \/ Lacks(m.n_in) THEN Ended(py, "1")
  ELSE [py EXCEPT !.state = "reading"]

OpenFile(e, h) ==
  /\ cpp.state # "load" /\ (Running(cpp) \/ Running(py))
  /\ Gathers(e)
  /\ header' = h
  /\ cpp' = CppOpen(e) /\ py' = PyOpen(e)
  /\ UNCHANGED <<model, m, raw, rows>>

-----------------------------------------------------------------------------
(* Rows *)

\* Mutant of Bad: the row is numbered before its cells are parsed.
BadNumbered(t) == [t EXCEPT !.bad = @ + 1, !.gidx = @ + 1]

Bad(t) == [t EXCEPT !.bad = @ + 1]

\* A parsed row with label y (-1 unlabeled, -2 out of range) and class p.
Tallied(t, y, p) ==
  LET u == [t EXCEPT !.gidx = @ + 1, !.dump = Append(@, <<t.gidx + 1, y, p>>)]
  IN  CASE y = -1 -> [u EXCEPT !.unlabeled = @ + 1]
        [] y = -2 -> [u EXCEPT !.bad = @ + 1]
        [] OTHER  -> [u EXCEPT !.cm[y][p] = @ + 1, !.total = @ + 1,
                               !.correct = IF y = p THEN @ + 1 ELSE @]

\* split: getline does not return an empty last cell.
Split(r) == IF Last(r).form = "empty" THEN Front(r) ELSE r

\* Columns of the model's inputs, in the model's order.
CppFeatCol == << >> \o [j \in 1..model.n_in |-> CppColumn(FEATURE_ORDER[j])]
PyFeatCol  == << >> \o [j \in 1..m.n_in |-> PyColumn(FEATURE_ORDER[j])]

Values(v, columns) == << >> \o [j \in DOMAIN columns |-> v[columns[j]].value]

CppLabel(v, col) ==
  IF col = 0 THEN -1
  ELSE IF v[col].value < 0 \/ v[col].value >= model.n_out THEN -2 ELSE v[col].value

\* std::stof and std::stoi accept a numeral and ignore what follows it; they
\* throw out_of_range for one that float or int cannot represent.
CppRow(t, r) ==
  LET v == Split(r)
      label_col == CppColumn(Label)
      needed == (ToSet(CppFeatCol) \cup {label_col}) \ {0}
  IN  IF \A i \in needed : i <= Len(v) /\ v[i].form \in {"numeral", "more"}
      THEN Tallied(t, CppLabel(v, label_col), CppPredict(Values(v, CppFeatCol)))
      ELSE Bad(t)

PyLabel(v, col) ==
  IF col = 0 THEN -1
  ELSE IF v[col].form = "range" \/ v[col].value >= m.n_out \/ v[col].value < -1 THEN -2
  ELSE v[col].value

\* float32() and int() take the whole cell and have no range: a feature is
\* rounded to infinity or zero, a label is an integer of any size.
PyRow(t, v) ==
  LET lcol == PyColumn(Label)
      needed == (ToSet(PyFeatCol) \cup {lcol}) \ {0}
  IN  IF \A i \in needed : i \in DOMAIN v /\ v[i].form \in {"numeral", "range"}
      THEN Tallied(t, PyLabel(v, lcol), PyPredict(Values(v, PyFeatCol)))
      ELSE Bad(t)

ReadRow(r) ==
  /\ cpp.state = "reading" \/ py.state = "reading"
  /\ r # << >> => rows < MaxRows
  /\ cpp' = IF cpp.state = "reading" /\ r # << >> THEN CppRow(cpp, r) ELSE cpp
  /\ py'  = IF py.state = "reading" /\ r # << >> THEN PyRow(py, r) ELSE py
  /\ rows' = IF r # << >> THEN rows + 1 ELSE rows
  /\ UNCHANGED <<model, m, raw, header>>

-----------------------------------------------------------------------------
(* The end of main(): with --dump nothing more, else the report *)

Support(t, c) == SumFunction(t.cm[c])
fn(t, c)      == Support(t, c) - t.cm[c][c]
fp(t, c)      == SumFunction([r \in DOMAIN t.cm |-> t.cm[r][c]]) - t.cm[c][c]

\* Without --dump hids_replay fails when it has seen no usable row.
Finish(dump) ==
  /\ cpp.state # "load" /\ (Running(cpp) \/ Running(py))
  /\ cpp' = IF ~Running(cpp) THEN cpp
            ELSE IF ~dump /\ cpp.total = 0 /\ cpp.unlabeled = 0 THEN Ended(cpp, "1")
            ELSE Ended(cpp, "0")
  /\ py' = IF Running(py) THEN Ended(py, "0") ELSE py
  /\ UNCHANGED <<model, m, raw, header, rows>>

Next ==
  \/ \E f \in ModelFiles : LoadModel(f)
  \/ \E e \in Entries, h \in Headers : OpenFile(e, h)
  \/ \E r \in Rows : ReadRow(r)
  \/ \E dump \in BOOLEAN : Finish(dump)

Spec == Init /\ [][Next]_vars

-----------------------------------------------------------------------------
\* Inputs without what the tools read differently: a constant feature, a name
\* of two columns, a cell with more than a numeral or one out of range, the
\* label -1.
Comparable ==
  /\ \A f \in ModelFiles : load(f).ok =>
       \A j \in 1..load(f).n_in : load(f).feature_min[j] < load(f).feature_max[j]
  /\ \A h \in Headers : \A i, j \in 1..Len(h) : h[i] = h[j] => i = j
  /\ \A r \in Rows : \A i \in 1..Len(r) : r[i].form \notin {"more", "range"}
  /\ \A h \in Headers, r \in Rows : \A i \in 1..Len(h) \cap 1..Len(r) :
       h[i] = Label => r[i].value # -1

\* "diff cpp.txt o.txt  # must be empty" (README.md:74): the two dumps agree
\* line by line, numbering, label and predicted class included, over all
\* files and rows, with and without --raw, whatever the order of the columns:
\* the flat loops of Model compute what the oracle's matrices do. Only an
\* oracle that failed (on a file hids_replay skips) may have printed less.
SameDump ==
  /\ IsPrefix(py.dump, cpp.dump)
  /\ py.status # "1" => cpp.dump = py.dump

\* The report of hids_replay accounts for every row: each one is labeled,
\* unlabeled or unparseable, the table's supports add up to the labeled ones
\* and its errors, seen as false positives or as false negatives, to the
\* incorrect ones, and --dump has numbered exactly the rows that parsed.
EveryRowCounted ==
  /\ cpp.state = "reading" => cpp.total + cpp.unlabeled + cpp.bad = rows
  /\ cpp.total = SumFunction([c \in DOMAIN cpp.cm |-> Support(cpp, c)])
  /\ cpp.total - cpp.correct = SumFunction([c \in DOMAIN cpp.cm |-> fp(cpp, c)])
  /\ cpp.total - cpp.correct = SumFunction([c \in DOMAIN cpp.cm |-> fn(cpp, c)])
  /\ cpp.gidx = Len(cpp.dump)
=============================================================================
