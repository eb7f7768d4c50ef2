------------------------------- MODULE Model -------------------------------
(***************************************************************************)
(* class Model (include/hids/model.hpp): the layout of model.bin, the      *)
(* scaler and the forward pass over the arrays that were read.             *)
(*                                                                         *)
(* A file is the sequence of its complete 32-bit words and the number of   *)
(* bytes after them. Weights and biases are whole numbers and normalized   *)
(* inputs multiples of 1/Unit instead of floats, and a neuron's sum is not *)
(* rounded: the model keeps which number meets which, not the precision.   *)
(* Indices start at 1. `<< >> \o' makes TLC evaluate a sequence only once. *)
(***************************************************************************)
EXTENDS Integers, SequencesExt

CONSTANT Unit   \* fixed-point one: a normalized input lies in 0..Unit

ASSUME ModelAssumption == Unit \in Nat \ {0}

Rejected == [ok |-> FALSE]

-----------------------------------------------------------------------------
(* load() *)

\* The word each array ends with, in the order they are read; the header
\* ends with word 4.
Layout(n_in, h1, h2, n_out) ==
  LET scaler == 4 + 2 * n_in
      layer1 == scaler + h1 * n_in + h1
      layer2 == layer1 + h2 * h1 + h2
  IN  << 4, 4 + n_in, scaler, layer1 - h1, layer1, layer2 - h2, layer2,
         layer2 + n_out * h2, layer2 + n_out * h2 + n_out >>

\* The i-th read_floats: its words, and whether it throws.
read_floats(words, end, i) == SubSeq(words, end[i] + 1, end[i + 1])
ShortRead(words, end, i) == end[i + 1] > Len(words)

\* Mutant of Trailing: only whole words count.
TrailingWords(f, last) == last < Len(f.words)

\* Anything after the last array is an error.
Trailing(f, last) == last < Len(f.words) \/ f.rest > 0

load(f) ==
  LET w == f.words
      end == Layout(w[1], w[2], w[3], w[4])
      array(i) == read_floats(w, end, i)
  IN  IF Len(w) < 4 \/ \E i \in 1..4 : w[i] <= 0 THEN Rejected
      ELSE IF (\E i \in 1..8 : ShortRead(w, end, i)) \/ Trailing(f, end[9]) THEN Rejected
      ELSE [ok |-> TRUE, n_in |-> w[1], h1 |-> w[2], h2 |-> w[3], n_out |-> w[4],
            feature_min |-> array(1), feature_max |-> array(2), W1 |-> array(3), b1 |-> array(4),
            W2 |-> array(5), b2 |-> array(6), W3 |-> array(7), b3 |-> array(8)]

-----------------------------------------------------------------------------
(* normalize() and predict() *)

Clamp(v) == IF v < 0 THEN 0 ELSE IF v > Unit THEN Unit ELSE v

\* A feature that was constant in training is 0 whatever its value.
normalize(m, raw) ==
  << >> \o [j \in 1..m.n_in |->
     LET d == m.feature_max[j] - m.feature_min[j]
     IN  Clamp(IF d > 0 THEN (Unit * (raw[j] - m.feature_min[j])) \div d ELSE 0)]

ReLU(s) == IF s > 0 THEN s ELSE 0

\* Neuron i of a layer: its row of the flat array W times x, plus its bias.
Neuron(W, b, x, i) ==
  LET s[j \in 0..Len(x)] ==
        IF j = 0 THEN Unit * b[i] ELSE s[j - 1] + W[(i - 1) * Len(x) + j] * x[j]
  IN  s[Len(x)]

Hidden(W, b, x) == << >> \o [i \in 1..Len(b) |-> ReLU(Neuron(W, b, x, i))]

\* Mutant of Beats: of equal logits the last one wins.
BeatsOrTies(v, w) == v >= w

Beats(v, w) == v > w

ArgMax(z) ==
  LET best[i \in 1..Len(z)] ==
        IF i = 1 THEN 1 ELSE LET b == best[i - 1] IN IF Beats(z[i], z[b]) THEN i ELSE b
  IN  best[Len(z)]

\* The class index counts from 0.
predict(m, x) ==
  LET a == Hidden(m.W1, m.b1, x)
      b == Hidden(m.W2, m.b2, a)
  IN  ArgMax(<< >> \o [i \in 1..m.n_out |-> Neuron(m.W3, m.b3, b, i)]) - 1
=============================================================================
