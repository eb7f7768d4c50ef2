----------------------------- MODULE MCStartup -----------------------------
(* Startup for TLC: model files that are sound, short, too long, or do not *)
(* match the metadata, and kernels with and without some tracepoints.      *)
EXTENDS MCConfig, Startup

\* Weights that make class k win: all inputs count, and b3 decides.
Body31(k) ==
  LET zeros == [j \in 1..31 |-> 0] IN
  zeros \o [j \in 1..31 |-> 2 * j] \o [j \in 1..31 |-> 1] \o <<0, 1, 0>>
    \o [i \in 1..9 |-> 1] \o [i \in 1..9 |-> IF i = k + 1 THEN 1 ELSE 0]

File(header, body, rest) == [words |-> header \o body, rest |-> rest]

MCModelFiles ==
  {File(<<31, 1, 1, 9>>, Body31(k), 0) : k \in {0, 8}}
    \cup {File(<<31, 1, 1, 9>>, Body31(0), 2), File(<<31, 1, 1, 9>>, Body31(0) \o <<7>>, 0),
          File(<<31, 1, 1, 9>>, Front(Body31(0)), 3), File(<<31, 2, 1, 9>>, Body31(0), 0),
          File(<<31, 1, 1, 8>>, SubSeq(Body31(0), 1, 112), 0),
          File(<<30, 1, 1, 9>>, SubSeq(Body31(0), 1, 111), 0),
          File(<<31, 0, 1, 9>>, Body31(0), 0), File(<<31, 1, -1>>, << >>, 0), None}

\* Position 7 is block:block_unplug, 18 ext4:ext4_da_update_reserve_space.
MCLacking == {{}, {7}, {1, 18}}
=============================================================================
