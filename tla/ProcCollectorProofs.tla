------------------------ MODULE ProcCollectorProofs ------------------------
(***************************************************************************)
(* Proof that ProcCollector's deltas are exact, for any set of disks       *)
(* without virtual devices on top, and any number of writes, samples and   *)
(* faults.                                                                 *)
(*                                                                         *)
(* Balance: while nothing disturbs the disks, the counters are ahead of    *)
(* the last reading by exactly what has been written since. Pending says   *)
(* the same of the reading a sample() in progress holds and its baseline.  *)
(***************************************************************************)
EXTENDS ProcCollector, Sums

Amount == [sectors : Nat, ticks : Nat]

Types ==
  /\ present \in SUBSET Disks /\ stat \in [Devices -> Amount]
  /\ step \in {"idle", "read"}
  /\ cur \in Amount /\ prev_ \in Amount /\ truth \in Amount /\ due \in Amount
  /\ have_prev_ \in BOOLEAN /\ disturbed \in BOOLEAN /\ suspect \in BOOLEAN

\* The last reading of the counters.
LastReading == IF step = "read" THEN cur.sectors ELSE prev_.sectors

Balance ==
  ~disturbed /\ (step = "read" \/ have_prev_) =>
    Totals.sectors = LastReading + truth.sectors

Pending ==
  /\ step = "read" /\ have_prev_ /\ ~suspect => cur.sectors = prev_.sectors + due.sectors
  /\ ~have_prev_ => due.sectors = 0 /\ out.sectors = 0

IInv == Types /\ Balance /\ Pending /\ DeltaExact

-----------------------------------------------------------------------------
(* The sum over the disks *)

Sectors == [v \in Counted |-> stat[v].sectors]

\* Totals adds up the sectors of finitely many devices.
LEMMA CountedSum ==
  ASSUME Types
  PROVE  /\ IsFiniteSet(Counted) /\ Counted \subseteq Devices
         /\ \A v \in Counted : Sectors[v] \in Nat
         /\ Totals.sectors = Sum(Sectors, Counted)
<1>1. IsFiniteSet(Kinds)
  <2>1. IsFiniteSet({"disk", "part", "virtual"})
    <3>1. IsFiniteSet({"disk"}) /\ IsFiniteSet({"part"}) /\ IsFiniteSet({"virtual"})
      BY FS_Singleton
    <3>2. IsFiniteSet({"disk"} \cup {"part"})
      BY <3>1, FS_Union
    <3>3. IsFiniteSet(({"disk"} \cup {"part"}) \cup {"virtual"})
      BY <3>1, <3>2, FS_Union
    <3>4. {"disk", "part", "virtual"} = ({"disk"} \cup {"part"}) \cup {"virtual"}
      OBVIOUS
    <3> QED BY <3>3, <3>4
  <2>2. Kinds \subseteq {"disk", "part", "virtual"}
    BY DEF Kinds
  <2> QED BY <2>1, <2>2, FS_Subset
<1>2. IsFiniteSet(Devices)
  BY <1>1, ProcAssumption, FS_Product DEF Devices
<1>3. Counted \subseteq Devices
  BY DEF Counted
<1>4. IsFiniteSet(Counted)
  BY <1>2, <1>3, FS_Subset
<1>5. \A v \in Counted : Sectors[v] \in Nat
  BY <1>3 DEF Sectors, Types, Amount
<1> QED BY <1>3, <1>4, <1>5 DEF Totals, Sum, Sectors

\* What readDiskstats returns is an amount.
LEMMA TotalsType == ASSUME Types PROVE Totals \in Amount
<1>1. IsFiniteSet(Counted) /\ Counted \subseteq Devices /\ Totals.sectors \in Nat
  BY CountedSum, SumSplits
<1> DEFINE ticks == [v \in Counted |-> stat[v].ticks]
<1>2. \A v \in Counted : ticks[v] \in Nat
  BY <1>1 DEF Types, Amount
<1>3. Sum(ticks, Counted) \in Nat
  <2> HIDE DEF ticks
  <2> QED BY <1>1, <1>2, SumSplits
<1>4. Totals = [sectors |-> Totals.sectors, ticks |-> Sum(ticks, Counted)]
  BY DEF Totals, Sum
<1> HIDE DEF ticks
<1> QED BY <1>1, <1>3, <1>4 DEF Amount

-----------------------------------------------------------------------------
(* One lemma per action *)

\* The first call finds empty counters and no baseline.
LEMMA InitIInv == Init => IInv
<1> SUFFICES ASSUME Init PROVE IInv
  OBVIOUS
<1>1. Zero \in Amount
  BY DEF Zero, Amount
<1>2. Types
  BY <1>1 DEF Init, Types
<1>3. Balance /\ Pending /\ DeltaExact
  BY DEF Init, Balance, Pending, DeltaExact, Zero
<1> QED BY <1>2, <1>3 DEF IInv

\* A write moves the sum and the truth by the same amount, through whichever
\* device it goes.
LEMMA WriteStep ==
  ASSUME ~Stacked, IInv, NEW d \in Disks, NEW k \in Kinds, Write(d, k)
  PROVE  IInv'
<1> USE DEF IInv
<1> DEFINE x == <<d, "disk">>
<1>1. /\ d \in present
      /\ stat' = [v \in Devices |-> IF v \in {<<d, k>>, <<d, "disk">>}
                                    THEN [stat[v] EXCEPT !.sectors = stat[v].sectors + 1] ELSE stat[v]]
      /\ truth' = [truth EXCEPT !.sectors = truth.sectors + 1]
      /\ UNCHANGED <<present, step, cur, members, out, due, disturbed, suspect>>
  BY DEF Write
<1>2. stat \in [Devices -> Amount] /\ truth \in Amount
  BY DEF Types
<1>3. ASSUME NEW a \in Amount
      PROVE  /\ [a EXCEPT !.sectors = a.sectors + 1] \in Amount
             /\ [a EXCEPT !.sectors = a.sectors + 1].sectors = a.sectors + 1
  BY DEF Amount
<1>4. stat' \in [Devices -> Amount] /\ truth' \in Amount /\ truth'.sectors = truth.sectors + 1
  BY <1>1, <1>2, <1>3
<1>5. Types'
  BY <1>1, <1>4 DEF Types, members
<1>6. Counted' = Counted /\ x \in Counted /\ x \in Devices
  BY <1>1 DEF Counted, Devices, Kinds, isWholeDisk
<1>7. /\ Sectors'[x] = Sectors[x] + 1
      /\ \A v \in Counted \ {x} : Sectors'[v] = Sectors[v]
  <2>1. ASSUME NEW v \in Counted PROVE v \in Devices /\ (v = <<d, k>> => v = x)
    BY DEF Counted, Devices, Kinds, isWholeDisk
  <2>2. stat'[x].sectors = stat[x].sectors + 1
    BY <1>1, <1>2, <1>3, <1>6
  <2>3. \A v \in Counted \ {x} : stat'[v] = stat[v]
    BY <1>1, <2>1
  <2> QED BY <1>6, <2>2, <2>3 DEF Sectors
<1>8. /\ Totals'.sectors = Totals.sectors + 1 /\ Totals.sectors \in Nat
  <2>1. /\ IsFiniteSet(Counted) /\ Totals.sectors = Sum(Sectors, Counted)
        /\ \A v \in Counted : Sectors[v] \in Nat
    BY CountedSum
  <2>2. (/\ IsFiniteSet(Counted) /\ Totals.sectors = Sum(Sectors, Counted)
         /\ \A v \in Counted : Sectors[v] \in Nat)'
    BY <1>5, CountedSum, PTL
  <2>3. Totals'.sectors = Sum(Sectors', Counted) /\ \A v \in Counted : Sectors'[v] \in Nat
    BY <1>6, <2>2
  <2>4. /\ Sum(Sectors, Counted) \in Nat /\ Sum(Sectors', Counted) \in Nat
        /\ Sum(Sectors', Counted) = Sum(Sectors, Counted) + Sectors'[x] - Sectors[x]
    <3> HIDE DEF x
    <3> QED BY <1>6, <1>7, <2>1, <2>3, SumUpdate
  <2>5. Sectors[x] \in Nat
    BY <1>6, <2>1
  <2> HIDE DEF x
  <2> QED BY <1>7, <2>1, <2>3, <2>4, <2>5
<1>9. Balance'
  <2>1. LastReading' = LastReading /\ LastReading \in Nat /\ truth.sectors \in Nat
    BY <1>1, <1>2 DEF LastReading, members, Types, Amount
  <2> QED BY <1>1, <1>4, <1>8, <2>1 DEF Balance, members
<1>10. Pending' /\ DeltaExact'
  BY <1>1 DEF Pending, DeltaExact, members
<1> QED BY <1>5, <1>9, <1>10

\* Time passes: sectors stay.
LEMMA TickStep == ASSUME IInv, NEW busy \in SUBSET Disks, Tick(busy) PROVE IInv'
<1> USE DEF IInv
<1>1. /\ stat' = [v \in Devices |-> IF v[1] \in busy
                                    THEN [stat[v] EXCEPT !.ticks = (stat[v].ticks + 1) % Wrap] ELSE stat[v]]
      /\ truth' = [truth EXCEPT !.ticks = truth.ticks + Cardinality(busy)]
      /\ UNCHANGED <<present, step, cur, members, out, due, disturbed, suspect>>
  BY DEF Tick
<1>2. stat \in [Devices -> Amount] /\ truth \in Amount
  BY DEF Types
<1>3. Cardinality(busy) \in Nat
  BY ProcAssumption, FS_Subset, FS_CardinalityType
<1>4. ASSUME NEW a \in Amount, NEW n \in Nat
      PROVE  [a EXCEPT !.ticks = n] \in Amount /\ [a EXCEPT !.ticks = n].sectors = a.sectors
  BY DEF Amount
<1>5. truth' \in Amount /\ truth'.sectors = truth.sectors
  <2>1. truth.ticks + Cardinality(busy) \in Nat
    BY <1>2, <1>3 DEF Amount
  <2> QED BY <1>1, <1>2, <1>4, <2>1
<1>6. ASSUME NEW v \in Devices PROVE stat'[v] \in Amount /\ stat'[v].sectors = stat[v].sectors
  <2>1. stat[v] \in Amount /\ (stat[v].ticks + 1) % Wrap \in Nat
    BY <1>2, ProcAssumption DEF Amount
  <2> QED BY <1>1, <1>4, <2>1
<1>7. Types'
  <2>1. stat' \in [Devices -> Amount]
    BY <1>1, <1>6
  <2> QED BY <1>1, <1>5, <2>1 DEF Types, members
<1>8. Totals'.sectors = Totals.sectors
  <2>1. Counted' = Counted
    BY <1>1 DEF Counted
  <2>2. Sectors' = Sectors
    BY <1>6, <2>1 DEF Sectors, Counted
  <2>3. Totals.sectors = Sum(Sectors, Counted)
    BY CountedSum
  <2>4. (Totals.sectors = Sum(Sectors, Counted))'
    BY <1>7, CountedSum, PTL
  <2> QED BY <2>1, <2>2, <2>3, <2>4
<1>9. Balance' /\ Pending' /\ DeltaExact'
  BY <1>1, <1>5, <1>8 DEF Balance, LastReading, Pending, DeltaExact, members
<1> QED BY <1>7, <1>9

\* A disk that comes or goes disturbs the window.
LEMMA HotplugStep == ASSUME IInv, NEW d \in Disks, Hotplug(d) PROVE IInv'
<1> USE DEF IInv
<1>1. /\ present' \in SUBSET Disks /\ disturbed' = TRUE
      /\ stat' = [v \in Devices |-> IF v[1] = d THEN Zero ELSE stat[v]]
      /\ UNCHANGED <<step, cur, members, out, truth, due, suspect>>
  BY DEF Hotplug, Types
<1>2. Zero \in Amount
  BY DEF Zero, Amount
<1>3. stat' \in [Devices -> Amount]
  BY <1>1, <1>2 DEF Types
<1>4. Types'
  BY <1>1, <1>3 DEF Types, members
<1>5. Balance' /\ Pending' /\ DeltaExact'
  BY <1>1 DEF Balance, Pending, DeltaExact, members
<1> QED BY <1>4, <1>5

\* The counters are read: what has been written since is now due.
LEMMA ReadStep == ASSUME IInv, ReadDiskstats PROVE IInv'
<1> USE DEF IInv
<1>1. /\ step = "idle" /\ step' = "read" /\ cur' = Totals
      /\ due' = (IF have_prev_ THEN truth ELSE Zero) /\ truth' = Zero
      /\ disturbed' = FALSE /\ (suspect' <=> disturbed) /\ suspect' \in BOOLEAN
      /\ UNCHANGED <<kernel, members, out>>
  BY DEF ReadDiskstats, Observed
<1>2. Zero \in Amount /\ Zero.sectors = 0 /\ Totals \in Amount /\ Totals.sectors \in Nat
  BY TotalsType DEF Zero, Amount
<1>3. Types'
  BY <1>1, <1>2 DEF Types, kernel, members
<1>4. Balance'
  <2>1. Totals' = Totals
    BY <1>1 DEF Totals, Counted, kernel
  <2> QED BY <1>1, <1>2, <2>1 DEF Balance, LastReading
<1>5. Pending'
  BY <1>1, <1>2 DEF Pending, Balance, LastReading, members
<1>6. DeltaExact'
  BY <1>1 DEF DeltaExact
<1> QED BY <1>3, <1>4, <1>5, <1>6

\* A reading that failed is marked.
LEMMA ReadFailsStep == ASSUME IInv, ReadFails PROVE IInv'
<1> USE DEF IInv
<1>1. /\ step = "idle" /\ step' = "read" /\ cur' = Zero
      /\ due' = (IF have_prev_ THEN truth ELSE Zero) /\ truth' = Zero
      /\ disturbed' = TRUE /\ suspect' = TRUE
      /\ UNCHANGED <<present, stat, members, out>>
  BY DEF ReadFails, Observed
<1>2. Zero \in Amount /\ Zero.sectors = 0
  BY DEF Zero, Amount
<1>3. Types'
  BY <1>1, <1>2 DEF Types, members
<1>4. Balance' /\ Pending' /\ DeltaExact'
  BY <1>1, <1>2 DEF Balance, Pending, DeltaExact, members
<1> QED BY <1>3, <1>4

\* The delta is what was due, and the reading becomes the baseline.
LEMMA FinishStep == ASSUME IInv, Finish PROVE IInv'
<1> USE DEF IInv
<1>1. /\ step = "read" /\ step' = "idle" /\ prev_' = cur /\ have_prev_' = TRUE
      /\ out' = (IF have_prev_
                 THEN [sectors |-> d_(cur.sectors, prev_.sectors),
                       ticks |-> d_(cur.ticks, prev_.ticks), elapsed |-> Elapsed]
                 ELSE [sectors |-> 0, ticks |-> 0, elapsed |-> 1])
      /\ UNCHANGED <<kernel, cur, history>>
  BY DEF Finish
<1>2. Types'
  BY <1>1 DEF Types, kernel, history
<1>3. Balance'
  <2>1. Totals' = Totals
    BY <1>1 DEF Totals, Counted, kernel
  <2> QED BY <1>1, <2>1 DEF Balance, LastReading, history
<1>4. Pending'
  BY <1>1 DEF Pending
<1>5. DeltaExact'
  <2>1. CASE have_prev_ /\ ~suspect
    <3>1. cur.sectors = prev_.sectors + due.sectors
      BY <1>1, <2>1 DEF Pending
    <3>2. cur.sectors \in Nat /\ prev_.sectors \in Nat /\ due.sectors \in Nat
      BY DEF Types, Amount
    <3>3. out'.sectors = d_(cur.sectors, prev_.sectors)
      BY <1>1, <2>1
    <3>4. out'.sectors = due.sectors
      BY <3>1, <3>2, <3>3 DEF d_
    <3> QED BY <1>1, <3>4 DEF DeltaExact, history
  <2>2. CASE ~have_prev_
    BY <1>1, <2>2 DEF DeltaExact, Pending, history
  <2>3. CASE suspect
    BY <1>1, <2>3 DEF DeltaExact, history
  <2> QED BY <2>1, <2>2, <2>3
<1> QED BY <1>2, <1>3, <1>4, <1>5

-----------------------------------------------------------------------------
\* Where no virtual device sits on a disk (Stacked is false), iowrite is what
\* was written between the two reads of /proc/diskstats, for any number of
\* disks, in every window no hotplug or failed open touches.
THEOREM DeltasAreExact == ASSUME ~Stacked PROVE Spec => []DeltaExact
<1>1. ASSUME IInv, [Next]_vars PROVE IInv'
  <2>1. CASE UNCHANGED vars
    BY <1>1, <2>1 DEF vars, kernel, members, history, IInv, Types, Balance, LastReading,
                      Totals, Counted, Pending, DeltaExact
  <2>2. CASE Next
    BY <1>1, <2>2, WriteStep, TickStep, HotplugStep, ReadStep, ReadFailsStep, FinishStep
    DEF Next
  <2> QED BY <1>1, <2>1, <2>2
<1>2. IInv => DeltaExact
  BY DEF IInv
<1> QED BY <1>1, <1>2, InitIInv, PTL DEF Spec
=============================================================================
