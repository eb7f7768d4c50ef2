------------------------ MODULE PerfCollectorProofs ------------------------
(***************************************************************************)
(* Proofs about PerfCollector for any number of features, CPUs, events and *)
(* hotplug operations.                                                     *)
(*                                                                         *)
(* Books relates the bookkeeping of sample() to the descriptors: outside a *)
(* group's turn its baseline is the sum of what the descriptors its last   *)
(* turn did not leave out have returned; inside it, what has been read so  *)
(* far and what the descriptors yet to be read returned last time add up   *)
(* to that sum. Fresh says which readings the sample in progress has       *)
(* already renewed.                                                        *)
(***************************************************************************)
EXTENDS PerfCollector, Sums

Table == [Features -> [Cpus -> Nat]]

Types ==
  /\ online \in SUBSET Cpus
  /\ happened \in Table /\ value \in Table /\ lastRead \in Table /\ due \in Table
  /\ attached \in [Features -> SUBSET Cpus] /\ fds \in [Features -> SUBSET Cpus]
  /\ ncpu_ \in Nat /\ built \in 0..NFeatures /\ at \in 0..NFeatures
  /\ missing_ \in SUBSET Features
  /\ prev \in [Features -> Nat] /\ reported \in [Features -> Nat]
  /\ todo \in SUBSET Cpus /\ total \in Nat /\ sampled \in BOOLEAN
  /\ out \in [Features -> Nat] /\ gain \in [Features -> Nat]
  /\ missed \in [Features -> SUBSET Cpus] /\ missedBefore \in [Features -> SUBSET Cpus]

\* A counter that has not been built has nothing, sample() needs them all,
\* and the constructor records exactly the counters without a descriptor.
Construction ==
  /\ \A f \in Features : f > built =>
       /\ fds[f] = {} /\ f \notin missing_
       /\ \A c \in Cpus : lastRead[f][c] = 0 /\ value[f][c] = happened[f][c]
  /\ at # 0 \/ sampled => built = NFeatures
  /\ \A f \in 1..built : f \in missing_ <=> fds[f] = {}

\* The kernel: counters only grow, and one that is attached misses nothing.
Counters ==
  \A f \in Features :
    /\ attached[f] \subseteq fds[f]
    /\ \A c \in Cpus : /\ lastRead[f][c] <= value[f][c]
                       /\ due[f][c] <= happened[f][c]
                       /\ c \in attached[f] => value[f][c] = happened[f][c]

\* Outside f's turn.
Settled(f) ==
  /\ prev[f] = Sum(lastRead[f], fds[f] \ missed[f])
  /\ missed[f] = {} /\ missedBefore[f] = {} => out[f] = gain[f]

\* Inside it.
Turn(f) ==
  /\ todo \subseteq fds[f] \ missed[f]
  /\ total + Sum(lastRead[f], todo) = Sum(lastRead[f], fds[f] \ missed[f])
  /\ total + Sum(lastRead[f], todo) <= Sum(lastRead[f], fds[f])
  /\ missedBefore[f] = {} => prev[f] + gain[f] = Sum(lastRead[f], fds[f])

Books ==
  /\ \A f \in Features : /\ missed[f] \subseteq fds[f]
                         /\ prev[f] <= reported[f]
                         /\ prev[f] <= Sum(lastRead[f], fds[f])
                         /\ fds[f] = {} => reported[f] = 0
                         /\ f # at => Settled(f)
  /\ at # 0 => Turn(at)

\* Everything due on CPU c is in the last reading of its descriptor.
Renewed(f, c) == due[f][c] <= lastRead[f][c]

Fresh ==
  sampled => \A f \in Features : \A c \in attached[f] \ missed[f] :
    at = 0 \/ f < at \/ (f = at /\ c \notin todo) => Renewed(f, c)

IInv == Types /\ Construction /\ Counters /\ Books /\ Fresh

-----------------------------------------------------------------------------
(* Sums over CPUs *)

\* Any set of CPUs is finite.
LEMMA CpusFinite == \A S \in SUBSET Cpus : IsFiniteSet(S)
<1>1. IsFiniteSet(Cpus)
  <2>1. 0 \in Int /\ NCpus - 1 \in Int
    BY PerfAssumption
  <2> QED BY <2>1, FS_Interval DEF Cpus
<1> QED BY <1>1, FS_Subset

\* What has been read from a group's descriptors adds up to a natural number.
LEMMA SumIsNat ==
  ASSUME NEW r \in [Cpus -> Nat], NEW S \in SUBSET Cpus
  PROVE  Sum(r, S) \in Nat
BY CpusFinite, SumSplits

-----------------------------------------------------------------------------
\* Before the constructor every count is zero and every set empty.
LEMMA InitIInv == Init => IInv
<1> SUFFICES ASSUME Init PROVE IInv
  OBVIOUS
<1> USE DEF Init, PerCpu, Each
<1>1. Types
  <2>1. [f \in Features |-> [c \in Cpus |-> 0]] \in Table
    BY DEF Table
  <2>2. NFeatures \in Nat /\ sampled \in BOOLEAN
    BY PerfAssumption
  <2> QED BY <2>1, <2>2 DEF Types
<1>2. Construction
  BY PerfAssumption DEF Construction, Features
<1>3. Counters
  BY DEF Counters
<1>4. Books
  <2>1. \A f \in Features : Sum(lastRead[f], {}) = 0 /\ fds[f] \ missed[f] = {}
    BY SumEmpty
  <2> QED BY <2>1 DEF Books, Settled
<1>5. Fresh
  BY DEF Fresh
<1> QED BY <1>1, <1>2, <1>3, <1>4, <1>5 DEF IInv

\* The events and the CPUs do not touch what sample() keeps.
LEMMA KernelStep ==
  ASSUME IInv, NEW c \in Cpus, Hotplug(c) \/ \E f \in Features : Event(f, c)
  PROVE  IInv'
<1> USE DEF IInv
<1>1. UNCHANGED <<members, at, todo, total, out, sampled, history>>
  BY DEF Hotplug, Event
<1>2. Books'
  BY <1>1 DEF Books, Settled, Turn, members, history, turns
<1>3. CASE Hotplug(c)
  <2>1. UNCHANGED <<happened, value>> /\ attached' = [f \in Features |-> attached[f] \ {c}]
    BY <1>3 DEF Hotplug
  <2>2. online' \in SUBSET Cpus
    BY <1>3 DEF Hotplug, Types
  <2>3. Types'
    BY <1>1, <2>1, <2>2 DEF Types, Table, members, history, turns
  <2>4. Construction'
    BY <1>1, <2>1 DEF Construction, members, history, turns
  <2>5. Counters'
    BY <1>1, <2>1 DEF Counters, Types, members, history, turns
  <2>6. Fresh'
    BY <1>1, <2>1 DEF Fresh, Renewed, Types, members, history, turns
  <2> QED BY <1>2, <2>3, <2>4, <2>5, <2>6
<1>4. ASSUME NEW f \in Features, Event(f, c) PROVE IInv'
  <2>1. /\ f <= built /\ UNCHANGED <<attached, online>>
        /\ happened' = [happened EXCEPT ![f] = [happened[f] EXCEPT ![c] = happened[f][c] + 1]]
        /\ value' = [value EXCEPT ![f] = [value[f] EXCEPT ![c] =
             IF c \in attached[f] THEN value[f][c] + 1 ELSE value[f][c]]]
    BY <1>4 DEF Event, Types, Table
  <2>2. happened \in Table /\ value \in Table /\ built \in Nat
    BY DEF Types
  <2>3. happened' \in Table /\ value' \in Table
    BY <2>1, <2>2 DEF Table
  <2>4. \A g \in Features, d \in Cpus :
          IF g = f /\ d = c
          THEN /\ happened'[g][d] = happened[g][d] + 1
               /\ value'[g][d] = IF c \in attached[f] THEN value[g][d] + 1 ELSE value[g][d]
          ELSE happened'[g][d] = happened[g][d] /\ value'[g][d] = value[g][d]
    BY <2>1, <2>2 DEF Table
  <2>5. Types'
    BY <1>1, <2>1, <2>3 DEF Types, members, history, turns
  <2>6. Construction'
    BY <1>1, <2>1, <2>2, <2>4 DEF Construction, members, history, turns, Features
  <2>7. Counters'
    <3>1. lastRead \in Table /\ due \in Table
      BY DEF Types
    <3>2. \A g \in Features, d \in Cpus :
            /\ lastRead[g][d] \in Nat /\ value[g][d] \in Nat
            /\ due[g][d] \in Nat /\ happened[g][d] \in Nat
      BY <2>2, <3>1 DEF Table
    <3>3. \A g \in Features, d \in Cpus :
            /\ lastRead[g][d] <= value'[g][d] /\ due[g][d] <= happened'[g][d]
            /\ d \in attached[g] => value'[g][d] = happened'[g][d]
      BY <2>4, <3>2 DEF Counters
    <3> QED BY <1>1, <2>1, <3>3 DEF Counters, members, history, turns
  <2>8. Fresh'
    BY <1>1, <2>1 DEF Fresh, Renewed, members, history, turns
  <2> QED BY <1>2, <2>5, <2>6, <2>7, <2>8
<1> QED BY <1>3, <1>4

\* The constructor, counter by counter.
LEMMA ConstructorStep ==
  ASSUME IInv, CountCpus \/ Unresolved \/ \E S \in SUBSET Cpus : OpenCounter(S)
  PROVE  IInv'
<1> USE DEF IInv
<1>1. CASE CountCpus
  <2>1. ncpu_' \in Nat
    BY <1>1, CpusFinite, FS_CardinalityType DEF CountCpus, Types
  <2>2. UNCHANGED <<kernel, built, fds, missing_, prev, at, todo, total, out, sampled, history>>
    BY <1>1 DEF CountCpus
  <2>3. Types' /\ Construction' /\ Counters'
    BY <2>1, <2>2 DEF Types, Construction, Counters, kernel, history, turns
  <2>4. Books' /\ Fresh'
    BY <2>2 DEF Books, Settled, Turn, Fresh, Renewed, kernel, history, turns
  <2> QED BY <2>3, <2>4
<1>2. CASE Unresolved
  <2>1. /\ built < NFeatures /\ built' = built + 1 /\ missing_' = missing_ \cup {built + 1}
        /\ UNCHANGED <<kernel, ncpu_, fds, prev, at, todo, total, out, sampled, history>>
    BY <1>2 DEF Unresolved
  <2>2. built \in 0..NFeatures /\ NFeatures \in Nat
    BY PerfAssumption DEF Types
  <2>3. Types'
    BY <2>1, <2>2 DEF Types, kernel, history, turns, Features
  <2>4. Construction'
    BY <2>1, <2>2 DEF Construction, kernel, history, turns, Features
  <2>5. Counters' /\ Books' /\ Fresh'
    BY <2>1 DEF Counters, Books, Settled, Turn, Fresh, Renewed, kernel, history, turns
  <2> QED BY <2>3, <2>4, <2>5
<1>3. ASSUME NEW S \in SUBSET Cpus, OpenCounter(S) PROVE IInv'
  <2>0. PICK f : f = built + 1
    OBVIOUS
  <2>1. /\ built < NFeatures /\ built' = f /\ f = built + 1
        /\ fds' = [fds EXCEPT ![f] = S] /\ attached' = [attached EXCEPT ![f] = S]
        /\ missing_' = missing_ \cup (IF S = {} THEN {f} ELSE {})
        /\ UNCHANGED <<online, happened, value, ncpu_, prev, at, todo, total, out, sampled, history>>
    BY <1>3, <2>0 DEF OpenCounter, Empty
  <2>2. built \in 0..NFeatures /\ NFeatures \in Nat /\ f \in Features
    BY <2>1, PerfAssumption DEF Types, Features
  <2>3. fds \in [Features -> SUBSET Cpus] /\ attached \in [Features -> SUBSET Cpus]
    BY DEF Types
  <2>4. at = 0 /\ ~sampled /\ f \notin missing_
        /\ \A c \in Cpus : lastRead[f][c] = 0 /\ value[f][c] = happened[f][c]
    BY <2>1, <2>2 DEF Construction, Types
  <2>5. Types'
    BY <2>1, <2>2, <2>3 DEF Types, history, turns
  <2>6. Construction'
    BY <2>1, <2>2, <2>3, <2>4 DEF Construction, history, Features
  <2>7. Counters'
    BY <2>1, <2>2, <2>3, <2>4 DEF Counters, history
  <2>8. Books'
    <3>1. fds[f] = {} /\ missed[f] = {} /\ Settled(f) /\ prev[f] <= reported[f] /\ reported[f] = 0
      BY <2>1, <2>2, <2>4 DEF Books, Construction, Features
    <3>2. Sum(lastRead[f], S) = 0 /\ Sum(lastRead[f], {}) = 0
      BY <2>4, CpusFinite, SumZero, SumEmpty
    <3>3. fds'[f] = S /\ S \ {} = S /\ {} \ {} = {} /\ {} \subseteq S
      BY <2>1, <2>2, <2>3
    <3>4. prev[f] = 0
      BY <3>1, <3>2, <3>3 DEF Settled
    <3>5. \A g \in Features : g # f => fds'[g] = fds[g]
      BY <2>1, <2>2, <2>3
    <3>6. Settled(f)'
      BY <2>1, <3>1, <3>2, <3>3, <3>4 DEF Settled, history, turns
    <3>7. \A g \in Features : g # f => Settled(g)'
      <4>1. \A g \in Features : Settled(g)
        <5>1. \A g \in Features : g # at
          BY <2>4, PerfAssumption DEF Features
        <5> QED BY <5>1 DEF Books
      <4> QED BY <2>1, <3>5, <4>1 DEF Settled, history, turns
    <3> QED BY <2>1, <2>4, <3>1, <3>2, <3>3, <3>4, <3>5, <3>6, <3>7 DEF Books, history, turns
  <2>9. Fresh'
    BY <2>1, <2>4 DEF Fresh
  <2> QED BY <2>5, <2>6, <2>7, <2>8, <2>9
<1> QED BY <1>1, <1>2, <1>3

-----------------------------------------------------------------------------
(* sample() *)

\* A group's turn begins with nothing read and nothing left out.
LEMMA BeginTurn ==
  ASSUME Types, NEW f \in Features, Settled(f), BeginGroup(f), prev'[f] = prev[f],
         UNCHANGED <<fds, lastRead>>
  PROVE  /\ todo' \in SUBSET Cpus /\ total' \in Nat /\ gain' \in [Features -> Nat]
         /\ missed' \in [Features -> SUBSET Cpus] /\ missedBefore' \in [Features -> SUBSET Cpus]
         /\ missed'[f] = {}
         /\ \A g \in Features : g # f => /\ missed'[g] = missed[g] /\ gain'[g] = gain[g]
                                         /\ missedBefore'[g] = missedBefore[g]
         /\ Turn(f)'
<1>1. /\ todo' = fds[f] /\ total' = 0
      /\ missedBefore' = [missedBefore EXCEPT ![f] = missed[f]]
      /\ missed' = [missed EXCEPT ![f] = {}] /\ gain' = [gain EXCEPT ![f] = 0]
  BY DEF BeginGroup
<1>2. /\ fds[f] \in SUBSET Cpus /\ lastRead[f] \in [Cpus -> Nat]
      /\ missed \in [Features -> SUBSET Cpus] /\ missedBefore \in [Features -> SUBSET Cpus]
      /\ gain \in [Features -> Nat] /\ prev[f] \in Nat
  BY DEF Types, Table
<1>3. /\ gain' \in [Features -> Nat] /\ missed' \in [Features -> SUBSET Cpus]
      /\ missedBefore' \in [Features -> SUBSET Cpus]
      /\ missed'[f] = {} /\ missedBefore'[f] = missed[f] /\ gain'[f] = 0
      /\ \A g \in Features : g # f => /\ missed'[g] = missed[g] /\ gain'[g] = gain[g]
                                      /\ missedBefore'[g] = missedBefore[g]
  BY <1>1, <1>2
<1>4. PICK n : n = Sum(lastRead[f], fds[f])
  OBVIOUS
<1>5. n \in Nat
  BY <1>2, <1>4, SumIsNat
<1>6. fds[f] \ {} = fds[f]
  OBVIOUS
<1>7. missed[f] = {} => prev[f] = n
  BY <1>4, <1>6 DEF Settled
<1>8. /\ Sum(lastRead'[f], todo') = n /\ Sum(lastRead'[f], fds'[f] \ missed'[f]) = n
      /\ Sum(lastRead'[f], fds'[f]) = n
  BY <1>1, <1>3, <1>4, <1>6
<1>9. /\ 0 + n = n /\ 0 + n <= n /\ (missed[f] = {} => prev[f] + 0 = n)
  BY <1>5, <1>7
<1>10. Turn(f)'
  BY <1>1, <1>3, <1>6, <1>8, <1>9 DEF Turn
<1> QED BY <1>1, <1>2, <1>3, <1>10

\* The first group begins; all that has happened is due.
LEMMA SampleStep == ASSUME IInv, Sample PROVE IInv'
<1> USE DEF IInv
<1>1. /\ built = NFeatures /\ at = 0 /\ at' = 1 /\ todo' = fds[1] /\ BeginGroup(1)
      /\ sampled' = TRUE /\ due' = happened
      /\ UNCHANGED <<kernel, members, out, reported, lastRead>>
  BY DEF Sample, BeginGroup
<1>2. 1 \in Features /\ 1 \in 0..NFeatures /\ \A f \in Features : f # 0 /\ ~(f < 1)
  BY PerfAssumption DEF Features
<1>3. Settled(1)
  BY <1>1, <1>2 DEF Books
<1>4. Types /\ UNCHANGED <<fds, lastRead>> /\ prev'[1] = prev[1]
  BY <1>1 DEF members
<1>5. /\ todo' \in SUBSET Cpus /\ total' \in Nat /\ gain' \in [Features -> Nat]
      /\ missed' \in [Features -> SUBSET Cpus] /\ missedBefore' \in [Features -> SUBSET Cpus]
      /\ missed'[1] = {}
      /\ \A g \in Features : g # 1 => /\ missed'[g] = missed[g] /\ gain'[g] = gain[g]
                                      /\ missedBefore'[g] = missedBefore[g]
      /\ Turn(1)'
  BY <1>1, <1>2, <1>3, <1>4, BeginTurn
<1>6. Types'
  BY <1>1, <1>2, <1>4, <1>5 DEF Types, kernel, members
<1>7. Construction'
  BY <1>1 DEF Construction, kernel, members
<1>8. Counters'
  <2>1. \A f \in Features, c \in Cpus : happened[f][c] <= happened[f][c]
    BY DEF Types, Table
  <2> QED BY <1>1, <2>1 DEF Counters, kernel, members
<1>9. Books'
  <2>1. \A f \in Features : /\ missed'[f] \subseteq fds[f] /\ prev[f] <= reported[f]
                            /\ prev[f] <= Sum(lastRead[f], fds[f])
                            /\ fds[f] = {} => reported[f] = 0
    BY <1>5 DEF Books
  <2>2. \A f \in Features : f # 1 => Settled(f)'
    <3>1. \A f \in Features : Settled(f)
      BY <1>1, <1>2 DEF Books
    <3> QED BY <1>1, <1>5, <3>1 DEF Settled, members
  <2> QED BY <1>1, <1>5, <2>1, <2>2 DEF Books, members
<1>10. Fresh'
  <2>1. \A f \in Features : attached[f] \subseteq fds[f]
    BY DEF Counters
  <2> QED BY <1>1, <1>2, <2>1 DEF Fresh, kernel, members
<1> QED BY <1>6, <1>7, <1>8, <1>9, <1>10

\* One descriptor is read: its old reading is replaced by a larger one.
LEMMA ReadStep == ASSUME IInv, NEW c \in Cpus, ReadFd(c) PROVE IInv'
<1> USE DEF IInv
<1> DEFINE v   == value[at][c]
           old == lastRead[at]
           new == [old EXCEPT ![c] = v]
           all == fds[at]
           ok  == fds[at] \ missed[at]
<1>1. /\ at # 0 /\ c \in todo /\ total' = total + v /\ todo' = todo \ {c}
      /\ lastRead' = [lastRead EXCEPT ![at][c] = v]
      /\ gain' = [gain EXCEPT ![at] = gain[at] + (v - old[c])]
      /\ UNCHANGED <<kernel, members, at, out, sampled, reported, due, missed, missedBefore>>
  BY DEF ReadFd, Reading, Counted, Rest, Types
<1>2. at \in Features /\ Turn(at) /\ todo \subseteq ok /\ total \in Nat
  BY <1>1, PerfAssumption DEF Types, Features, Books, Turn
<1>3. all \in SUBSET Cpus /\ ok \in SUBSET Cpus /\ old \in [Cpus -> Nat] /\ v \in Nat /\ old[c] <= v
  BY <1>2 DEF Types, Table, Counters
<1>4. /\ lastRead' = [lastRead EXCEPT ![at] = new] /\ new \in [Cpus -> Nat]
      /\ new[c] = v /\ \A d \in Cpus \ {c} : new[d] = old[d]
  BY <1>1, <1>2, <1>3
<1>5. /\ lastRead' \in Table /\ lastRead'[at] = new
      /\ \A f \in Features : f # at => lastRead'[f] = lastRead[f]
  BY <1>2, <1>4 DEF Types, Table
<1>6. gain' \in [Features -> Nat] /\ gain'[at] = gain[at] + (v - old[c]) /\ gain[at] \in Nat
      /\ \A f \in Features : f # at => gain'[f] = gain[f]
  <2>1. old[c] \in Nat /\ v - old[c] \in Nat
    BY <1>3
  <2>2. gain \in [Features -> Nat] /\ gain[at] \in Nat
    BY <1>2 DEF Types
  <2>3. gain[at] + (v - old[c]) \in Nat
    BY <2>1, <2>2
  <2> HIDE DEF v, old
  <2> QED BY <1>1, <1>2, <2>2, <2>3
<1>7. c \in ok /\ c \in all /\ all = fds[at] /\ ok = fds[at] \ missed[at] /\ ok \subseteq all
  BY <1>1, <1>2
<1> HIDE DEF v, old, new, all, ok
<1>8. Types'
  BY <1>1, <1>2, <1>3, <1>5, <1>6 DEF Types, kernel, members
<1>9. Construction'
  <2>1. built = NFeatures
    BY <1>1 DEF Construction
  <2>2. \A f \in Features : ~(f > built)
    BY <2>1, PerfAssumption DEF Features
  <2> QED BY <1>1, <2>1, <2>2 DEF Construction, kernel, members
<1>10. Counters'
  <2>1. \A f \in Features, d \in Cpus : lastRead'[f][d] <= value[f][d]
    <3>1. \A d \in Cpus : new[d] <= value[at][d]
      BY <1>2, <1>3, <1>4 DEF Counters, v, old
    <3> QED BY <1>5, <3>1 DEF Counters
  <2> QED BY <1>1, <2>1 DEF Counters, kernel, members
<1>11. Books'
  <2>1. ASSUME NEW S \in SUBSET Cpus, c \in S
        PROVE  /\ Sum(old, S) \in Nat /\ Sum(new, S) \in Nat
               /\ Sum(new, S) = Sum(old, S) + v - old[c]
    <3>1. IsFiniteSet(S)
      BY CpusFinite
    <3>2. /\ \A d \in S : old[d] \in Nat /\ new[d] \in Nat
          /\ \A d \in S \ {c} : new[d] = old[d]
      BY <1>3, <1>4
    <3>3. /\ Sum(old, S) \in Nat /\ Sum(new, S) \in Nat
          /\ Sum(new, S) = Sum(old, S) + new[c] - old[c]
      BY <2>1, <3>1, <3>2, SumUpdate
    <3> QED BY <1>4, <3>3
  <2>2. /\ Sum(old, todo) = old[c] + Sum(new, todo \ {c})
        /\ Sum(old, todo) \in Nat /\ Sum(new, todo \ {c}) \in Nat
    <3>1. IsFiniteSet(todo) /\ IsFiniteSet(todo \ {c}) /\ todo \in SUBSET Cpus
      BY <1>2, <1>3, CpusFinite
    <3>2. Sum(old, todo) \in Nat /\ Sum(old, todo) = old[c] + Sum(old, todo \ {c})
      BY <1>1, <1>3, <3>1, SumSplits
    <3>3. Sum(old, todo \ {c}) \in Nat
      BY <1>3, <3>1, SumIsNat
    <3>4. Sum(old, todo \ {c}) = Sum(new, todo \ {c})
      BY <1>3, <1>4, <3>1, SumSame
    <3> QED BY <3>2, <3>3, <3>4
  <2>3. /\ prev[at] <= Sum(old, all)
        /\ total + Sum(old, todo) = Sum(old, ok) /\ total + Sum(old, todo) <= Sum(old, all)
        /\ missedBefore[at] = {} => prev[at] + gain[at] = Sum(old, all)
    BY <1>2, <1>7 DEF Books, Turn, old
  <2>4. prev[at] \in Nat /\ old[c] \in Nat
    BY <1>2, <1>3 DEF Types
  <2>5. /\ Sum(old, all) \in Nat /\ Sum(new, all) \in Nat
        /\ Sum(new, all) = Sum(old, all) + v - old[c]
    BY <1>3, <1>7, <2>1
  <2>6. /\ Sum(old, ok) \in Nat /\ Sum(new, ok) \in Nat
        /\ Sum(new, ok) = Sum(old, ok) + v - old[c]
    BY <1>3, <1>7, <2>1
  <2>7. prev[at] <= Sum(new, all)
    BY <1>3, <2>3, <2>4, <2>5
  <2>8. total + v + Sum(new, todo \ {c}) = Sum(new, ok)
    BY <1>2, <1>3, <2>2, <2>3, <2>4, <2>6
  <2>9. total + v + Sum(new, todo \ {c}) <= Sum(new, all)
    BY <1>2, <1>3, <2>2, <2>3, <2>4, <2>5
  <2>10. missedBefore[at] = {} => prev[at] + gain'[at] = Sum(new, all)
    BY <1>3, <1>6, <2>3, <2>4, <2>5
  <2>11. todo \ {c} \subseteq ok
    BY <1>2
  <2>12. Turn(at)'
    BY <1>1, <1>5, <1>7, <2>8, <2>9, <2>10, <2>11 DEF Turn, members
  <2>13. \A f \in Features : f # at => Settled(f)'
    <3>1. \A f \in Features : f # at => Settled(f)
      BY DEF Books
    <3> QED BY <1>1, <1>5, <1>6, <3>1 DEF Settled, members
  <2>14. \A f \in Features : prev[f] <= Sum(lastRead'[f], fds[f])
    BY <1>5, <1>7, <2>7 DEF Books
  <2> QED BY <1>1, <2>12, <2>13, <2>14 DEF Books, members
<1>12. Fresh'
  <2>1. ASSUME sampled, NEW f \in Features, NEW d \in attached[f] \ missed[f],
               f < at \/ (f = at /\ d \notin todo \ {c})
        PROVE  due[f][d] <= lastRead'[f][d]
    <3>1. d \in Cpus /\ value[f][d] = happened[f][d] /\ due[f][d] <= happened[f][d]
      BY DEF Types, Counters
    <3>2. CASE f = at /\ d = c
      BY <1>4, <1>5, <3>1, <3>2 DEF v
    <3>3. CASE f = at /\ d # c
      BY <1>4, <1>5, <2>1, <3>1, <3>3 DEF Fresh, Renewed, old
    <3>4. CASE f # at
      BY <1>5, <2>1, <3>4 DEF Fresh, Renewed
    <3> QED BY <3>2, <3>3, <3>4
  <2> QED BY <1>1, <2>1 DEF Fresh, Renewed, kernel, members
<1> QED BY <1>8, <1>9, <1>10, <1>11, <1>12

\* A read fails: the descriptor leaves the group's turn.
LEMMA ReadFailsStep == ASSUME IInv, NEW c \in Cpus, ReadFails(c) PROVE IInv'
<1> USE DEF IInv
<1> DEFINE r  == lastRead[at]
           ok == fds[at] \ missed[at]
<1>1. /\ at # 0 /\ c \in todo /\ todo' = todo \ {c}
      /\ missed' = [missed EXCEPT ![at] = missed[at] \cup {c}]
      /\ UNCHANGED <<online, plugs, happened, value, attached, members, at, total, out,
                     sampled, reported, lastRead, due, missedBefore, gain>>
  BY DEF ReadFails, Reading, Rest, Types
<1>2. at \in Features /\ Turn(at) /\ todo \subseteq ok /\ total \in Nat /\ missed[at] \subseteq fds[at]
  BY <1>1, PerfAssumption DEF Types, Features, Books, Turn
<1>3. /\ missed' \in [Features -> SUBSET Cpus] /\ missed'[at] = missed[at] \cup {c}
      /\ \A f \in Features : f # at => missed'[f] = missed[f]
  BY <1>1, <1>2 DEF Types
<1>4. r \in [Cpus -> Nat] /\ ok \in SUBSET Cpus /\ c \in ok /\ fds[at] \ missed'[at] = ok \ {c}
      /\ todo \in SUBSET Cpus
  BY <1>1, <1>2, <1>3 DEF Types, Table
<1> HIDE DEF r, ok
<1>5. Types'
  BY <1>1, <1>3, <1>4 DEF Types, members
<1>6. Construction' /\ Counters'
  BY <1>1 DEF Construction, Counters, members
<1>7. Books'
  <2>1. /\ Sum(r, ok) \in Nat /\ Sum(r, ok) = r[c] + Sum(r, ok \ {c}) /\ Sum(r, ok \ {c}) \in Nat
    <3>1. IsFiniteSet(ok) /\ \A d \in ok : r[d] \in Nat
      BY <1>4, CpusFinite
    <3>2. Sum(r, ok) \in Nat /\ Sum(r, ok) = r[c] + Sum(r, ok \ {c})
      BY <1>4, <3>1, SumSplits
    <3>3. ok \ {c} \in SUBSET Cpus
      BY <1>4
    <3> QED BY <1>4, <3>2, <3>3, SumIsNat
  <2>2. /\ Sum(r, todo) \in Nat /\ Sum(r, todo) = r[c] + Sum(r, todo \ {c})
        /\ Sum(r, todo \ {c}) \in Nat
    <3>1. IsFiniteSet(todo) /\ \A d \in todo : r[d] \in Nat
      BY <1>4, CpusFinite
    <3>2. Sum(r, todo) \in Nat /\ Sum(r, todo) = r[c] + Sum(r, todo \ {c})
      BY <1>1, <3>1, SumSplits
    <3>3. todo \ {c} \in SUBSET Cpus
      BY <1>4
    <3> QED BY <1>4, <3>2, <3>3, SumIsNat
  <2>3. /\ total + Sum(r, todo) = Sum(r, ok) /\ total + Sum(r, todo) <= Sum(r, fds[at])
        /\ missedBefore[at] = {} => prev[at] + gain[at] = Sum(r, fds[at])
    BY <1>2 DEF Turn, r, ok
  <2>4. r[c] \in Nat /\ Sum(r, fds[at]) \in Nat
    <3>1. fds[at] \in SUBSET Cpus
      BY <1>2 DEF Types
    <3> QED BY <1>4, <3>1, SumIsNat DEF ok
  <2>5. total + Sum(r, todo \ {c}) = Sum(r, ok \ {c})
    BY <1>2, <2>1, <2>2, <2>3, <2>4
  <2>6. total + Sum(r, todo \ {c}) <= Sum(r, fds[at])
    BY <1>2, <2>2, <2>3, <2>4
  <2>7. Turn(at)'
    BY <1>1, <1>2, <1>4, <2>3, <2>5, <2>6 DEF Turn, members, r
  <2>8. \A f \in Features : f # at => Settled(f)'
    <3>1. \A f \in Features : f # at => Settled(f)
      BY DEF Books
    <3> QED BY <1>1, <1>3, <3>1 DEF Settled, members
  <2>9. \A f \in Features : missed'[f] \subseteq fds[f]
    BY <1>2, <1>3, <1>4 DEF Books, ok
  <2> QED BY <1>1, <2>7, <2>8, <2>9 DEF Books, members
<1>8. Fresh'
  BY <1>1, <1>2, <1>3 DEF Fresh, Renewed, members
<1> QED BY <1>5, <1>6, <1>7, <1>8

\* A group has been read: its delta is what its descriptors gained, if none
\* was left out in this turn or the one before.
LEMMA EmitStep == ASSUME IInv, Emit PROVE IInv'
<1> USE DEF IInv
<1> PICK n : n = IF at < NFeatures THEN at + 1 ELSE 0
  OBVIOUS
<1>1. /\ at # 0 /\ todo = {} /\ at' = n
      /\ n # 0 => BeginGroup(n)
      /\ n = 0 => UNCHANGED <<todo, total, turns>>
      /\ out' = [out EXCEPT ![at] = Delta(at)]
      /\ prev' = [prev EXCEPT ![at] = total]
      /\ reported' = [reported EXCEPT ![at] = reported[at] + Delta(at)]
      /\ UNCHANGED <<kernel, ncpu_, built, fds, missing_, sampled, lastRead, due>>
  <2>1. at \in 0..NFeatures /\ NFeatures \in Nat /\ at # 0
    BY PerfAssumption DEF Types, Emit
  <2>2. /\ at # 0 /\ todo = {}
        /\ out' = [out EXCEPT ![at] = Delta(at)]
        /\ prev' = [prev EXCEPT ![at] = total]
        /\ reported' = [reported EXCEPT ![at] = reported[at] + Delta(at)]
        /\ IF at < NFeatures THEN BeginGroup(at + 1) ELSE at' = 0 /\ UNCHANGED <<todo, total, turns>>
        /\ UNCHANGED <<kernel, ncpu_, built, fds, missing_, sampled, lastRead, due>>
    BY DEF Emit, Baseline, Types
  <2>3. CASE at < NFeatures
    <3>1. n = at + 1 /\ n # 0 /\ BeginGroup(n) /\ at' = n
      BY <2>1, <2>2, <2>3 DEF BeginGroup
    <3> QED BY <2>2, <3>1
  <2>4. CASE ~(at < NFeatures)
    BY <2>2, <2>4
  <2> QED BY <2>3, <2>4
<1>2. /\ at \in Features /\ at \in Nat /\ n \in 0..NFeatures /\ n # at
      /\ n # 0 => n \in Features
      /\ \A f \in Features : (n = 0 \/ f < n) => f < at \/ f = at
      /\ 0 \notin Features
  BY <1>1, PerfAssumption DEF Types, Features
<1>3. Types /\ lastRead[at] \in [Cpus -> Nat] /\ fds[at] \in SUBSET Cpus /\ Turn(at)
  BY <1>1, <1>2 DEF Types, Table, Books
<1>4. PICK a : a = at
  OBVIOUS
<1>5. /\ total \in Nat /\ prev[a] \in Nat /\ reported[a] \in Nat /\ prev[a] <= reported[a]
      /\ Sum(lastRead[a], fds[a]) \in Nat
  BY <1>2, <1>3, <1>4, SumIsNat DEF Types, Books
<1>6. /\ total = Sum(lastRead[a], fds[a] \ missed[a])
      /\ total <= Sum(lastRead[a], fds[a])
      /\ missedBefore[a] = {} => prev[a] + gain[a] = Sum(lastRead[a], fds[a])
      /\ Sum(lastRead[a], fds[a]) = 0 => total = 0
  <2>1. Sum(lastRead[a], todo) = 0
    BY <1>1, SumEmpty
  <2>2. total + 0 = Sum(lastRead[a], fds[a] \ missed[a]) /\ total + 0 <= Sum(lastRead[a], fds[a])
    BY <1>3, <1>4, <2>1 DEF Turn
  <2>3. total = Sum(lastRead[a], fds[a] \ missed[a]) /\ total <= Sum(lastRead[a], fds[a])
    BY <1>5, <2>2
  <2> QED BY <1>3, <1>4, <1>5, <2>3 DEF Turn
<1>7. PICK d : d = Delta(a)
  OBVIOUS
<1>8. d \in Nat /\ d = IF total >= prev[a] THEN total - prev[a] ELSE total
  <2>1. d = IF total >= prev[a] THEN total - prev[a] ELSE total
    BY <1>7 DEF Delta
  <2> QED BY <1>5, <2>1
<1>9. /\ out' \in [Features -> Nat] /\ prev' \in [Features -> Nat] /\ reported' \in [Features -> Nat]
      /\ out'[a] = d /\ prev'[a] = total /\ reported'[a] = reported[a] + d
      /\ \A f \in Features : f # a => /\ prev'[f] = prev[f] /\ reported'[f] = reported[f]
                                      /\ out'[f] = out[f]
  <2>1. out \in [Features -> Nat] /\ prev \in [Features -> Nat] /\ reported \in [Features -> Nat]
    BY DEF Types
  <2>2. reported[a] + d \in Nat
    BY <1>5, <1>8
  <2> QED BY <1>1, <1>2, <1>4, <1>5, <1>7, <1>8, <2>1, <2>2
<1>10. prev'[a] <= reported'[a] /\ (fds[a] = {} => reported'[a] = 0)
  <2>1. total <= reported[a] + d
    BY <1>5, <1>8
  <2>2. ASSUME fds[a] = {} PROVE reported[a] + d = 0
    <3>1. Sum(lastRead[a], fds[a]) = 0
      BY <2>2, SumEmpty
    <3>2. total = 0 /\ reported[a] = 0
      BY <1>2, <1>4, <1>6, <2>2, <3>1 DEF Books
    <3>3. prev[a] = 0
      BY <1>5, <3>2
    <3> QED BY <1>8, <3>2, <3>3
  <2> QED BY <1>9, <2>1, <2>2
<1>11. missed[a] = {} /\ missedBefore[a] = {} => d = gain[a]
  <2> SUFFICES ASSUME missed[a] = {}, missedBefore[a] = {} PROVE d = gain[a]
    OBVIOUS
  <2>1. fds[a] \ missed[a] = fds[a]
    OBVIOUS
  <2>2. total = prev[a] + gain[a] /\ gain[a] \in Nat
    BY <1>2, <1>4, <1>6, <2>1 DEF Types
  <2> QED BY <1>5, <1>8, <2>2
<1>12. /\ todo' \in SUBSET Cpus /\ total' \in Nat /\ gain' \in [Features -> Nat]
       /\ missed' \in [Features -> SUBSET Cpus] /\ missedBefore' \in [Features -> SUBSET Cpus]
       /\ \A g \in Features : g # n => /\ missed'[g] = missed[g] /\ gain'[g] = gain[g]
                                       /\ missedBefore'[g] = missedBefore[g]
       /\ n # 0 => missed'[n] = {} /\ Turn(n)'
  <2>1. CASE n = 0
    BY <1>1, <2>1 DEF Types, turns
  <2>2. CASE n # 0
    <3>1. /\ n \in Features /\ BeginGroup(n) /\ prev'[n] = prev[n] /\ UNCHANGED <<fds, lastRead>>
          /\ Settled(n)
      BY <1>1, <1>2, <1>4, <1>9, <2>2 DEF Books
    <3>2. /\ todo' \in SUBSET Cpus /\ total' \in Nat /\ gain' \in [Features -> Nat]
          /\ missed' \in [Features -> SUBSET Cpus] /\ missedBefore' \in [Features -> SUBSET Cpus]
          /\ missed'[n] = {}
          /\ \A g \in Features : g # n => /\ missed'[g] = missed[g] /\ gain'[g] = gain[g]
                                          /\ missedBefore'[g] = missedBefore[g]
          /\ Turn(n)'
      BY <1>3, <3>1, BeginTurn
    <3> QED BY <3>2
  <2> QED BY <2>1, <2>2
<1>13. Types'
  BY <1>1, <1>2, <1>9, <1>12 DEF Types, kernel
<1>14. Construction' /\ Counters'
  BY <1>1 DEF Construction, Counters, kernel
<1>15. Books'
  <2>1. \A f \in Features : missed'[f] \subseteq fds[f]
    <3>1. \A f \in Features : missed[f] \subseteq fds[f]
      BY DEF Books
    <3> QED BY <1>2, <1>12, <3>1
  <2>2. \A f \in Features : prev'[f] <= reported'[f] /\ (fds[f] = {} => reported'[f] = 0)
    BY <1>9, <1>10 DEF Books
  <2>3. \A f \in Features : prev'[f] <= Sum(lastRead[f], fds[f])
    BY <1>6, <1>9 DEF Books
  <2>4. a # n => Settled(a)'
    BY <1>1, <1>2, <1>4, <1>6, <1>9, <1>11, <1>12 DEF Settled
  <2>5. ASSUME NEW f \in Features, f # n, f # a PROVE Settled(f)'
    <3>1. Settled(f)
      BY <1>4, <2>5 DEF Books
    <3> QED BY <1>1, <1>9, <1>12, <2>5, <3>1 DEF Settled
  <2> QED BY <1>1, <1>12, <2>1, <2>2, <2>3, <2>4, <2>5 DEF Books
<1>16. Fresh'
  <2>1. ASSUME sampled, NEW f \in Features, NEW c \in attached[f] \ missed'[f],
               n = 0 \/ f < n \/ (f = n /\ c \notin todo')
        PROVE  Renewed(f, c)
    <3>1. attached[f] \subseteq fds[f]
      BY DEF Counters
    <3>2. f = n /\ n # 0 => todo' = fds[n]
      BY <1>1 DEF BeginGroup
    <3>3. f \in Nat /\ n \in Nat /\ f # 0
      BY <1>2, PerfAssumption DEF Features
    <3>4. f # n /\ (n = 0 \/ f < n)
      BY <2>1, <3>1, <3>2, <3>3
    <3>5. (f < at \/ f = at) /\ c \in attached[f] \ missed[f]
      BY <1>2, <1>12, <2>1, <3>4
    <3> QED BY <1>1, <2>1, <3>5 DEF Fresh
  <2> QED BY <1>1, <2>1 DEF Fresh, Renewed, kernel
<1> QED BY <1>13, <1>14, <1>15, <1>16

-----------------------------------------------------------------------------
\* IInv holds in every state of every behaviour.
LEMMA Invariance == Spec => []IInv
<1>1. ASSUME IInv, [Next]_vars PROVE IInv'
  <2>1. CASE UNCHANGED vars
    <3>1. UNCHANGED <<kernel, members, at, todo, total, out, sampled, history>>
      BY <2>1 DEF vars
    <3>2. (Types /\ Construction /\ Counters)'
      BY <1>1, <3>1 DEF kernel, members, history, turns, IInv, Types, Construction, Counters
    <3>3. Books'
      BY <1>1, <3>1 DEF kernel, members, history, turns, IInv, Books, Settled, Turn
    <3>4. Fresh'
      BY <1>1, <3>1 DEF kernel, members, history, turns, IInv, Fresh, Renewed
    <3> QED BY <3>2, <3>3, <3>4 DEF IInv
  <2>2. CASE Next
    BY <1>1, <2>2, KernelStep, ConstructorStep, SampleStep, ReadStep, ReadFailsStep, EmitStep DEF Next
  <2> QED BY <1>1, <2>1, <2>2
<1> QED BY <1>1, InitIInv, PTL DEF Spec

\* What sample() reports is what the group's descriptors gained since the
\* window before, wherever neither window left a descriptor out: no event is
\* reported twice, none that was read is lost, and what a failed read
\* disturbed is over one window later.
THEOREM NothingTwice == Spec => []ReportedOnce
<1>1. ASSUME IInv PROVE ReportedOnce
  <2>1. \A f \in Features : f # 0
    BY PerfAssumption DEF Features
  <2> QED BY <1>1, <2>1 DEF IInv, Books, Settled, ReportedOnce
<1> QED BY <1>1, Invariance, PTL

\* The total of a group whose descriptors have all been read is not below the
\* baseline, whatever the turn before left out: the wrap fallback is taken
\* only where a read has failed.
THEOREM NoFallback == Spec => []TotalsNeverFall
<1>1. ASSUME IInv PROVE TotalsNeverFall
  <2> USE <1>1 DEF IInv
  <2> SUFFICES ASSUME at # 0, todo = {}, missed[at] = {} PROVE total >= prev[at]
    BY DEF TotalsNeverFall
  <2>1. at \in Features /\ fds[at] \ missed[at] = fds[at]
    BY PerfAssumption DEF Types, Features
  <2>2. total + 0 = Sum(lastRead[at], fds[at]) /\ prev[at] <= Sum(lastRead[at], fds[at])
    BY <2>1, SumEmpty DEF Books, Turn
  <2>3. total \in Nat /\ prev[at] \in Nat
    BY <2>1 DEF Types
  <2> QED BY <2>2, <2>3
<1> QED BY <1>1, Invariance, PTL

\* --check's list is exactly the features without a descriptor, and these
\* read 0 for ever.
THEOREM MissingExact == Spec => []MissingIsReported
<1>1. ASSUME IInv PROVE MissingIsReported
  <2>1. \A f \in 1..built : f \in Features
    BY <1>1, PerfAssumption DEF IInv, Types, Features
  <2> QED BY <1>1, <2>1 DEF IInv, Books, Construction, MissingIsReported
<1> QED BY <1>1, Invariance, PTL

\* A feature whose descriptors cover every CPU has, after a sample() that
\* read them all, reported everything that had happened when that sample()
\* began.
THEOREM SystemWide == Spec => []NothingMissed
<1>1. ASSUME IInv PROVE NothingMissed
  <2> USE <1>1 DEF IInv
  <2> SUFFICES ASSUME at = 0, sampled, NEW f \in Features, attached[f] = Cpus, missed[f] = {}
               PROVE  reported[f] >= SumFunction(due[f])
    BY DEF NothingMissed
  <2>1. due[f] \in [Cpus -> Nat] /\ lastRead[f] \in [Cpus -> Nat]
    BY DEF Types, Table
  <2>2. SumFunction(due[f]) = Sum(due[f], Cpus)
    BY <2>1 DEF SumFunction, Sum
  <2>3. fds[f] \ missed[f] = Cpus /\ attached[f] \ missed[f] = Cpus /\ f # at
    <3>1. Cpus \subseteq fds[f] /\ fds[f] \in SUBSET Cpus
      BY DEF Counters, Types
    <3>2. f # at
      BY PerfAssumption DEF Features
    <3> QED BY <3>1, <3>2
  <2>4. prev[f] = Sum(lastRead[f], Cpus) /\ prev[f] <= reported[f]
    BY <2>3 DEF Books, Settled
  <2>5. \A c \in Cpus : due[f][c] <= lastRead[f][c]
    BY <2>3 DEF Fresh, Renewed
  <2>6. Sum(due[f], Cpus) <= Sum(lastRead[f], Cpus)
    BY <2>1, <2>5, CpusFinite, SumMonotone
  <2>7. /\ Sum(due[f], Cpus) \in Nat /\ Sum(lastRead[f], Cpus) \in Nat
        /\ prev[f] \in Nat /\ reported[f] \in Nat
    BY <2>1, SumIsNat DEF Types
  <2> QED BY <2>2, <2>4, <2>6, <2>7
<1> QED BY <1>1, Invariance, PTL
=============================================================================
