---------------------------- MODULE ProcCollector ----------------------------
(***************************************************************************)
(* class ProcCollector (src/proc_collector.cpp): I/O features as deltas of *)
(* the sums over the block devices of /proc/diskstats.                     *)
(*                                                                         *)
(* External: the kernel's block devices. A disk has a partition and, where *)
(* Stacked says so, a virtual device (dm, loop) on top; I/O through either *)
(* is also I/O of the disk. writes_merged and ms_writing are summed and    *)
(* differenced exactly as sectors_written and io_ticks and are left out;   *)
(* iowrite, write_kbs and util are kept as the sectors, the ticks and the  *)
(* elapsed time they are computed from. Time and ticks are milliseconds;   *)
(* the kernel prints ticks modulo Wrap (2^32).                             *)
(***************************************************************************)
EXTENDS Integers, FiniteSets, Functions

CONSTANTS
  Disks,        \* whole disks
  Stacked,      \* is there a virtual device on every disk?
  Wrap,         \* io_ticks are printed modulo this
  MaxWrites,    \* bound: sectors written
  MaxTime,      \* bound: milliseconds
  MaxFaults     \* bound: disks removed or attached, failed opens

ASSUME ProcAssumption ==
  /\ Disks # {} /\ IsFiniteSet(Disks) /\ Stacked \in BOOLEAN
  /\ Wrap \in Nat \ {0}
  /\ MaxWrites \in Nat /\ MaxTime \in Nat /\ MaxFaults \in Nat

Kinds   == {"disk", "part"} \cup (IF Stacked THEN {"virtual"} ELSE {})
Devices == Disks \X Kinds

VARIABLES
  present,      \* disks attached
  stat,         \* the lines of /proc/diskstats
  now,          \* steady clock
  writes,       \* sectors written so far, all disks
  faults,       \* hotplug operations and failed opens so far
  step,         \* "idle", or "read": readDiskstats has returned
  cur,          \* sample()'s cur
  prev_, have_prev_, prev_time_,
  out,          \* the values sample() emitted
  truth,        \* history: what happened since the last readDiskstats
  due,          \* history: what the current or last sample() should report
  disturbed,    \* history: a fault since, or in, the last readDiskstats
  suspect       \* history: the current or last sample() covers a fault

kernel  == <<present, stat, now, writes, faults>>
members == <<prev_, have_prev_, prev_time_>>
history == <<truth, due, disturbed, suspect>>
vars    == <<kernel, step, cur, members, out, history>>

Zero == [sectors |-> 0, ticks |-> 0]

Init ==
  /\ present = Disks /\ now = 0 /\ writes = 0 /\ faults = 0
  /\ stat = [v \in Devices |-> Zero]
  /\ step = "idle" /\ cur = Zero
  /\ prev_ = Zero /\ have_prev_ = FALSE /\ prev_time_ = 0
  /\ out = [sectors |-> 0, ticks |-> 0, elapsed |-> 1]
  /\ truth = Zero /\ due = Zero /\ disturbed = FALSE /\ suspect = FALSE

-----------------------------------------------------------------------------
(* The kernel (external) *)

\* One sector is written to disk d through its device of kind k.
Write(d, k) ==
  /\ d \in present /\ writes < MaxWrites
  /\ writes' = writes + 1
  /\ stat' = [v \in Devices |->
       IF v \in {<<d, k>>, <<d, "disk">>}
       THEN [stat[v] EXCEPT !.sectors = @ + 1] ELSE stat[v]]
  /\ truth' = [truth EXCEPT !.sectors = @ + 1]
  /\ UNCHANGED <<present, now, faults, step, cur, members, out, due,
                 disturbed, suspect>>

\* A millisecond in which exactly the disks in busy have I/O in flight.
Tick(busy) ==
  /\ busy \subseteq present /\ now < MaxTime
  /\ now' = now + 1
  /\ stat' = [v \in Devices |->
       IF v[1] \in busy THEN [stat[v] EXCEPT !.ticks = (@ + 1) % Wrap] ELSE stat[v]]
  /\ truth' = [truth EXCEPT !.ticks = @ + Cardinality(busy)]
  /\ UNCHANGED <<present, writes, faults, step, cur, members, out, due,
                 disturbed, suspect>>

\* A disk is removed, or attached with its counters at zero.
Hotplug(d) ==
  /\ faults < MaxFaults
  /\ faults' = faults + 1
  /\ \/ d \in present /\ present' = present \ {d}
     \/ d \notin present /\ present' = present \cup {d}
  /\ stat' = [v \in Devices |-> IF v[1] = d THEN Zero ELSE stat[v]]
  /\ disturbed' = TRUE
  /\ UNCHANGED <<now, writes, step, cur, members, out, truth, due, suspect>>

-----------------------------------------------------------------------------
(* readDiskstats() and sample() *)

\* Mutant of isWholeDisk: no filter.
isAnyDevice(v) == TRUE

\* stat("/sys/block/<dev>"): partitions have no directory of their own there,
\* virtual devices do.
isWholeDisk(v) == v[2] # "part"

Counted == {v \in Devices : v[1] \in present /\ isWholeDisk(v)}

Totals ==
  [sectors |-> SumFunctionOnSet([v \in Counted |-> stat[v].sectors], Counted),
   ticks   |-> SumFunctionOnSet([v \in Counted |-> stat[v].ticks], Counted)]

\* The history a call of readDiskstats leaves behind.
Observed(ok) ==
  /\ due' = IF have_prev_ THEN truth ELSE Zero
  /\ truth' = Zero
  /\ disturbed' = ~ok
  /\ suspect' = (disturbed \/ ~ok)

ReadDiskstats ==
  /\ step = "idle"
  /\ step' = "read"
  /\ cur' = Totals
  /\ Observed(TRUE)
  /\ UNCHANGED <<kernel, members, out>>

\* The stream does not open: the loop body is never entered.
ReadFails ==
  /\ step = "idle" /\ faults < MaxFaults
  /\ faults' = faults + 1
  /\ step' = "read"
  /\ cur' = Zero
  /\ Observed(FALSE)
  /\ UNCHANGED <<present, stat, now, writes, members, out>>

\* The lambda d of sample().
d_(a, b) == IF a >= b THEN a - b ELSE a

Elapsed == IF now > prev_time_ THEN now - prev_time_ ELSE 1

\* The rest of sample(): the clock is read after the counters.
Finish ==
  /\ step = "read"
  /\ step' = "idle"
  /\ out' = IF have_prev_
            THEN [sectors |-> d_(cur.sectors, prev_.sectors),
                  ticks |-> d_(cur.ticks, prev_.ticks), elapsed |-> Elapsed]
            ELSE [sectors |-> 0, ticks |-> 0, elapsed |-> 1]
  /\ prev_' = cur /\ prev_time_' = now /\ have_prev_' = TRUE
  /\ UNCHANGED <<kernel, cur, history>>

Next ==
  \/ ReadDiskstats \/ ReadFails \/ Finish
  \/ \E busy \in SUBSET Disks : Tick(busy)
  \/ \E d \in Disks : Hotplug(d) \/ \E k \in Kinds : Write(d, k)

Spec == Init /\ [][Next]_vars

-----------------------------------------------------------------------------
\* "Each sample() call returns the values accumulated since the previous
\* call" (collector.hpp:1-2): iowrite is what was written to the disks between
\* the two reads of /proc/diskstats, through whatever device, and the first
\* call, which has no baseline, emits 0. A disk that comes or goes, or a file
\* that cannot be opened, disturbs only the windows next to it.
DeltaExact == step = "idle" /\ ~suspect => out.sectors = due.sectors

\* The same as an upper bound, for every window: whatever happens to the
\* disks, sample() never reports I/O of before "the previous call".
NeverOverstates ==
  step = "idle" => out.sectors <= due.sectors /\ out.ticks <= due.ticks
=============================================================================
