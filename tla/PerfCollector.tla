---------------------------- MODULE PerfCollector ----------------------------
(***************************************************************************)
(* class PerfCollector (src/perf_collector.cpp): one perf counter per      *)
(* tracepoint and CPU, read one descriptor after the other while the       *)
(* events being counted keep happening.                                    *)
(*                                                                         *)
(* External: the kernel's tracepoints and CPUs. A perf descriptor counts   *)
(* the events of its CPU since it was opened, until the CPU goes offline:  *)
(* it then keeps its value, can still be read, and does not resume when    *)
(* the CPU comes back. perf_event_open fails for a CPU that is offline,    *)
(* and may fail for others (descriptor limit, permission). A ::read may    *)
(* fail or come back short at any time.                                    *)
(***************************************************************************)
EXTENDS Integers, FiniteSets, Functions

CONSTANTS
  NFeatures,    \* length of the routes the constructor is given
  NCpus,        \* CPUs the machine has, numbered from 0
  MaxPlugs,     \* bound: CPUs taken offline or back online, at boot or later
  MaxEvents,    \* bound: events
  MaxFails      \* bound: reads that fail or come back short

ASSUME PerfAssumption ==
  /\ NFeatures \in Nat \ {0} /\ NCpus \in Nat \ {0}
  /\ MaxPlugs \in Nat /\ MaxEvents \in Nat /\ MaxFails \in Nat

Features == 1..NFeatures
Cpus     == 0..(NCpus - 1)

VARIABLES
  online,       \* CPUs online
  plugs,        \* hotplug operations so far
  happened,     \* events of each counter's tracepoint per CPU, since opening
  value,        \* what each descriptor has counted
  attached,     \* CPUs whose descriptor still counts
  fails,        \* reads that have failed so far
  ncpu_,        \* the member ncpu_, 0 until the constructor has set it
  built,        \* counters_.size()
  fds,          \* CPUs a counter has a descriptor for
  missing_,     \* features reported as unresolved
  prev,         \* Counter::prev
  at,           \* counter sample() is at, 0 when it is not running
  todo,         \* CPUs whose descriptors readGroup has still to read
  total,        \* readGroup's total
  out,          \* the map sample() fills
  sampled,      \* has sample() been called?
  reported,     \* history: sum of all deltas
  lastRead,     \* history: what each descriptor returned last
  due,          \* history: what had happened when the last sample() began
  missed,       \* history: descriptors a group's last turn left out
  missedBefore, \* history: those of the turn before
  gain          \* history: what a group's descriptors gained in its last turn

kernel  == <<online, plugs, happened, value, attached, fails>>
members == <<ncpu_, built, fds, missing_, prev>>
turns   == <<missed, missedBefore, gain>>
history == <<reported, lastRead, due, turns>>
vars    == <<kernel, members, at, todo, total, out, sampled, history>>

PerCpu(x) == [f \in Features |-> [c \in Cpus |-> x]]
Each(x)   == [f \in Features |-> x]

Init ==
  /\ online = Cpus /\ plugs = 0 /\ fails = 0
  /\ happened = PerCpu(0) /\ value = PerCpu(0) /\ attached = Each({})
  /\ ncpu_ = 0 /\ built = 0
  /\ fds = Each({}) /\ missing_ = {} /\ prev = Each(0)
  /\ at = 0 /\ todo = {} /\ total = 0 /\ out = Each(0) /\ sampled = FALSE
  /\ reported = Each(0) /\ lastRead = PerCpu(0) /\ due = PerCpu(0)
  /\ missed = Each({}) /\ missedBefore = Each({}) /\ gain = Each(0)

-----------------------------------------------------------------------------
(* The kernel (external) *)

Event(f, c) ==
  /\ f <= built /\ c \in online
  /\ SumFunction([g \in Features |-> SumFunction(happened[g])]) < MaxEvents
  /\ happened' = [happened EXCEPT ![f][c] = @ + 1]
  /\ value' = [value EXCEPT ![f][c] = IF c \in attached[f] THEN @ + 1 ELSE @]
  /\ UNCHANGED <<online, plugs, attached, fails, members, at, todo, total, out, sampled, history>>

\* CPU 0 cannot be taken offline.
Hotplug(c) ==
  /\ c # 0 /\ plugs < MaxPlugs
  /\ plugs' = plugs + 1
  /\ online' = IF c \in online THEN online \ {c} ELSE online \cup {c}
  /\ attached' = [f \in Features |-> attached[f] \ {c}]
  /\ UNCHANGED <<happened, value, fails, members, at, todo, total, out, sampled, history>>

-----------------------------------------------------------------------------
(* The constructor *)

\* sysconf(_SC_NPROCESSORS_ONLN)
CountCpus ==
  /\ ncpu_ = 0
  /\ ncpu_' = Cardinality(online)
  /\ UNCHANGED <<kernel, built, fds, missing_, prev, at, todo, total, out, sampled, history>>

\* tracepointId returns 0.
Unresolved ==
  /\ ncpu_ > 0 /\ built < NFeatures
  /\ built' = built + 1
  /\ missing_' = missing_ \cup {built + 1}
  /\ UNCHANGED <<kernel, ncpu_, fds, prev, at, todo, total, out, sampled, history>>

\* Mutant of Empty: an empty group is not reported.
EmptySilent(f, opened) == {}

\* `if (c.fds.empty()) missing_.push_back(feature)`
Empty(f, opened) == IF opened = {} THEN {f} ELSE {}

\* One perf_event_open per CPU number below ncpu_.
OpenCounter(opened) ==
  LET f == built + 1 IN
  /\ ncpu_ > 0 /\ built < NFeatures
  /\ opened \subseteq (0..(ncpu_ - 1)) \cap online
  /\ built' = f
  /\ fds' = [fds EXCEPT ![f] = opened]
  /\ attached' = [attached EXCEPT ![f] = opened]
  /\ missing_' = missing_ \cup Empty(f, opened)
  /\ UNCHANGED <<online, plugs, happened, value, fails, ncpu_, prev, at, todo, total,
                 out, sampled, history>>

-----------------------------------------------------------------------------
(* sample() and readGroup() *)

BeginGroup(f) ==
  /\ at' = f /\ todo' = fds[f] /\ total' = 0
  /\ missedBefore' = [missedBefore EXCEPT ![f] = missed[f]]
  /\ missed' = [missed EXCEPT ![f] = {}]
  /\ gain' = [gain EXCEPT ![f] = 0]

Sample ==
  /\ built = NFeatures /\ at = 0
  /\ BeginGroup(1)
  /\ sampled' = TRUE
  /\ due' = happened
  /\ UNCHANGED <<kernel, members, out, reported, lastRead>>

\* Mutant of Counted: CPUs that are offline are skipped.
CountedOnline(c) == IF c \in online THEN value[at][c] ELSE 0

Counted(c) == value[at][c]

\* Mutant of Rest: readGroup returns after its first descriptor.
RestNone(c) == {}

Rest(c) == todo \ {c}

\* The descriptor of c is the next one to be read.
Reading(c) == at # 0 /\ c \in todo /\ \A d \in todo : c <= d

\* One ::read that returns the eight bytes of a counter.
ReadFd(c) ==
  /\ Reading(c)
  /\ total' = total + Counted(c)
  /\ todo' = Rest(c)
  /\ lastRead' = [lastRead EXCEPT ![at][c] = value[at][c]]
  /\ gain' = [gain EXCEPT ![at] = @ + (value[at][c] - lastRead[at][c])]
  /\ UNCHANGED <<kernel, members, at, out, sampled, reported, due, missed, missedBefore>>

\* One that does not: the descriptor is left out of the total.
ReadFails(c) ==
  /\ Reading(c) /\ fails < MaxFails
  /\ fails' = fails + 1
  /\ todo' = Rest(c)
  /\ missed' = [missed EXCEPT ![at] = @ \cup {c}]
  /\ UNCHANGED <<online, plugs, happened, value, attached, members, at, total, out,
                 sampled, reported, lastRead, due, missedBefore, gain>>

Delta(f) == IF total >= prev[f] THEN total - prev[f] ELSE total

\* Mutant of Baseline: it is not moved.
BaselineKept == prev[at]

Baseline == total

\* The group has been read: compute the delta, move the baseline, go on.
Emit ==
  /\ at # 0 /\ todo = {}
  /\ out' = [out EXCEPT ![at] = Delta(at)]
  /\ prev' = [prev EXCEPT ![at] = Baseline]
  /\ reported' = [reported EXCEPT ![at] = @ + Delta(at)]
  /\ IF at < NFeatures THEN BeginGroup(at + 1)
     ELSE at' = 0 /\ UNCHANGED <<todo, total, turns>>
  /\ UNCHANGED <<kernel, ncpu_, built, fds, missing_, sampled, lastRead, due>>

Next ==
  \/ CountCpus \/ Unresolved \/ Sample \/ Emit
  \/ \E opened \in SUBSET Cpus : OpenCounter(opened)
  \/ \E c \in Cpus : ReadFd(c) \/ ReadFails(c) \/ Hotplug(c)
  \/ \E f \in Features, c \in Cpus : Event(f, c)

Spec == Init /\ [][Next]_vars

-----------------------------------------------------------------------------
\* A window reports what the group's descriptors have gained since the
\* window before, no more and no less, although events arrive between the
\* reads of one group and CPUs come and go. Only a read that fails disturbs
\* this, and not beyond the window after it: the deltas are exact again from
\* the second window in which every descriptor was read.
ReportedOnce ==
  at = 0 => \A f \in Features :
    missed[f] = {} /\ missedBefore[f] = {} => out[f] = gain[f]

\* The fallback for a total below the previous one ("handle wrap/reset") is
\* taken for failed reads only: the total of a group that has been read as a
\* whole has not fallen, whatever was left out before and whichever CPUs went
\* offline, so that no such window reports a counter's history.
TotalsNeverFall ==
  at # 0 /\ todo = {} /\ missed[at] = {} => total >= prev[at]

\* A feature has no descriptor exactly when --check lists it as missing, and
\* then it reads 0 in every window.
MissingIsReported ==
  \A f \in 1..built :
    /\ f \in missing_ <=> fds[f] = {}
    /\ f \in missing_ => reported[f] = 0

\* "counts ... system-wide ... one fd per CPU" (perf_collector.hpp:1-2): a
\* feature with a descriptor for every CPU, none of which has been offline
\* since, misses nothing. After a sample() that has read all of them every
\* event that had happened on any CPU when that sample() began has been
\* reported, those an earlier failed read left out included.
NothingMissed ==
  at = 0 /\ sampled =>
    \A f \in Features :
      attached[f] = Cpus /\ missed[f] = {} => reported[f] >= SumFunction(due[f])
=============================================================================
