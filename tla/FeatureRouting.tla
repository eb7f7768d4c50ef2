--------------------------- MODULE FeatureRouting ---------------------------
(***************************************************************************)
(* FEATURE_ORDER (model_meta.hpp), routeFeatures (feature_routing.hpp),    *)
(* the names the collectors write, and WindowAggregator::assemble.         *)
(*                                                                         *)
(* A feature name is split where the code looks at it: what stands before  *)
(* ':' ("" where there is none), the rest, and a _KERN_data or _RES_data   *)
(* suffix.                                                                 *)
(***************************************************************************)
EXTENDS Integers, Sequences

Plain(e)         == [sys |-> "", event |-> e, suffix |-> ""]
Point(s, e)      == [sys |-> s, event |-> e, suffix |-> ""]
Tagged(s, e, x)  == [sys |-> s, event |-> e, suffix |-> x]

FEATURE_ORDER == <<
  Plain("madvise"), Plain("setgroups32"), Plain("statfs64"),
  Tagged("", "seconds", "_RES_data"), Plain("getsockname"), Plain("connect"),
  Tagged("block", "block_unplug", "_KERN_data"), Point("ext4", "ext4_ext_rm_leaf"),
  Plain("socket"), Point("jbd2", "jbd2_handle_extend"), Plain("util"),
  Plain("write_kbs"), Plain("rename"), Plain("prlimit64"), Plain("write_merge"),
  Plain("dup2"), Plain("recv"),
  Tagged("ext4", "ext4_da_update_reserve_space", "_RES_data"), Plain("iowrite"),
  Plain("fchmod"), Plain("setitimer"), Plain("mkdir"), Plain("inotify_add_watch"),
  Point("ext4", "ext4_ext_remove_space_done"), Plain("pipe2"),
  Tagged("writeback", "sb_clear_inode_writeback", "_KERN_data"), Plain("brk"),
  Plain("shutdown"), Plain("getegid32"), Plain("iowritetime"), Plain("geteuid32") >>

CLASS_NAMES == <<"normal", "ransomware", "thetick", "bashlite", "httpbackdoor",
                 "beurk", "backdoor", "bdvl", "xmrig">>

-----------------------------------------------------------------------------
(* routeFeatures *)

kDisk     == {Plain(e) : e \in {"util", "write_kbs", "write_merge", "iowrite", "iowritetime"}}
kResource == {Tagged("", "seconds", "_RES_data")}

\* Mutant of stripSuffix: only _KERN_data is stripped.
stripKernOnly(n) == IF n.suffix = "_KERN_data" THEN [n EXCEPT !.suffix = ""] ELSE n

stripSuffix(n) == [n EXCEPT !.suffix = ""]

\* A path is the directory below events/ and the three parts of the file name.
tracefsPath(n) == <<n.sys, "", stripSuffix(n).event, stripSuffix(n).suffix>>

Path(n) == IF n.sys # "" THEN tracefsPath(n) ELSE <<"syscalls", "sys_enter_", n.event, n.suffix>>

Source(n) ==
  CASE n.sys # ""                    -> "perf"
    [] n.sys = "" /\ n \in kDisk     -> "disk"
    [] n.sys = "" /\ n \in kResource -> "resource"
    [] OTHER                         -> "perf"

\* The names of each route; nothing depends on their order.
routeFeatures(order) ==
  [s \in {"perf", "disk", "resource"} |-> {n \in {order[i] : i \in 1..Len(order)} : Source(n) = s}]

-----------------------------------------------------------------------------
(* The names collectors write, whatever they were built for *)

ProcKeys     == {Plain(e) : e \in {"write_merge", "iowrite", "write_kbs", "iowritetime", "util"}}
ResourceKeys == {Tagged("", "seconds", "_RES_data")}

\* One entry per name of the order, 0 for a name nobody wrote.
assemble(order, merged) ==
  [i \in 1..Len(order) |-> IF order[i] \in DOMAIN merged THEN merged[order[i]] ELSE 0]
=============================================================================
