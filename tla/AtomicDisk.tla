----------------------------- MODULE AtomicDisk -----------------------------
(***************************************************************************)
(* What the logging layer of kernel/log.c promises the file system: an     *)
(* abstract disk on which whole groups of file-system calls take effect    *)
(* atomically.  "mem" is the contents as logged so far, which every call   *)
(* sees, "disk" the contents the machine would come back with after a      *)
(* crash.  mem changes one block at a time, while some call is in progress *)
(* (a read that allocates is in none, and writes along with the calls of   *)
(* others); disk is only ever replaced as a whole, by mem, and only while  *)
(* no call is in progress (log.c:12-16: "The logging system only commits   *)
(* when there are no FS system calls active").                             *)
(***************************************************************************)
CONSTANTS Procs, Blocks, Values

VARIABLES disk, mem, active

vars == <<disk, mem, active>>

TypeOK ==
  /\ disk \in [Blocks -> Values]
  /\ mem \in [Blocks -> Values]
  /\ active \subseteq Procs

Init ==
  /\ disk \in [Blocks -> Values]
  /\ mem = disk
  /\ active = {}

Begin(p) ==
  /\ p \notin active
  /\ active' = active \cup {p}
  /\ UNCHANGED <<disk, mem>>

Write(b, v) ==
  /\ active # {}
  /\ mem' = [mem EXCEPT ![b] = v]
  /\ UNCHANGED <<disk, active>>

End(p) ==
  /\ p \in active
  /\ active' = active \ {p}
  /\ UNCHANGED <<disk, mem>>

Commit ==
  /\ active = {}
  /\ disk' = mem
  /\ UNCHANGED <<mem, active>>

Crash ==
  /\ mem' = disk
  /\ active' = {}
  /\ UNCHANGED disk

Next ==
  \/ \E p \in Procs : Begin(p) \/ End(p)
  \/ \E b \in Blocks, v \in Values : Write(b, v)
  \/ Commit
  \/ Crash

Spec == Init /\ [][Next]_vars
=============================================================================
