------------------------------ MODULE JobList ------------------------------
(***************************************************************************)
(* The job table on its own, under every sequence of calls the shell can   *)
(* make when no handler interrupts it: a pid that is not in the table is   *)
(* added, a pid that is in the table is deleted, and the state of a job    *)
(* found by getjobpid or getjobjid is overwritten.  Two histories follow   *)
(* the wrap of nextjid.                                                    *)
(***************************************************************************)
EXTENDS JobTable

CONSTANT JidBound  \* bound: no job is added once nextjid exceeds it

ASSUME JidBoundAssumption == JidBound \in Nat \ {0}

VARIABLES wrapped,   \* history: nextjid was set back to 1 by addjob, and no
                     \* job was deleted since
          recycled   \* history: since the table was last empty, a job got
                     \* its jid from a wrapped nextjid

history == <<wrapped, recycled>>
vars    == <<table, history>>

Listed == {jobs[i].pid : i \in Slots} \ {NoPid}

Init == initjobs /\ wrapped = FALSE /\ recycled = FALSE

(* addjob of a pid; the histories note a wrap, and a jid taken after one.  *)
Add(pid, state) ==
  /\ pid \notin Listed
  /\ nextjid <= JidBound
  /\ addjob(pid, state)
  /\ IF freeslot(jobs) = NULL
     THEN UNCHANGED history
     ELSE /\ wrapped' = (wrapped \/ nextjid + 1 > MAXJOBS)
          /\ recycled' = (recycled \/ wrapped)

(* deletejob of a pid; it forgives a wrap from which no job took a jid.    *)
Delete(pid) ==
  /\ deletejob(pid)
  /\ IF getjobpid(jobs, pid) = NULL
     THEN UNCHANGED history
     ELSE /\ wrapped' = FALSE
          /\ recycled' = (recycled /\ \E i \in Slots : jobs'[i].pid # NoPid)

SetState(i, state) == /\ jobs[i].pid \in Pids
                      /\ setstate(i, state)
                      /\ UNCHANGED history

Next == \/ \E pid \in Pids, state \in {"FG", "BG"} : Add(pid, state)
        \/ \E pid \in Pids : Delete(pid)
        \/ \E i \in Slots, state \in States \ {"UNDEF"} : SetState(i, state)

Spec == Init /\ [][Next]_vars

----------------------------------------------------------------------------
TypeOK == TableType /\ wrapped \in BOOLEAN /\ recycled \in BOOLEAN

(* Names are usable keys: no pid is in two structs, and an unused struct   *)
(* shares no field value with a used one, so that the scans for a jid, a   *)
(* state or a free struct never stop at a struct of the other sort.        *)
KeysWellFormed ==
  /\ \A i, k \in Slots :
       jobs[i].pid = jobs[k].pid /\ jobs[i].pid # NoPid => i = k
  /\ \A i \in Slots : \/ jobs[i] = clearjob
                       \/ /\ jobs[i].pid # NoPid
                          /\ jobs[i].jid # 0
                          /\ jobs[i].state # "UNDEF"

(* "getjobjid - Find a job (by JID) on the job list" (tsh.c:524): bg and   *)
(* fg turn a pid into its jid and look that up; they must come back to the *)
(* job that was named.                                                     *)
PidArgumentNamesItsJob ==
  \A pid \in Listed :
    getjobjid(jobs, pid2jid(jobs, pid)) = getjobpid(jobs, pid)

(* That is so, however jobs came and went, unless some job was added after *)
(* addjob had wrapped nextjid (tsh.c:471) and before the next deletion,    *)
(* and the table has not been empty since: the wrap does no harm until a   *)
(* jid is taken from it, deletejob's new nextjid makes up for it, and two  *)
(* jobs that share a jid do so for no other reason.                        *)
NamesHoldUntilRecycled == recycled \/ PidArgumentNamesItsJob
============================================================================
