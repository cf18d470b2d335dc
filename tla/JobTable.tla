----------------------------- MODULE JobTable -----------------------------
(***************************************************************************)
(* The job table of the tiny shell (shell/tsh.c): a fixed array of job_t   *)
(* structs, the counter nextjid and the helper routines that scan and      *)
(* change them.  Modules Tsh and JobList build on these operators.         *)
(*                                                                         *)
(* A process ID is a member of Pids; NoPid stands for every value below 1  *)
(* (0 in an unused struct, -1 from a failed fork).  The command line is    *)
(* left out: no decision of the shell depends on the stored copy.          *)
(***************************************************************************)
EXTENDS Integers

CONSTANTS Pids,      \* process IDs the kernel may give to children
          NoPid,     \* any pid < 1
          MAXJOBS    \* number of structs in the table

ASSUME PidsAssumption == NoPid \notin Pids
ASSUME MaxJobsAssumption == MAXJOBS \in Nat \ {0}

VARIABLES jobs,      \* the array: slot -> job struct
          nextjid    \* next job ID to allocate

table == <<jobs, nextjid>>

States == {"UNDEF", "FG", "BG", "ST"}

Slots == 0 .. MAXJOBS - 1

NULL == -1

Job == [pid : Pids \cup {NoPid}, jid : Nat, state : States]

clearjob == [pid |-> NoPid, jid |-> 0, state |-> "UNDEF"]

TableType == /\ jobs \in [Slots -> Job]
             /\ nextjid \in Nat \ {0}

initjobs == /\ jobs = [i \in Slots |-> clearjob]
            /\ nextjid = 1

----------------------------------------------------------------------------
(* Every helper is a scan of the array from slot 0 upwards that stops at   *)
(* the first match.                                                        *)
First(S) == IF S = {} THEN NULL
                      ELSE CHOOSE i \in S : \A k \in S : i <= k

freeslot(j) == First({i \in Slots : j[i].pid = NoPid})

getjobpid(j, pid) ==
  IF pid \in Pids THEN First({i \in Slots : j[i].pid = pid}) ELSE NULL

getjobjid(j, jid) ==
  IF jid < 1 THEN NULL ELSE First({i \in Slots : j[i].jid = jid})

pid2jid(j, pid) ==
  LET i == getjobpid(j, pid) IN IF i = NULL THEN 0 ELSE j[i].jid

(* Mutant of fgpid: the state test asks for a used struct, not for FG.     *)
fgpidAnyState(j) ==
  LET i == First({k \in Slots : j[k].state # "UNDEF"})
  IN  IF i = NULL THEN NoPid ELSE j[i].pid

fgpid(j) ==
  LET i == First({k \in Slots : j[k].state = "FG"})
  IN  IF i = NULL THEN NoPid ELSE j[i].pid

maxjid(j) == LET jids == {j[i].jid : i \in Slots}
             IN  CHOOSE m \in jids : \A n \in jids : m >= n

addjob(pid, state) ==
  LET i == freeslot(jobs)
  IN  IF pid \in Pids /\ i # NULL
      THEN /\ jobs' = [jobs EXCEPT ![i] = [pid   |-> pid,
                                           jid   |-> nextjid,
                                           state |-> state]]
           /\ nextjid' = IF nextjid + 1 > MAXJOBS THEN 1 ELSE nextjid + 1
      ELSE UNCHANGED table

(* Mutants of deletejob: the counter becomes maxjid itself; the counter is *)
(* not recomputed; only the pid of the struct is cleared.                  *)
deletejobNextIsMax(pid) ==
  LET i == getjobpid(jobs, pid)
  IN  IF i # NULL
      THEN /\ jobs' = [jobs EXCEPT ![i] = clearjob]
           /\ nextjid' = maxjid(jobs')
      ELSE UNCHANGED table

deletejobKeepsNext(pid) ==
  LET i == getjobpid(jobs, pid)
  IN  IF i # NULL
      THEN jobs' = [jobs EXCEPT ![i] = clearjob] /\ UNCHANGED nextjid
      ELSE UNCHANGED table

deletejobPidOnly(pid) ==
  LET i == getjobpid(jobs, pid)
  IN  IF i # NULL
      THEN /\ jobs' = [jobs EXCEPT ![i].pid = NoPid]
           /\ nextjid' = maxjid(jobs') + 1
      ELSE UNCHANGED table

deletejob(pid) ==
  LET i == getjobpid(jobs, pid)
  IN  IF i # NULL
      THEN /\ jobs' = [jobs EXCEPT ![i] = clearjob]
           /\ nextjid' = maxjid(jobs') + 1
      ELSE UNCHANGED table

setstate(i, state) ==
  /\ jobs' = [jobs EXCEPT ![i].state = state]
  /\ UNCHANGED nextjid
============================================================================
