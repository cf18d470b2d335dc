--------------------------- MODULE JobListProofs ---------------------------
(***************************************************************************)
(* Theorems about the job table on its own, for every table size, every    *)
(* set of pids and every sequence of calls.                                *)
(***************************************************************************)
EXTENDS JobList, JobTableProofs

(* The table always has its type.                                          *)
THEOREM TypeCorrect == Spec => []TypeOK
<1>1. Init => TypeOK
  BY InitjobsType DEF Init, TypeOK
<1>2. TypeOK /\ [Next]_vars => TypeOK'
  <2> SUFFICES ASSUME TypeOK, [Next]_vars PROVE TypeOK'
    OBVIOUS
  <2> USE DEF TypeOK
  <2>1. ASSUME NEW pid \in Pids, NEW state \in {"FG", "BG"}, Add(pid, state)
        PROVE  TypeOK'
    BY <2>1, AddjobEffect DEF Add, States, history
  <2>2. ASSUME NEW pid \in Pids, Delete(pid)
        PROVE  TypeOK'
    BY <2>2, DeletejobEffect DEF Delete, history
  <2>3. ASSUME NEW i \in Slots, NEW state \in States \ {"UNDEF"},
               SetState(i, state)
        PROVE  TypeOK'
    BY <2>3, SetstateEffect DEF SetState, history
  <2>4. CASE UNCHANGED vars
    BY <2>4 DEF vars, table, history, TableType
  <2> QED BY <2>1, <2>2, <2>3, <2>4 DEF Next
<1> QED BY <1>1, <1>2, PTL DEF Spec

(* KeysWellFormed is inductive once the types are known.                   *)
THEOREM KeysStayWellFormed == Spec => []KeysWellFormed
<1>1. Init => KeysWellFormed
  BY DEF Init, initjobs, KeysWellFormed, clearjob
<1>2. TypeOK /\ KeysWellFormed /\ [Next]_vars => KeysWellFormed'
  <2> SUFFICES ASSUME TypeOK, KeysWellFormed, [Next]_vars
               PROVE  KeysWellFormed'
    OBVIOUS
  <2> USE DEF TypeOK
  <2>1. ASSUME NEW pid \in Pids, NEW state \in {"FG", "BG"}, Add(pid, state)
        PROVE  KeysWellFormed'
    <3>1. CASE UNCHANGED table
      BY <3>1 DEF table, KeysWellFormed
    <3>2. ASSUME NEW i \in Slots,
                 jobs' = [jobs EXCEPT ![i] = [pid |-> pid, jid |-> nextjid,
                                              state |-> state]]
          PROVE  KeysWellFormed'
      <4>1. \A k \in Slots : jobs[k].pid # pid
        BY <2>1, PidsAssumption DEF Add, Listed
      <4> QED BY <2>1, <3>2, <4>1, PidsAssumption
              DEF KeysWellFormed, TableType, Job, Add
    <3> QED BY <2>1, <3>1, <3>2, AddjobEffect DEF Add, States
  <2>2. ASSUME NEW pid \in Pids, Delete(pid)
        PROVE  KeysWellFormed'
    <3>1. CASE UNCHANGED table
      BY <3>1 DEF table, KeysWellFormed
    <3>2. ASSUME NEW i \in Slots, jobs' = [jobs EXCEPT ![i] = clearjob]
          PROVE  KeysWellFormed'
      BY <3>2 DEF KeysWellFormed, TableType, Job, clearjob
    <3> QED BY <2>2, <3>1, <3>2, DeletejobEffect DEF Delete
  <2>3. ASSUME NEW i \in Slots, NEW state \in States \ {"UNDEF"},
               SetState(i, state)
        PROVE  KeysWellFormed'
    BY <2>3, PidsAssumption
       DEF SetState, setstate, KeysWellFormed, TableType, Job, clearjob
  <2>4. CASE UNCHANGED vars
    BY <2>4 DEF vars, table, KeysWellFormed
  <2> QED BY <2>1, <2>2, <2>3, <2>4 DEF Next
<1> QED BY <1>1, <1>2, TypeCorrect, PTL DEF Spec

----------------------------------------------------------------------------
(* Unless it was wrapped, nextjid is larger than every job ID...           *)
Fresh == wrapped \/ \A i \in Slots : jobs[i].jid < nextjid

(* ...so that jobs added by it do not share one.                           *)
Distinct == recycled \/ \A i, k \in Slots :
                          /\ jobs[i].pid # NoPid /\ jobs[k].pid # NoPid
                          /\ jobs[i].jid = jobs[k].jid
                          => i = k

Ind == TypeOK /\ KeysWellFormed /\ Fresh /\ Distinct

(* A job that is added takes nextjid, which is free unless it was wrapped. *)
LEMMA IndAdd ==
  ASSUME Ind, NEW pid \in Pids, NEW state \in {"FG", "BG"}, Add(pid, state)
  PROVE  Fresh' /\ Distinct'
<1> DEFINE i == freeslot(jobs)
<1>1. CASE i = NULL
  BY <1>1 DEF Add, addjob, history, table, Ind, Fresh, Distinct
<1>2. CASE i # NULL
  <2>1. i \in Slots /\ jobs[i].pid = NoPid
    BY <1>2, FreeslotProperties
  <2>2. /\ jobs' = [jobs EXCEPT ![i] = [pid |-> pid, jid |-> nextjid,
                                        state |-> state]]
        /\ nextjid' = IF nextjid + 1 > MAXJOBS THEN 1 ELSE nextjid + 1
        /\ wrapped' = (wrapped \/ nextjid + 1 > MAXJOBS)
        /\ recycled' = (recycled \/ wrapped)
    BY <1>2 DEF Add, addjob
  <2>3. nextjid \in Nat /\ \A k \in Slots : jobs[k].jid \in Nat
    BY DEF Ind, TypeOK, TableType, Job
  <2> HIDE DEF i
  <2>4. \A k \in Slots :
          /\ jobs'[k].jid = IF k = i THEN nextjid ELSE jobs[k].jid
          /\ k # i => jobs'[k].pid = jobs[k].pid
    BY <2>1, <2>2 DEF Ind, TypeOK, TableType
  <2>5. Fresh'
    <3> SUFFICES ASSUME ~wrapped', NEW k \in Slots
                 PROVE  jobs'[k].jid < nextjid'
      BY DEF Fresh
    <3>1. ~wrapped /\ nextjid' = nextjid + 1
      BY <2>2
    <3>2. jobs[k].jid < nextjid
      BY <3>1 DEF Ind, Fresh
    <3> QED BY <2>3, <2>4, <3>1, <3>2
  <2>6. Distinct'
    <3> SUFFICES ASSUME ~recycled', NEW k \in Slots, NEW m \in Slots,
                        jobs'[k].pid # NoPid, jobs'[m].pid # NoPid,
                        jobs'[k].jid = jobs'[m].jid
                 PROVE  k = m
      BY DEF Distinct
    <3>1. ~recycled /\ ~wrapped
      BY <2>2
    <3>2. \A n \in Slots : jobs[n].jid < nextjid
      BY <3>1 DEF Ind, Fresh
    <3>3. \A n \in Slots : jobs[n].jid # nextjid
      BY <2>3, <3>2
    <3> QED BY <2>4, <3>1, <3>3 DEF Ind, Distinct
  <2> QED BY <2>5, <2>6
<1> QED BY <1>1, <1>2

(* A deletion puts nextjid above the job IDs that are left.                *)
LEMMA IndDelete ==
  ASSUME Ind, NEW pid \in Pids, Delete(pid)
  PROVE  Fresh' /\ Distinct'
<1>1. CASE getjobpid(jobs, pid) = NULL
  BY <1>1 DEF Delete, deletejob, history, table, Ind, Fresh, Distinct
<1>2. CASE getjobpid(jobs, pid) # NULL
  <2>1. PICK i \in Slots :
          /\ jobs' = [jobs EXCEPT ![i] = clearjob]
          /\ \A k \in Slots : jobs'[k].jid < nextjid'
    BY <1>2, DeletejobEffect, GetjobpidProperties
       DEF Delete, deletejob, Ind, TypeOK
  <2>2. /\ wrapped' = FALSE
        /\ recycled' = (recycled /\ \E k \in Slots : jobs'[k].pid # NoPid)
    BY <1>2 DEF Delete
  <2>3. Fresh'
    BY <2>1, <2>2 DEF Fresh
  <2>4. \A k \in Slots : jobs'[k].pid # NoPid => jobs'[k] = jobs[k]
    BY <2>1 DEF clearjob, Ind, TypeOK, TableType
  <2>5. Distinct'
    BY <2>2, <2>4 DEF Distinct, Ind
  <2> QED BY <2>3, <2>5
<1> QED BY <1>1, <1>2

(* If no two jobs share a jid, the scan for a job's jid ends at its own    *)
(* struct.                                                                 *)
LEMMA DistinctNames ==
  ASSUME TypeOK, KeysWellFormed, Distinct
  PROVE  NamesHoldUntilRecycled
<1> SUFFICES ASSUME ~recycled, NEW pid \in Listed
             PROVE  getjobjid(jobs, pid2jid(jobs, pid)) = getjobpid(jobs, pid)
  BY DEF NamesHoldUntilRecycled, PidArgumentNamesItsJob
<1> DEFINE i == getjobpid(jobs, pid)
<1>1. pid \in Pids /\ pid # NoPid /\ \E k \in Slots : jobs[k].pid = pid
  BY PidsAssumption DEF Listed, TypeOK, TableType, Job
<1>2. i # NULL /\ i \in Slots /\ jobs[i].pid = pid
  BY <1>1, GetjobpidProperties
<1>3. pid2jid(jobs, pid) = jobs[i].jid
  BY <1>2 DEF pid2jid
<1> HIDE DEF i
<1>4. jobs[i].jid \in Nat /\ jobs[i].jid >= 1
  BY <1>1, <1>2 DEF KeysWellFormed, clearjob, TypeOK, TableType, Job
<1>5. \A k \in Slots : jobs[k].jid = jobs[i].jid => k = i
  BY <1>1, <1>2, <1>4 DEF Distinct, KeysWellFormed, clearjob
<1>6. {k \in Slots : jobs[k].jid = jobs[i].jid} = {i}
  BY <1>2, <1>5
<1>7. First({i}) = i
  BY <1>2, FirstProperties
<1>8. getjobjid(jobs, jobs[i].jid) = i
  BY <1>4, <1>6, <1>7 DEF getjobjid
<1> QED BY <1>3, <1>8 DEF i

(* bg and fg of a pid reach the job that was named, unless a job got its   *)
(* jid from a wrapped counter since the table was last empty.              *)
THEOREM NamesHold == Spec => []NamesHoldUntilRecycled
<1>1. Init => Fresh /\ Distinct
  BY DEF Init, initjobs, clearjob, Fresh, Distinct
<1>2. Ind /\ [Next]_vars => Fresh' /\ Distinct'
  <2> SUFFICES ASSUME Ind, [Next]_vars PROVE Fresh' /\ Distinct'
    OBVIOUS
  <2>1. ASSUME NEW i \in Slots, NEW state \in States \ {"UNDEF"},
               SetState(i, state)
        PROVE  Fresh' /\ Distinct'
    <3>1. \A k \in Slots : /\ jobs'[k].pid = jobs[k].pid
                           /\ jobs'[k].jid = jobs[k].jid
      BY <2>1, SetstateEffect DEF SetState, Ind, TypeOK
    <3>2. UNCHANGED <<nextjid, wrapped, recycled>>
      BY <2>1 DEF SetState, setstate, history
    <3> QED BY <3>1, <3>2 DEF Ind, Fresh, Distinct
  <2>2. CASE UNCHANGED vars
    BY <2>2 DEF vars, table, history, Ind, Fresh, Distinct
  <2> QED BY <2>1, <2>2, IndAdd, IndDelete DEF Next
<1>3. Ind => NamesHoldUntilRecycled
  BY DistinctNames DEF Ind
<1> QED BY <1>1, <1>2, <1>3, TypeCorrect, KeysStayWellFormed, PTL
        DEF Spec, Ind
============================================================================
