--------------------------- MODULE JobTableProofs --------------------------
(***************************************************************************)
(* Lemmas about the job table's helpers: what a scan returns, and what     *)
(* addjob, deletejob and setstate leave behind.                            *)
(***************************************************************************)
EXTENDS JobTable, FiniteSetTheorems, WellFoundedInduction, TLAPS

----------------------------------------------------------------------------
(* Natural numbers.                                                        *)

(* A nonempty set of naturals has a least element.                         *)
LEMMA LeastNat ==
  ASSUME NEW T, T \subseteq Nat, T # {}
  PROVE  \E x \in T : \A y \in T : x <= y
<1>1. \A R, S : IsWellFoundedOn(R, S) =>
        \A U : U \subseteq S /\ U # {} => \E x \in U : \A y \in U : ~ (<<y, x>> \in R)
  BY WFMin, Zenon
<1>2. PICK x \in T : \A y \in T : ~ (<<y, x>> \in OpToRel(<, Nat))
  BY <1>1, NatLessThanWellFounded, Zenon
<1>3. \A a, b \in Nat : a < b => <<a, b>> \in OpToRel(<, Nat)
  BY DEF OpToRel
<1>4. \A y \in T : ~ (y < x)
  BY <1>2, <1>3, Zenon
<1>5. x \in Nat /\ \A y \in T : y \in Nat
  OBVIOUS
<1> QED BY <1>4, <1>5

(* Among the values f[0] ... f[n] there is a largest one: the least n for  *)
(* which there is none would contradict itself.                            *)
LEMMA GreatestValue ==
  ASSUME NEW N \in Nat, NEW f, \A i \in 0 .. N : f[i] \in Nat
  PROVE  \E k \in 0 .. N : \A i \in 0 .. N : f[i] <= f[k]
<1> DEFINE Bad == {n \in 0 .. N :
                     ~ \E k \in 0 .. n : \A i \in 0 .. n : f[i] <= f[k]}
<1>1. SUFFICES ASSUME Bad # {} PROVE FALSE
  OBVIOUS
<1>2. PICK n \in Bad : \A m \in Bad : n <= m
  <2>1. Bad \subseteq Nat
    OBVIOUS
  <2> HIDE DEF Bad
  <2> QED BY <1>1, <2>1, LeastNat
<1>3. n # 0
  <2>1. SUFFICES ASSUME n = 0 PROVE FALSE
    OBVIOUS
  <2>2. f[0] \in Nat /\ f[0] <= f[0]
    OBVIOUS
  <2>3. 0 \in 0 .. 0 /\ \A i \in 0 .. 0 : f[i] <= f[0]
    BY <2>2
  <2> QED BY <1>2, <2>1, <2>3
<1>4. n - 1 \in 0 .. N /\ n - 1 \notin Bad
  <2>1. n \in 0 .. N /\ n - 1 \in 0 .. N /\ ~ (n <= n - 1)
    BY <1>3
  <2>2. \A m : m \in Bad => n <= m
    BY <1>2
  <2> HIDE DEF Bad
  <2> QED BY <2>1, <2>2
<1>5. PICK k \in 0 .. n - 1 : \A i \in 0 .. n - 1 : f[i] <= f[k]
  BY <1>4
<1>6. CASE f[n] <= f[k]
  <2>1. k \in 0 .. n /\ \A i \in 0 .. n : f[i] <= f[k]
    BY <1>2, <1>5, <1>6
  <2> QED BY <1>2, <2>1
<1>7. CASE f[k] <= f[n]
  <2>1. n \in 0 .. n /\ \A i \in 0 .. n : f[i] <= f[n]
    BY <1>2, <1>5, <1>7
  <2> QED BY <1>2, <2>1
<1>8. f[n] \in Nat /\ f[k] \in Nat
  BY <1>2, <1>5
<1> QED BY <1>6, <1>7, <1>8

(* A scan finds a member of the set of slots it looks for, or NULL, which  *)
(* is no slot, if there is none.                                           *)
LEMMA FirstProperties ==
  ASSUME NEW S \in SUBSET Slots
  PROVE  /\ First(S) \in Slots \cup {NULL}
         /\ First(S) = NULL <=> S = {}
         /\ S # {} => First(S) \in S
<1>1. S \subseteq Nat
  BY MaxJobsAssumption DEF Slots
<1>2. S # {} => \E i \in S : \A k \in S : i <= k
  BY <1>1, LeastNat, Zenon
<1>3. S # {} => First(S) \in S
  BY <1>2 DEF First
<1>4. NULL \notin Slots
  BY MaxJobsAssumption DEF NULL, Slots
<1>5. S = {} => First(S) = NULL
  BY DEF First
<1> QED BY <1>3, <1>4, <1>5

(* getjobpid returns a struct that holds the pid, and NULL only if none    *)
(* does.                                                                   *)
LEMMA GetjobpidProperties ==
  ASSUME NEW j, NEW pid
  PROVE  LET i == getjobpid(j, pid)
         IN  /\ i \in Slots \cup {NULL}
             /\ i # NULL => i \in Slots /\ j[i].pid = pid /\ pid \in Pids
             /\ i = NULL /\ pid \in Pids => \A k \in Slots : j[k].pid # pid
<1>1. {i \in Slots : j[i].pid = pid} \in SUBSET Slots
  OBVIOUS
<1>2. NULL \notin Slots
  BY MaxJobsAssumption DEF NULL, Slots
<1> QED BY <1>1, <1>2, FirstProperties DEF getjobpid

(* getjobjid returns NULL or a job with that jid.                          *)
LEMMA GetjobjidProperties ==
  ASSUME NEW j, NEW jid \in Nat
  PROVE  LET i == getjobjid(j, jid)
         IN  /\ i \in Slots \cup {NULL}
             /\ i # NULL => i \in Slots /\ j[i].jid = jid /\ jid >= 1
<1>1. {i \in Slots : j[i].jid = jid} \in SUBSET Slots
  OBVIOUS
<1>2. NULL \notin Slots
  BY MaxJobsAssumption DEF NULL, Slots
<1> QED BY <1>1, <1>2, FirstProperties DEF getjobjid

(* freeslot returns an unused struct, and NULL only if the table is full.  *)
LEMMA FreeslotProperties ==
  ASSUME NEW j
  PROVE  LET i == freeslot(j)
         IN  /\ i \in Slots \cup {NULL}
             /\ i # NULL => i \in Slots /\ j[i].pid = NoPid
             /\ i = NULL => \A k \in Slots : j[k].pid # NoPid
<1>1. {i \in Slots : j[i].pid = NoPid} \in SUBSET Slots
  OBVIOUS
<1>2. NULL \notin Slots
  BY MaxJobsAssumption DEF NULL, Slots
<1> QED BY <1>1, <1>2, FirstProperties DEF freeslot

(* fgpid returns NoPid or the pid of a struct marked FG.                   *)
LEMMA FgpidProperties ==
  ASSUME NEW j
  PROVE  \/ fgpid(j) = NoPid
         \/ \E i \in Slots : j[i].state = "FG" /\ fgpid(j) = j[i].pid
<1>1. {i \in Slots : j[i].state = "FG"} \in SUBSET Slots
  OBVIOUS
<1> QED BY <1>1, FirstProperties DEF fgpid

(* maxjid is the largest job ID in the table.                              *)
LEMMA MaxjidProperties ==
  ASSUME NEW j \in [Slots -> Job]
  PROVE  maxjid(j) \in Nat /\ \A i \in Slots : j[i].jid <= maxjid(j)
<1> DEFINE jids == {j[i].jid : i \in Slots}
           f == [i \in Slots |-> j[i].jid]
<1>1. \A i \in Slots : f[i] \in Nat
  BY DEF Job
<1>2. MAXJOBS - 1 \in Nat /\ Slots = 0 .. MAXJOBS - 1
  BY MaxJobsAssumption DEF Slots
<1>3. \E k \in Slots : \A i \in Slots : f[i] <= f[k]
  <2> HIDE DEF f
  <2> QED BY <1>1, <1>2, GreatestValue
<1>4. \E m \in jids : \A n \in jids : m >= n
  <2>1. PICK k \in Slots : \A i \in Slots : j[i].jid <= j[k].jid
    BY <1>3
  <2>2. j[k].jid \in jids /\ j[k].jid \in Nat
    BY <1>1
  <2>3. \A n \in jids : j[k].jid >= n
    BY <1>1, <2>1
  <2> QED BY <2>2, <2>3
<1>5. maxjid(j) \in jids /\ \A n \in jids : maxjid(j) >= n
  BY <1>4 DEF maxjid
<1> QED BY <1>1, <1>5

----------------------------------------------------------------------------
(* addjob fills one unused struct with a job of a pid, or does nothing.    *)
LEMMA AddjobEffect ==
  ASSUME TableType, NEW pid, NEW state \in States, addjob(pid, state)
  PROVE  /\ TableType'
         /\ \/ UNCHANGED table /\ (pid \notin Pids \/ freeslot(jobs) = NULL)
            \/ /\ pid \in Pids
               /\ \E i \in Slots :
                    /\ jobs[i].pid = NoPid
                    /\ jobs' = [jobs EXCEPT ![i] =
                                  [pid |-> pid, jid |-> nextjid,
                                   state |-> state]]
<1> DEFINE i == freeslot(jobs)
<1>1. CASE pid \in Pids /\ i # NULL
  <2>1. i \in Slots /\ jobs[i].pid = NoPid
    BY <1>1, FreeslotProperties
  <2>2. /\ jobs' = [jobs EXCEPT ![i] = [pid |-> pid, jid |-> nextjid,
                                        state |-> state]]
        /\ nextjid' = IF nextjid + 1 > MAXJOBS THEN 1 ELSE nextjid + 1
    BY <1>1 DEF addjob
  <2> HIDE DEF i
  <2>3. jobs' \in [Slots -> Job]
    BY <1>1, <2>1, <2>2 DEF TableType, Job
  <2>4. nextjid' \in Nat \ {0}
    BY <2>2 DEF TableType
  <2> QED BY <1>1, <2>1, <2>2, <2>3, <2>4 DEF TableType
<1>2. CASE ~(pid \in Pids /\ i # NULL)
  BY <1>2 DEF addjob, TableType, table
<1> QED BY <1>1, <1>2

(* deletejob clears one struct of the pid, after which nextjid is larger   *)
(* than every job ID in the table, or it does nothing.                     *)
LEMMA DeletejobEffect ==
  ASSUME TableType, NEW pid, deletejob(pid)
  PROVE  /\ TableType'
         /\ \/ UNCHANGED table /\ getjobpid(jobs, pid) = NULL
            \/ /\ pid \in Pids
               /\ \E i \in Slots : /\ i = getjobpid(jobs, pid)
                                   /\ jobs[i].pid = pid
                                   /\ jobs' = [jobs EXCEPT ![i] = clearjob]
               /\ \A k \in Slots : jobs'[k].jid < nextjid'
<1> DEFINE i == getjobpid(jobs, pid)
<1>1. CASE i # NULL
  <2>1. i \in Slots /\ jobs[i].pid = pid /\ pid \in Pids
    BY <1>1, GetjobpidProperties
  <2>2. /\ jobs' = [jobs EXCEPT ![i] = clearjob]
        /\ nextjid' = maxjid(jobs') + 1
    BY <1>1 DEF deletejob
  <2>3. jobs' \in [Slots -> Job]
    BY <2>2 DEF TableType, Job, clearjob, States
  <2>4. /\ maxjid(jobs') \in Nat
        /\ \A k \in Slots : jobs'[k].jid <= maxjid(jobs')
    BY <2>3, MaxjidProperties
  <2>5. \A k \in Slots : jobs'[k].jid \in Nat
    BY <2>3 DEF Job
  <2>6. nextjid' \in Nat \ {0} /\ \A k \in Slots : jobs'[k].jid < nextjid'
    <3>1. PICK m \in Nat : m = maxjid(jobs')
      BY <2>4
    <3>2. nextjid' = m + 1
      BY <2>2, <3>1
    <3>3. \A k \in Slots : jobs'[k].jid \in Nat /\ jobs'[k].jid <= m
      BY <2>4, <2>5, <3>1
    <3>4. \A k \in Slots : jobs'[k].jid < m + 1
      BY <3>3
    <3> QED BY <3>2, <3>4
  <2> QED BY <2>1, <2>2, <2>3, <2>6 DEF TableType
<1>2. CASE i = NULL
  BY <1>2 DEF deletejob, TableType, table
<1> QED BY <1>1, <1>2

(* setstate keeps every pid and every job ID in its place.                 *)
LEMMA SetstateEffect ==
  ASSUME TableType, NEW i \in Slots, NEW state \in States,
         setstate(i, state)
  PROVE  /\ TableType'
         /\ \A k \in Slots :
              /\ jobs'[k].pid = jobs[k].pid /\ jobs'[k].jid = jobs[k].jid
              /\ jobs'[k].state = IF k = i THEN state ELSE jobs[k].state
BY DEF TableType, setstate, Job

(* initjobs leaves a table of the right type.                              *)
LEMMA InitjobsType == initjobs => TableType
BY DEF initjobs, TableType, Job, clearjob, States
============================================================================
