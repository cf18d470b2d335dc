------------------------------ MODULE TestTrans -----------------------------
(***************************************************************************)
(* The test harness of the cache lab.  cache/driver.py runs test-trans for *)
(* three sizes of matrix, one after the other.  test-trans has a child     *)
(* trace the transpose function (valgrind and tracegen), filters the trace,*)
(* has a second child count the misses (csim-ref) and prints a result.     *)
(* Everything passes through files of fixed names in one directory, and an *)
(* alarm may end test-trans at any time while its child goes on.           *)
(*                                                                         *)
(* A trace is abstracted to whose it is and whether it is whole.  .marker  *)
(* holds the same two addresses whoever writes it.                         *)
(***************************************************************************)
EXTENDS Integers, Sequences

CONSTANTS Misses,        \* test -> misses of the whole trace (module Trans)
          OtherMisses,   \* bound: what the counts of other traces may be
          LastTest       \* bound: how many of its tests driver.py runs

(* The tests of driver.py and their limits for full points and for none.   *)
Tests == << [lower |-> 300,  upper |-> 600,  max |-> 8],
            [lower |-> 1300, upper |-> 2000, max |-> 8],
            [lower |-> 2000, upper |-> 3000, max |-> 10] >>

ASSUME LastTestAssumption == LastTest \in DOMAIN Tests

Runs == 1 .. LastTest

ASSUME MissesAssumption == Misses \in [DOMAIN Tests -> Nat]
ASSUME OtherMissesAssumption == OtherMisses \subseteq Nat

INT_MAX == 2147483647

VARIABLES run,           \* driver.py: the test that runs, or one past the last
          pc,            \* where test-trans is
          results,       \* test-trans: correct and misses of results
          output,        \* test -> the first result line printed, or NoLine
          shExecs,       \* sh -c runs its command in its own process
          child,         \* test -> where the child of its system() is
          status,        \* test -> how tracegen ended
          input,         \* test -> the trace its csim-ref has read
          marker,        \* the file .marker: "missing", "empty" or "written"
          trace_tmp,     \* the file trace.tmp: the pieces written into it
          trace_f0,      \* the file trace.f0: a trace
          csim_results,  \* the misses in the file .csim_results
          disturbed,     \* history: the tests with a disturbance that
                         \* test-trans does not notice
          refused        \* history: the tests whose trace.f0 could not be
                         \* opened for writing

harness == <<run, pc, results, output>>
files == <<marker, trace_tmp, trace_f0, csim_results>>
children == <<child, status, input>>
history == <<disturbed, refused>>
vars == <<harness, shExecs, children, files, history>>

Nobody == 0
Traces == [of : Runs \cup {Nobody}, what : {"complete", "partial", "mixed"}]
NoTrace == [of |-> Nobody, what |-> "partial"]

Missing == -1            \* there is no file .csim_results
Emptied == -2            \* it is opened and not yet written
NoFile == {<<Nobody, "first">>}       \* there is no file trace.tmp

Fresh == [correct |-> 0, misses |-> INT_MAX]
NoLine == [correct |-> 0, misses |-> -1]

TypeOK ==
  /\ run \in 1 .. LastTest + 1
  /\ pc \in {"start", "tracegen", "marker", "filter", "simulate", "csim-ref",
             "summary", "exited"}
  /\ results \in [correct : {0, 1}, misses : Nat]
  /\ output \in [Runs -> [correct : {0, 1}, misses : Int]]
  /\ shExecs \in BOOLEAN
  /\ child \in [Runs -> {"none", "sh", "start", "mark", "marked", "traced",
                         "validate", "csim", "count", "write", "ended"}]
  /\ status \in [Runs -> {"none", "ok", "failed", "signaled"}]
  /\ input \in [Runs -> Traces]
  /\ marker \in {"missing", "empty", "written"}
  /\ trace_tmp = NoFile \/ trace_tmp \subseteq Runs \X {"first", "last"}
  /\ trace_f0 \in Traces
  /\ csim_results \in {Missing, Emptied} \cup Nat
  /\ disturbed \subseteq Runs /\ refused \subseteq Runs

Init ==
  /\ run = 1 /\ pc = "start" /\ results = Fresh
  /\ output = [r \in Runs |-> NoLine]
  /\ shExecs \in BOOLEAN
  /\ child = [r \in Runs |-> "none"]
  /\ status = [r \in Runs |-> "none"]
  /\ input = [r \in Runs |-> NoTrace]
  /\ marker \in {"missing", "written"}
  /\ csim_results \in {Missing} \cup OtherMisses
  /\ trace_tmp = NoFile /\ trace_f0 = NoTrace
  /\ disturbed = {} /\ refused = {}

----------------------------------------------------------------------------
(* test-trans: main and its eval_perf, with one registered function.       *)
Alive(r) == child[r] \notin {"none", "ended"}

At(label) == run \in Runs /\ pc = label

Goto(label) == pc' = label

(* main: the alarm is set; system() starts sh with the command.            *)
Start ==
  /\ At("start")
  /\ child' = [child EXCEPT ![run] = "sh"]
  /\ Goto("tracegen")
  /\ UNCHANGED <<run, results, output, shExecs, status, input, files, history>>

(* The value of WEXITSTATUS for the status of sh: 0 for a process that was *)
(* ended by a signal.  A sh that waits for its command exits with 128 + n. *)
flag == CASE status[run] = "ok" -> 0
          [] status[run] = "failed" -> 1
          [] status[run] = "signaled" -> IF shExecs THEN 0 ELSE 139

(* Mutant of Validated: the exit status is not looked at.                  *)
ValidatedAlways ==
  /\ At("tracegen") /\ child[run] = "ended"
  /\ Goto("marker")
  /\ UNCHANGED <<run, results, output, shExecs, children, files, history>>

(* A validation error leaves the function with no evaluation.              *)
Validated ==
  /\ At("tracegen") /\ child[run] = "ended"
  /\ Goto(IF flag = 0 THEN "marker" ELSE "summary")
  /\ UNCHANGED <<run, results, output, shExecs, children, files, history>>

(* A failed assertion ends test-trans before it has printed anything.      *)
Abort == Goto("exited") /\ UNCHANGED results

ReadMarker ==
  /\ At("marker")
  /\ IF marker = "missing" THEN Abort
     ELSE Goto("filter") /\ results' = [results EXCEPT !.correct = 1]
  /\ UNCHANGED <<run, output, shExecs, children, files, history>>

(* What the loop finds between the markers.  Without an end marker the file*)
(* is not closed, and what is still buffered is not in it.                 *)
Filtered(pieces) ==
  IF \E r \in Runs : pieces = {<<r, "first">>, <<r, "last">>}
  THEN {[of |-> r, what |-> "complete"] : r \in {p[1] : p \in pieces}}
  ELSE IF \E r \in Runs : pieces = {<<r, "first">>}
  THEN {[of |-> r, what |-> "partial"] : r \in {p[1] : p \in pieces}}
  ELSE IF pieces = {} THEN {NoTrace}
  ELSE {[of |-> Nobody, what |-> "mixed"]}

(* The markers are read from an empty .marker as garbage, which is found   *)
(* nowhere or anywhere.                                                    *)
Located == IF marker = "written" THEN Filtered(trace_tmp)
           ELSE {NoTrace, [of |-> Nobody, what |-> "mixed"]}

(* Mutant of Filter: trace.f0 is never closed.                             *)
FilterUnclosed ==
  /\ At("filter") /\ trace_tmp # NoFile
  /\ \E t \in Located : trace_f0' = [t EXCEPT !.what = "partial"]
  /\ Goto("simulate")
  /\ UNCHANGED <<run, results, output, shExecs, children, marker, trace_tmp,
                 csim_results, history>>

(* Two assertions: trace.tmp is there, and trace.f0 can be opened for      *)
(* writing, which may fail at any time.                                    *)
Filter ==
  /\ At("filter")
  /\ \/ /\ trace_tmp = NoFile
        /\ Abort /\ UNCHANGED <<trace_f0, refused>>
     \/ /\ trace_tmp # NoFile
        /\ Abort /\ refused' = refused \cup {run} /\ UNCHANGED trace_f0
     \/ /\ trace_tmp # NoFile
        /\ trace_f0' \in Located
        /\ Goto("simulate") /\ UNCHANGED <<results, refused>>
  /\ UNCHANGED <<run, output, shExecs, children, marker, trace_tmp,
                 csim_results, disturbed>>

Simulate ==
  /\ At("simulate")
  /\ child' = [child EXCEPT ![run] = "csim"]
  /\ Goto("csim-ref")
  /\ UNCHANGED <<run, results, output, shExecs, status, input, files, history>>

(* Mutant of Collect: system() is not waited for.                          *)
CollectEarly ==
  /\ At("csim-ref")
  /\ IF csim_results = Missing THEN Abort
     ELSE /\ \E m \in IF csim_results = Emptied THEN OtherMisses
                      ELSE {csim_results} :
               results' = [results EXCEPT !.misses = m]
          /\ Goto("summary")
  /\ UNCHANGED <<run, output, shExecs, children, files, history>>

(* Mutant of Collect: the file is not asserted to be there.                *)
CollectUnasserted ==
  /\ At("csim-ref") /\ child[run] = "ended"
  /\ \E m \in IF csim_results = Emptied THEN OtherMisses ELSE {csim_results} :
       results' = [results EXCEPT !.misses = m]
  /\ Goto("summary")
  /\ UNCHANGED <<run, output, shExecs, children, files, history>>

(* The result of system() is ignored.  Nothing is read from an empty file: *)
(* misses is then not initialized.                                         *)
Collect ==
  /\ At("csim-ref") /\ child[run] = "ended"
  /\ IF csim_results = Missing THEN Abort
     ELSE /\ \E m \in IF csim_results = Emptied THEN OtherMisses
                      ELSE {csim_results} :
               results' = [results EXCEPT !.misses = m]
          /\ Goto("summary")
  /\ UNCHANGED <<run, output, shExecs, children, files, history>>

(* driver.py takes the first pair of numbers: an alarm after the last line *)
(* has been printed changes nothing.                                       *)
Printed(line) ==
  output' = IF output[run] = NoLine THEN [output EXCEPT ![run] = line]
            ELSE output

Summary ==
  /\ At("summary")
  /\ Printed(results)
  /\ Goto("exited")
  /\ UNCHANGED <<run, results, shExecs, children, files, history>>

(* Mutant of sigalrm_handler: the alarm is set after eval_perf.            *)
sigalrm_handlerLate ==
  /\ At("summary")
  /\ Printed([correct |-> 0, misses |-> 0])
  /\ Goto("exited")
  /\ UNCHANGED <<run, results, shExecs, children, files, history>>

(* After 120 seconds, wherever test-trans is.                              *)
sigalrm_handler ==
  /\ run \in Runs /\ pc \notin {"start", "exited"}
  /\ Printed([correct |-> 0, misses |-> 0])
  /\ Goto("exited")
  /\ UNCHANGED <<run, results, shExecs, children, files, history>>

----------------------------------------------------------------------------
(* driver.py waits until nobody holds the pipe from test-trans: a sh that  *)
(* waits for its command does.                                             *)
Communicate ==
  /\ At("exited")
  /\ shExecs \/ ~Alive(run)
  /\ run' = run + 1 /\ Goto("start") /\ results' = Fresh
  /\ UNCHANGED <<output, shExecs, children, files, history>>

Done == run = LastTest + 1

(* The first pair of numbers counts; without a line the driver dies.       *)
Crashed(r) == Done /\ output[r] = NoLine

(* In tenths of a point, rounded.                                          *)
computeMissScore(miss, t) ==
  IF miss <= t.lower THEN 10 * t.max
  ELSE IF miss >= t.upper THEN 0
  ELSE (20 * t.max * (t.upper - miss) + t.upper - t.lower)
         \div (2 * (t.upper - t.lower))

Score(r) == output[r].correct
              * computeMissScore(output[r].misses, Tests[r])

----------------------------------------------------------------------------
(* The children, also those that outlive their test-trans.                 *)
Step(r, from, to) == child[r] = from /\ child' = [child EXCEPT ![r] = to]

(* After driver.py nobody looks at the files any more.                     *)
Frame == ~Done /\ UNCHANGED <<harness, shExecs, refused>>

Reads == Frame /\ UNCHANGED disturbed

(* What an orphan writes into the files of the test that runs disturbs it. *)
Started == pc \notin {"start", "exited"}

Writes(r) ==
  /\ Frame
  /\ disturbed' = IF r # run /\ Started THEN disturbed \cup {run} ELSE disturbed

(* system() waits for the child of the test that runs; nobody asks how an  *)
(* orphan has ended.                                                       *)
Report(r, how) ==
  status' = IF r = run /\ pc = "tracegen" THEN [status EXCEPT ![r] = how]
            ELSE status

(* sh opens trace.tmp and runs valgrind, or cannot open it or finds none.  *)
OpenTraceTmp(r) ==
  /\ Writes(r) /\ Step(r, "sh", "start")
  /\ trace_tmp' = {}
  /\ UNCHANGED <<status, input, marker, trace_f0, csim_results>>

NotFound(r) ==
  /\ Reads /\ (Step(r, "sh", "ended") \/ Step(r, "start", "ended"))
  /\ Report(r, "failed")
  /\ UNCHANGED <<input, files>>

(* tracegen: .marker is opened, then written.                              *)
OpenMarker(r) ==
  /\ Writes(r) /\ Step(r, "start", "mark")
  /\ marker' = "empty"
  /\ UNCHANGED <<status, input, trace_tmp, trace_f0, csim_results>>

WriteMarker(r) ==
  /\ Writes(r) /\ Step(r, "mark", "marked")
  /\ marker' = "written"
  /\ UNCHANGED <<status, input, trace_tmp, trace_f0, csim_results>>

(* valgrind writes the trace piece by piece, as the function runs.         *)
Trace(r, from, to, piece) ==
  /\ Writes(r) /\ Step(r, from, to)
  /\ trace_tmp' = trace_tmp \cup {<<r, piece>>}
  /\ UNCHANGED <<status, input, marker, trace_f0, csim_results>>

(* main of tracegen returns what validate found.                           *)
ReturnFromTracegen(r) ==
  /\ Reads /\ Step(r, "validate", "ended")
  /\ \E s \in {"ok", "failed"} : Report(r, s)
  /\ UNCHANGED <<input, files>>

(* csim-ref reads trace.f0 and ends with printSummary.                     *)
ReadTrace(r) ==
  /\ Reads /\ Step(r, "csim", "count")
  /\ input' = [input EXCEPT ![r] = trace_f0]
  /\ UNCHANGED <<status, files>>

OpenResults(r) ==
  /\ Writes(r) /\ Step(r, "count", "write")
  /\ csim_results' = Emptied
  /\ UNCHANGED <<status, input, marker, trace_tmp, trace_f0>>

(* The misses that csim-ref may count for a trace.                         *)
Count(t) == IF t.what = "complete" THEN {Misses[t.of]} ELSE OtherMisses

WriteResults(r) ==
  /\ Writes(r) /\ Step(r, "write", "ended")
  /\ \E m \in Count(input[r]) : csim_results' = m
  /\ input' = [input EXCEPT ![r] = NoTrace]
  /\ UNCHANGED <<status, marker, trace_tmp, trace_f0>>

(* A child is killed, or csim-ref fails.  The status of csim-ref is not    *)
(* looked at, nor is that of tracegen when sh has become its command.      *)
Killed(r) ==
  /\ ~Done /\ Alive(r)
  /\ child' = [child EXCEPT ![r] = "ended"]
  /\ Report(r, "signaled")
  /\ input' = [input EXCEPT ![r] = NoTrace]
  /\ disturbed' = IF r = run /\ (pc = "csim-ref" \/ (pc = "tracegen" /\ shExecs))
                  THEN disturbed \cup {r} ELSE disturbed
  /\ UNCHANGED <<harness, shExecs, refused, files>>

Child(r) ==
  \/ OpenTraceTmp(r) \/ NotFound(r) \/ OpenMarker(r) \/ WriteMarker(r)
  \/ Trace(r, "marked", "traced", "first")
  \/ Trace(r, "traced", "validate", "last")
  \/ ReturnFromTracegen(r)
  \/ ReadTrace(r) \/ OpenResults(r) \/ WriteResults(r)
  \/ Killed(r)

TestTrans == \/ Start \/ Validated \/ ReadMarker \/ Filter \/ Simulate
             \/ Collect \/ Summary \/ Communicate

Ended == Done /\ UNCHANGED vars

Next == TestTrans \/ sigalrm_handler \/ (\E r \in Runs : Child(r)) \/ Ended

Spec == Init /\ [][Next]_vars
============================================================================
