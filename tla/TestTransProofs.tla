--------------------------- MODULE TestTransProofs --------------------------
(***************************************************************************)
(* Proofs about the harness of the cache lab, for any number of its tests, *)
(* any misses of their traces, and children that do what they like.        *)
(***************************************************************************)
EXTENDS TestTransProperties, TLAPS

USE LastTestAssumption, MissesAssumption, OtherMissesAssumption

(* There are one to three tests.                                           *)
LEMMA RunsAreNumbers ==
  /\ DOMAIN Tests = 1 .. 3
  /\ LastTest \in 1 .. 3 /\ Runs = 1 .. LastTest /\ Runs \subseteq 1 .. 3
  /\ Misses \in [1 .. 3 -> Nat]
<1>1. DOMAIN Tests = 1 .. 3
  BY DEF Tests
<1> QED
  BY <1>1 DEF Runs

(* What the filter makes of the pieces of trace.tmp is a trace, and a whole*)
(* one is that of a test.                                                  *)
LEMMA FilteredType ==
  ASSUME NEW pieces \in SUBSET (Runs \X {"first", "last"}),
         NEW t \in Filtered(pieces)
  PROVE  t \in Traces /\ (t.what = "complete" => t.of \in Runs)
<1>1. \A p \in pieces : p[1] \in Runs
  OBVIOUS
<1> QED
  BY <1>1 DEF Filtered, Traces, NoTrace, Nobody

(* The two pieces of one trace are filtered to that trace.                 *)
Whole(r) == [of |-> r, what |-> "complete"]

Pieces(r) == {<<r, "first">>, <<r, "last">>}

LEMMA FilteredWhole ==
  ASSUME NEW r \in Runs, NEW t \in Filtered(Pieces(r))
  PROVE  t = Whole(r)
<1>1. {p[1] : p \in Pieces(r)} = {r}
  BY DEF Pieces
<1>2. \E q \in Runs : Pieces(r) = {<<q, "first">>, <<q, "last">>}
  BY DEF Pieces
<1>3. Filtered(Pieces(r)) = {[of |-> q, what |-> "complete"] :
                              q \in {p[1] : p \in Pieces(r)}}
  BY <1>2, Zenon DEF Filtered
<1>4. Filtered(Pieces(r)) = {[of |-> q, what |-> "complete"] : q \in {r}}
  BY <1>1, <1>3, Zenon
<1> QED
  BY <1>4 DEF Whole

(* They are not the missing file.                                          *)
LEMMA PiecesAreThere == ASSUME NEW r \in Runs PROVE Pieces(r) # NoFile
<1>1. <<r, "first">> \in Pieces(r)
  BY DEF Pieces
<1>2. <<r, "first">> \notin NoFile
  BY RunsAreNumbers DEF NoFile, Nobody
<1> QED
  BY <1>1, <1>2

(* The misses that csim-ref counts are a number.                           *)
LEMMA CountType ==
  ASSUME NEW t \in Traces, NEW m \in Count(t),
         t.what = "complete" => t.of \in Runs
  PROVE  m \in Nat
BY RunsAreNumbers DEF Count, Traces

----------------------------------------------------------------------------
(* Types; a whole trace is that of a test; a child that traces has opened  *)
(* its file; and while test-trans waits for tracegen, its child is that,   *)
(* and its status is known once it has ended.                              *)
Tracing == {"start", "mark", "marked", "traced", "validate"}

Typed ==
  /\ TypeOK
  /\ trace_f0.what = "complete" => trace_f0.of \in Runs
  /\ \A r \in Runs : input[r].what = "complete" => input[r].of \in Runs
  /\ \A r \in Runs : child[r] \in Tracing => trace_tmp # NoFile
  /\ At("tracegen") =>
       /\ child[run] \in Tracing \cup {"sh", "ended"}
       /\ child[run] = "ended" => status[run] # "none"

(* The values of which the type invariant speaks.                          *)
LEMMA ConstantTypes ==
  /\ NoTrace \in Traces /\ NoTrace.what # "complete"
  /\ Fresh \in [correct : {0, 1}, misses : Nat]
  /\ NoLine \in [correct : {0, 1}, misses : Int]
  /\ [of |-> Nobody, what |-> "mixed"] \in Traces
BY DEF NoTrace, Traces, Nobody, Fresh, INT_MAX, NoLine

LEMMA InitTyped == Init => Typed
BY RunsAreNumbers, ConstantTypes
   DEF Init, Typed, TypeOK, NoFile, At, Missing, Emptied, Tracing

(* test-trans and driver.py keep the types.                                *)
LEMMA TypedMain ==
  ASSUME Typed, TestTrans \/ sigalrm_handler
  PROVE  Typed'
<1> USE RunsAreNumbers, ConstantTypes
<1>1. CASE Start
  BY <1>1 DEF Start, Typed, TypeOK, At, Goto, Tracing, history, files
<1>2. CASE Validated
  BY <1>2 DEF Validated, Typed, TypeOK, At, Goto, Tracing, children, history, files
<1>3. CASE ReadMarker
  BY <1>3 DEF ReadMarker, Abort, Typed, TypeOK, At, Goto, children, history, files
<1>4. CASE Filter
  <2>1. trace_f0' \in Traces
        /\ (trace_f0'.what = "complete" => trace_f0'.of \in Runs)
    <3>1. CASE trace_tmp = NoFile
      BY <1>4, <3>1 DEF Filter, Typed, TypeOK
    <3>2. CASE UNCHANGED trace_f0
      BY <3>2 DEF Typed, TypeOK
    <3>3. CASE trace_tmp # NoFile /\ marker = "written" /\ trace_f0' \in Located
      <4>1. trace_f0' \in Filtered(trace_tmp)
        BY <3>3 DEF Located
      <4>2. trace_tmp \in SUBSET (Runs \X {"first", "last"})
        BY <3>3 DEF Typed, TypeOK
      <4> QED BY <4>1, <4>2, FilteredType
    <3>4. CASE marker # "written" /\ trace_f0' \in Located
      BY <3>4 DEF Located
    <3> QED BY <1>4, <3>1, <3>2, <3>3, <3>4 DEF Filter
  <2> QED
    BY <1>4, <2>1 DEF Filter, Abort, Typed, TypeOK, At, Goto, children
<1>5. CASE Simulate
  BY <1>5 DEF Simulate, Typed, TypeOK, At, Goto, Tracing, history, files
<1>6. CASE Collect
  BY <1>6 DEF Collect, Abort, Typed, TypeOK, At, Goto, children, history,
              files, Missing, Emptied
<1>7. CASE Summary
  BY <1>7 DEF Summary, Printed, Typed, TypeOK, At, Goto, children, history, files
<1>8. CASE Communicate
  <2>1. run' \in 1 .. LastTest + 1
    BY <1>8 DEF Communicate, At
  <2> QED
    BY <1>8, <2>1
       DEF Communicate, Typed, TypeOK, At, Goto, children, history, files
<1>9. CASE sigalrm_handler
  BY <1>9 DEF sigalrm_handler, Printed, Typed, TypeOK, At, Goto, children,
              history, files
<1> QED
  BY <1>1, <1>2, <1>3, <1>4, <1>5, <1>6, <1>7, <1>8, <1>9 DEF TestTrans

(* A child changes nothing of test-trans or of another child, and the files*)
(* of a test that is not its own only by disturbing it.                    *)
LEMMA ChildFrame ==
  ASSUME Typed, NEW r \in Runs, Child(r)
  PROVE  /\ UNCHANGED <<run, pc, results, output, shExecs, refused>>
         /\ run \in Runs
         /\ disturbed' \subseteq Runs /\ disturbed \subseteq disturbed'
         /\ \A q \in Runs : q # r => /\ child'[q] = child[q]
                                    /\ status'[q] = status[q]
                                    /\ input'[q] = input[q]
         /\ r = run \/ ~Started \/ run \in disturbed' \/ UNCHANGED files
<1> USE RunsAreNumbers
    DEF Frame, Reads, Writes, Step, Report, harness, Typed, TypeOK
<1>1. ~Done /\ run \in Runs
  <2>1. ~Done
    BY DEF Child, OpenTraceTmp, NotFound, OpenMarker, WriteMarker, Trace,
           ReturnFromTracegen, ReadTrace, OpenResults, WriteResults, Killed
  <2> QED BY <2>1 DEF Done
<1>2. CASE OpenTraceTmp(r) \/ OpenMarker(r) \/ WriteMarker(r)
  BY <1>1, <1>2 DEF OpenTraceTmp, OpenMarker, WriteMarker
<1>3. CASE OpenResults(r) \/ WriteResults(r)
  BY <1>1, <1>3 DEF OpenResults, WriteResults
<1>4. CASE \/ Trace(r, "marked", "traced", "first")
           \/ Trace(r, "traced", "validate", "last")
  BY <1>1, <1>4 DEF Trace
<1>5. CASE NotFound(r)
  BY <1>1, <1>5 DEF NotFound, files
<1>6. CASE ReturnFromTracegen(r)
  BY <1>1, <1>6 DEF ReturnFromTracegen, files
<1>7. CASE ReadTrace(r)
  BY <1>1, <1>7 DEF ReadTrace, files
<1>8. CASE Killed(r)
  BY <1>1, <1>8 DEF Killed, files
<1> QED
  BY <1>2, <1>3, <1>4, <1>5, <1>6, <1>7, <1>8 DEF Child

(* So do the children.                                                     *)
LEMMA TypedChild ==
  ASSUME Typed, NEW r \in Runs, Child(r)
  PROVE  Typed'
<1> USE RunsAreNumbers, ConstantTypes DEF Typed, TypeOK, At, Step
<1>0. /\ run' = run /\ pc' = pc /\ results' = results /\ output' = output
      /\ shExecs' = shExecs /\ refused' = refused
      /\ disturbed' \subseteq Runs
  BY ChildFrame
<1>1. CASE OpenTraceTmp(r)
  BY <1>0, <1>1 DEF OpenTraceTmp, NoFile, Tracing
<1>2. CASE NotFound(r)
  <2>1. /\ child' = [child EXCEPT ![r] = "ended"]
        /\ status' \in [Runs -> {"none", "ok", "failed", "signaled"}]
        /\ r = run /\ pc = "tracegen" => status'[r] = "failed"
        /\ r # run => status'[run] = status[run]
        /\ UNCHANGED <<input, marker, trace_tmp, trace_f0, csim_results>>
    BY <1>0, <1>2 DEF NotFound, Report, files
  <2>2. TypeOK'
    BY <1>0, <2>1
  <2>3. \A q \in Runs : child'[q] \in Tracing => child[q] \in Tracing
    BY <2>1 DEF Tracing
  <2>4. At("tracegen") => /\ child'[run] \in Tracing \cup {"sh", "ended"}
                          /\ child'[run] = "ended" => status'[run] # "none"
    BY <2>1
  <2> HIDE DEF TypeOK
  <2> QED
    BY <1>0, <2>1, <2>2, <2>3, <2>4
<1>3. CASE OpenMarker(r)
  BY <1>0, <1>3 DEF OpenMarker, Tracing
<1>4. CASE WriteMarker(r)
  BY <1>0, <1>4 DEF WriteMarker, Tracing
<1>5. ASSUME NEW from, NEW to, NEW piece, Trace(r, from, to, piece),
             \/ from = "marked" /\ to = "traced" /\ piece = "first"
             \/ from = "traced" /\ to = "validate" /\ piece = "last"
      PROVE  Typed'
  <2>1. trace_tmp # NoFile
    BY <1>5 DEF Trace, Tracing
  <2>2. /\ trace_tmp' # NoFile
        /\ trace_tmp' \subseteq Runs \X {"first", "last"}
    <3>1. trace_tmp' = trace_tmp \cup {<<r, piece>>}
      BY <1>5 DEF Trace
    <3>2. <<r, piece>> \in Runs \X {"first", "last"}
      BY <1>5
    <3>3. <<r, piece>> \notin NoFile
      BY <1>5 DEF NoFile, Nobody
    <3> QED BY <2>1, <3>1, <3>2, <3>3
  <2>3. /\ child' = [child EXCEPT ![r] = to]
        /\ to \in Tracing /\ child[r] \in Tracing
        /\ UNCHANGED <<status, input, marker, trace_f0, csim_results>>
    BY <1>0, <1>5 DEF Trace, Tracing
  <2> QED
    BY <1>0, <1>5, <2>2, <2>3 DEF Tracing
<1>6. CASE ReturnFromTracegen(r)
  <2>1. /\ child' = [child EXCEPT ![r] = "ended"]
        /\ status' \in [Runs -> {"none", "ok", "failed", "signaled"}]
        /\ r = run /\ pc = "tracegen" => status'[r] # "none"
        /\ r # run => status'[run] = status[run]
        /\ UNCHANGED <<input, marker, trace_tmp, trace_f0, csim_results>>
    BY <1>0, <1>6 DEF ReturnFromTracegen, Report, files
  <2>2. TypeOK'
    BY <1>0, <2>1
  <2>3. \A q \in Runs : child'[q] \in Tracing => child[q] \in Tracing
    BY <2>1 DEF Tracing
  <2>4. At("tracegen") => /\ child'[run] \in Tracing \cup {"sh", "ended"}
                          /\ child'[run] = "ended" => status'[run] # "none"
    BY <2>1
  <2> HIDE DEF TypeOK
  <2> QED
    BY <1>0, <2>1, <2>2, <2>3, <2>4
<1>7. CASE ReadTrace(r)
  <2>1. /\ child' = [child EXCEPT ![r] = "count"] /\ child[r] = "csim"
        /\ input' = [input EXCEPT ![r] = trace_f0]
        /\ UNCHANGED <<status, marker, trace_tmp, trace_f0, csim_results>>
    BY <1>7 DEF ReadTrace, files
  <2>2. TypeOK'
    BY <1>0, <2>1
  <2>3. \A q \in Runs : child'[q] \in Tracing => child[q] \in Tracing
    BY <2>1 DEF Tracing
  <2>4. At("tracegen") => r # run /\ child'[run] = child[run]
    BY <2>1 DEF Tracing
  <2>5. \A q \in Runs : input'[q].what = "complete" => input'[q].of \in Runs
    BY <2>1
  <2> HIDE DEF TypeOK
  <2> QED
    BY <1>0, <2>1, <2>2, <2>3, <2>4, <2>5
<1>8. CASE OpenResults(r)
  <2>1. /\ child' = [child EXCEPT ![r] = "write"] /\ child[r] = "count"
        /\ csim_results' = Emptied
        /\ UNCHANGED <<status, input, marker, trace_tmp, trace_f0>>
    BY <1>8 DEF OpenResults
  <2>2. TypeOK'
    BY <1>0, <2>1
  <2>3. \A q \in Runs : child'[q] \in Tracing => child[q] \in Tracing
    BY <2>1 DEF Tracing
  <2>4. At("tracegen") => r # run /\ child'[run] = child[run]
    BY <2>1 DEF Tracing
  <2> HIDE DEF TypeOK
  <2> QED
    BY <1>0, <2>1, <2>2, <2>3, <2>4
<1>9. CASE WriteResults(r)
  <2>1. csim_results' \in Nat
    BY <1>9, CountType DEF WriteResults
  <2>2. /\ child' = [child EXCEPT ![r] = "ended"] /\ child[r] = "write"
        /\ input' = [input EXCEPT ![r] = NoTrace]
        /\ UNCHANGED <<status, marker, trace_tmp, trace_f0>>
    BY <1>9 DEF WriteResults
  <2>3. TypeOK'
    BY <1>0, <2>1, <2>2
  <2>4. \A q \in Runs : child'[q] \in Tracing => child[q] \in Tracing
    BY <2>2 DEF Tracing
  <2>5. At("tracegen") => r # run /\ child'[run] = child[run]
    BY <2>2 DEF Tracing
  <2>6. \A q \in Runs : input'[q].what = "complete" => input'[q].of \in Runs
    BY <2>2
  <2> HIDE DEF TypeOK
  <2> QED
    BY <1>0, <2>2, <2>3, <2>4, <2>5, <2>6
<1>10. CASE Killed(r)
  BY <1>0, <1>10 DEF Killed, Report, Tracing, files
<1> QED
  BY <1>1, <1>2, <1>3, <1>4, <1>5, <1>6, <1>7, <1>8, <1>9, <1>10 DEF Child

(* And a step in which nothing changes.                                    *)
LEMMA TypedStep == Typed /\ [Next]_vars => Typed'
<1> SUFFICES ASSUME Typed, [Next]_vars PROVE Typed'
  OBVIOUS
<1>1. CASE UNCHANGED vars
  BY <1>1 DEF vars, harness, children, history, files,
      Typed, TypeOK, At
<1> QED
  BY <1>1, TypedMain, TypedChild DEF Next, Ended

(* The harness keeps its types.                                            *)
THEOREM TypeCorrect == Spec => []TypeOK
BY InitTyped, TypedStep, PTL DEF Spec, Typed

----------------------------------------------------------------------------
(* The result of a test says correct only after its status was asked for,  *)
(* and a line is printed as the last thing that test-trans does.           *)
Credited ==
  /\ pc \in {"start", "tracegen", "marker"} => results = Fresh
  /\ run \in Runs /\ (pc = "marker" \/ results.correct = 1) =>
       shExecs \/ status[run] = "ok"
  /\ \A r \in Runs : output[r] # NoLine => r < run \/ (r = run /\ pc = "exited")
  /\ CorrectMeansValidated

(* It is so at the beginning.                                              *)
LEMMA InitCredited == Init => Credited
BY DEF Init, Credited, CorrectMeansValidated, Fresh, NoLine

(* After a status other than that of a success no marker is looked for,    *)
(* unless sh has become the command that was killed.                       *)
LEMMA FlagOk ==
  ASSUME Typed, Validated, pc' = "marker"
  PROVE  shExecs \/ status[run] = "ok"
BY DEF Typed, TypeOK, Validated, At, Goto, flag

(* test-trans and driver.py keep to it.                                    *)
LEMMA CreditedMain ==
  ASSUME Typed, Credited, TestTrans \/ sigalrm_handler
  PROVE  Credited'
<1> USE RunsAreNumbers DEF Credited, CorrectMeansValidated, At, Goto
<1>1. CASE Start
  BY <1>1 DEF Start, Fresh
<1>2. CASE Validated
  BY <1>2, FlagOk DEF Validated, Fresh, children
<1>3. CASE ReadMarker
  BY <1>3 DEF ReadMarker, Abort, Fresh, children
<1>4. CASE Filter
  BY <1>4 DEF Filter, Abort, children
<1>5. CASE Simulate
  BY <1>5 DEF Simulate
<1>6. CASE Collect
  <2>1. results'.correct = results.correct
    BY <1>6 DEF Collect, Abort, Typed, TypeOK
  <2> QED
    BY <1>6, <2>1 DEF Collect, Abort, children
<1>7. CASE Summary
  <2>1. /\ run \in Runs /\ pc' = "exited"
        /\ UNCHANGED <<run, results, shExecs, status>>
        /\ \A r \in Runs : /\ r # run => output'[r] = output[r]
                           /\ r = run => output'[r] \in {results, output[r]}
    BY <1>7 DEF Summary, Printed, children, Typed, TypeOK
  <2>2. \A r \in Runs : output[r] # NoLine => r < run
    BY <1>7 DEF Summary
  <2> QED
    BY <2>1, <2>2
<1>8. CASE Communicate
  BY <1>8 DEF Communicate, children, Fresh, Typed, TypeOK
<1>9. CASE sigalrm_handler
  BY <1>9 DEF sigalrm_handler, Printed, children, Typed, TypeOK
<1> QED
  BY <1>1, <1>2, <1>3, <1>4, <1>5, <1>6, <1>7, <1>8, <1>9 DEF TestTrans

(* A child changes only its own status, and only while it is waited for as *)
(* the child that traces.                                                  *)
LEMMA StatusOfChild ==
  ASSUME Typed, NEW r \in Runs, Child(r)
  PROVE  /\ UNCHANGED <<run, pc, results, output, shExecs>>
         /\ \A q \in Runs :
              q # run \/ pc # "tracegen" => status'[q] = status[q]
<1> USE DEF Frame, Reads, Writes, harness, Report, Typed, TypeOK
<1>1. CASE OpenTraceTmp(r) \/ OpenMarker(r) \/ WriteMarker(r)
           \/ ReadTrace(r) \/ OpenResults(r) \/ WriteResults(r)
  BY <1>1 DEF OpenTraceTmp, OpenMarker, WriteMarker, ReadTrace, OpenResults,
              WriteResults
<1>2. CASE \/ Trace(r, "marked", "traced", "first")
           \/ Trace(r, "traced", "validate", "last")
  BY <1>2 DEF Trace
<1>3. CASE NotFound(r) \/ ReturnFromTracegen(r) \/ Killed(r)
  BY <1>3 DEF NotFound, ReturnFromTracegen, Killed
<1> QED
  BY <1>1, <1>2, <1>3 DEF Child

(* So nothing that happens to a child makes its test correct.              *)
LEMMA CreditedStep == Typed /\ Credited /\ [Next]_vars => Credited'
<1> SUFFICES ASSUME Typed, Credited, [Next]_vars PROVE Credited'
  OBVIOUS
<1>1. CASE UNCHANGED vars
  BY <1>1 DEF vars, harness, children, history, files,
      Credited, CorrectMeansValidated
<1>2. ASSUME NEW r \in Runs, Child(r) PROVE Credited'
  BY <1>2, StatusOfChild, RunsAreNumbers
     DEF Credited, CorrectMeansValidated, Fresh
<1> QED
  BY <1>1, <1>2, CreditedMain DEF Next, Ended

(* A transpose that was not validated is not reported as correct, when sh  *)
(* stays to say how its command ended.                                     *)
THEOREM Validation == Spec => []CorrectMeansValidated
<1>1. Credited => CorrectMeansValidated
  BY DEF Credited
<1> QED
  BY <1>1, InitTyped, TypedStep, InitCredited, CreditedStep, PTL DEF Spec

----------------------------------------------------------------------------
(* What the files hold while an undisturbed test runs.                     *)
Running == run \in Runs \ disturbed /\ pc \notin {"start", "exited"}

Traced(r) == marker = "written" /\ trace_tmp = Pieces(r)

(* While tracegen runs, and when it has ended well.                        *)
InTracegen(r) ==
  /\ child[r] \in {"start", "mark", "marked"} => trace_tmp = {}
  /\ child[r] \in {"marked", "traced"} => marker = "written"
  /\ child[r] = "traced" => trace_tmp = {<<r, "first">>}
  /\ child[r] = "validate" \/ (child[r] = "ended" /\ status[r] = "ok") =>
       Traced(r)

(* While csim-ref runs, and when it has ended.                             *)
InCsim(r) ==
  /\ child[r] \in {"csim", "count", "write", "ended"}
  /\ trace_f0 = Whole(r)
  /\ child[r] \in {"count", "write"} => input[r] = Whole(r)
  /\ child[r] = "ended" => csim_results = Misses[r]

Counted(r) == [correct |-> 1, misses |-> Misses[r]]

Quiet ==
  Running =>
    /\ pc \in {"marker", "filter", "simulate", "summary"} => ~Alive(run)
    /\ pc = "tracegen" => InTracegen(run)
    /\ pc \in {"marker", "filter"} => Traced(run)
    /\ pc = "simulate" => trace_f0 = Whole(run)
    /\ pc = "csim-ref" => InCsim(run)
    /\ pc = "summary" => results \in {Counted(run), Fresh}

(* A status of a signal that reads as success is that of a disturbed test, *)
(* and the misses are set last.                                            *)
Sound ==
  /\ Quiet
  /\ \A r \in Runs : status[r] = "signaled" /\ shExecs => r \in disturbed
  /\ pc \in {"filter", "simulate", "csim-ref"} =>
       results = [correct |-> 1, misses |-> INT_MAX]

(* It is so at the beginning, where nothing runs.                          *)
LEMMA InitSound == Init => Sound
BY DEF Init, Sound, Quiet, Running

(* test-trans passes from one file to the next.                            *)
LEMMA SoundMain ==
  ASSUME Typed, Credited, Sound, TestTrans \/ sigalrm_handler
  PROVE  Sound'
<1> USE RunsAreNumbers DEF Sound, At, Goto, history
<1>1. CASE Start
  BY <1>1 DEF Start, Quiet, Running, Alive, InTracegen, Typed, TypeOK, history, files
<1>2. CASE Validated
  <2>1. Running' => Running /\ ~Alive(run)
    BY <1>2 DEF Validated, Running, Alive
  <2>2. Running /\ pc' = "marker" => Traced(run)
    BY <1>2 DEF Validated, Running, Quiet, InTracegen, flag, Typed, TypeOK
  <2>3. results = Fresh /\ pc' \in {"marker", "summary"}
    BY <1>2 DEF Validated, Credited
  <2> QED
    BY <1>2, <2>1, <2>2, <2>3
       DEF Validated, Quiet, Running, Alive, Traced, children, history, files
<1>3. CASE ReadMarker
  <2>1. pc' = "filter" => results' = [correct |-> 1, misses |-> INT_MAX]
    BY <1>3 DEF ReadMarker, Abort, Credited, Fresh
  <2> QED
    BY <1>3, <2>1 DEF ReadMarker, Abort, Quiet, Running, Alive, Traced,
                      children, history, files
<1>4. CASE Filter
  <2>1. Running /\ pc' = "simulate" => trace_f0' = Whole(run)
    <3> SUFFICES ASSUME Running, pc' = "simulate"
                 PROVE  trace_f0' = Whole(run)
      OBVIOUS
    <3>1. Traced(run) /\ run \in Runs
      BY <1>4 DEF Filter, Quiet, Running
    <3>2. trace_f0' \in Filtered(Pieces(run))
      BY <1>4, <3>1 DEF Filter, Located, Abort, Goto, Traced
    <3> QED
      BY <3>1, <3>2, FilteredWhole
  <2> QED
    BY <1>4, <2>1 DEF Filter, Abort, Quiet, Running, Alive, children
<1>5. CASE Simulate
  BY <1>5 DEF Simulate, Quiet, Running, Alive, InCsim, Typed, TypeOK, history, files
<1>6. CASE Collect
  <2>1. Running /\ pc' = "summary" => results' = Counted(run)
    BY <1>6 DEF Collect, Abort, Quiet, Running, InCsim, Counted, Emptied
  <2> QED
    BY <1>6, <2>1 DEF Collect, Abort, Quiet, Running, Alive, children, files
<1>7. CASE Summary \/ Communicate \/ sigalrm_handler
  BY <1>7 DEF Summary, Communicate, sigalrm_handler, Quiet, Running, children
<1> QED
  BY <1>1, <1>2, <1>3, <1>4, <1>5, <1>6, <1>7 DEF TestTrans

(* The child of the test that runs goes on from what it wrote before, and  *)
(* an orphan that writes disturbs it.                                      *)
LEMMA SoundChild ==
  ASSUME Typed, Sound, NEW r \in Runs, Child(r)
  PROVE  Sound'
<1>1. /\ UNCHANGED <<run, pc, results, shExecs>>
      /\ disturbed \subseteq disturbed'
      /\ \A q \in Runs : q # r => /\ child'[q] = child[q]
                                 /\ status'[q] = status[q]
                                 /\ input'[q] = input[q]
      /\ r = run \/ ~Started \/ run \in disturbed' \/ UNCHANGED files
  BY ChildFrame
<1>2. \A q \in Runs : status'[q] = "signaled" /\ shExecs' => q \in disturbed'
  <2> SUFFICES ASSUME status'[r] = "signaled", shExecs PROVE r \in disturbed'
    BY <1>1 DEF Sound
  <2> USE DEF Report, Typed, TypeOK
  <2>1. CASE status'[r] = status[r]
    BY <1>1, <2>1 DEF Sound
  <2>2. CASE NotFound(r) \/ ReturnFromTracegen(r) \/ Killed(r)
    BY <1>1, <2>2 DEF NotFound, ReturnFromTracegen, Killed, Sound
  <2>3. CASE \/ OpenTraceTmp(r) \/ OpenMarker(r) \/ WriteMarker(r)
             \/ ReadTrace(r) \/ OpenResults(r) \/ WriteResults(r)
             \/ Trace(r, "marked", "traced", "first")
             \/ Trace(r, "traced", "validate", "last")
    BY <2>1, <2>3 DEF OpenTraceTmp, OpenMarker, WriteMarker, ReadTrace,
                      OpenResults, WriteResults, Trace
  <2> QED BY <2>2, <2>3 DEF Child
<1>3. Alive(r)
  BY DEF Child, OpenTraceTmp, NotFound, OpenMarker, WriteMarker, Trace,
         ReturnFromTracegen, ReadTrace, OpenResults, WriteResults, Killed,
         Step, Alive
<1>4. Running' => /\ Running
                  /\ r # run => UNCHANGED files
                  /\ pc \in {"marker", "filter", "simulate", "summary"} =>
                       r # run /\ ~Alive(run)'
  BY <1>1, <1>3 DEF Running, Started, Sound, Quiet, Alive
<1>5. Running' /\ pc = "tracegen" => InTracegen(run)'
  <2>0. CASE r # run
    BY <1>1, <1>4, <2>0
       DEF Running, Sound, Quiet, InTracegen, Traced, files
  <2> SUFFICES ASSUME Running', pc = "tracegen", r = run
               PROVE  InTracegen(r)'
    BY <1>1, <2>0
  <2>1. /\ InTracegen(r) /\ r = run /\ r \notin disturbed'
        /\ child[r] \in Tracing \cup {"sh", "ended"}
    <3>1. Running /\ r = run /\ run \in Runs \ disturbed'
      BY <1>1, <1>4 DEF Running
    <3> QED BY <3>1 DEF Sound, Quiet, Typed, At
  <2> USE DEF Step, Typed, TypeOK, InTracegen, Traced
  <2>2. CASE OpenTraceTmp(r) \/ OpenMarker(r) \/ WriteMarker(r)
    BY <2>1, <2>2 DEF OpenTraceTmp, OpenMarker, WriteMarker
  <2>3. CASE Trace(r, "marked", "traced", "first")
    BY <2>1, <2>3 DEF Trace
  <2>4. CASE Trace(r, "traced", "validate", "last")
    BY <2>1, <2>4 DEF Trace, Pieces
  <2>5. CASE NotFound(r)
    BY <2>1, <2>5 DEF NotFound, Report
  <2>6. CASE ReturnFromTracegen(r)
    BY <2>1, <2>6 DEF ReturnFromTracegen, Report, files
  <2>7. CASE Killed(r)
    BY <2>1, <2>7 DEF Killed, Report
  <2>8. CASE ReadTrace(r) \/ OpenResults(r) \/ WriteResults(r)
    BY <2>1, <2>8 DEF ReadTrace, OpenResults, WriteResults, Tracing
  <2> QED BY <2>2, <2>3, <2>4, <2>5, <2>6, <2>7, <2>8 DEF Child
<1>6. Running' /\ pc = "csim-ref" => InCsim(run)'
  <2>0. CASE r # run
    BY <1>1, <1>4, <2>0 DEF Running, Sound, Quiet, InCsim, files
  <2> SUFFICES ASSUME Running', pc = "csim-ref", r = run PROVE InCsim(r)'
    BY <1>1, <2>0
  <2>1. InCsim(r) /\ r = run /\ r \notin disturbed'
    <3>1. Running /\ r = run /\ run \in Runs \ disturbed'
      BY <1>1, <1>4 DEF Running
    <3> QED BY <3>1 DEF Sound, Quiet
  <2> USE DEF Step, Typed, TypeOK, InCsim
  <2>2. CASE ReadTrace(r) \/ OpenResults(r)
    BY <2>1, <2>2 DEF ReadTrace, OpenResults, files
  <2>3. CASE WriteResults(r)
    BY <2>1, <2>3 DEF WriteResults, Count, Whole
  <2>4. CASE \/ OpenTraceTmp(r) \/ OpenMarker(r) \/ WriteMarker(r)
             \/ Trace(r, "marked", "traced", "first")
             \/ Trace(r, "traced", "validate", "last")
             \/ NotFound(r) \/ ReturnFromTracegen(r) \/ Killed(r)
    BY <2>1, <2>4 DEF OpenTraceTmp, OpenMarker, WriteMarker, Trace, NotFound,
                      ReturnFromTracegen, Killed
  <2> QED BY <2>2, <2>3, <2>4 DEF Child
<1>7. Quiet'
  <2> SUFFICES ASSUME Running' PROVE Quiet'
    BY DEF Quiet
  <2>1. Running /\ Quiet
    BY <1>4 DEF Sound
  <2>2. pc \in {"marker", "filter"} => Traced(run)'
    BY <1>1, <1>4, <2>1 DEF Quiet, Traced, files
  <2>3. pc = "simulate" => (trace_f0 = Whole(run))'
    BY <1>1, <1>4, <2>1 DEF Quiet, Whole, files
  <2>4. pc = "summary" => (results \in {Counted(run), Fresh})'
    BY <1>1, <2>1 DEF Quiet, Counted
  <2> QED
    BY <1>1, <1>4, <1>5, <1>6, <2>2, <2>3, <2>4 DEF Quiet
<1> QED
  BY <1>1, <1>2, <1>7 DEF Sound

(* Nor does a step in which nothing changes disturb it.                    *)
LEMMA SoundStep == Typed /\ Credited /\ Sound /\ [Next]_vars => Sound'
<1> SUFFICES ASSUME Typed, Credited, Sound, [Next]_vars PROVE Sound'
  OBVIOUS
<1>1. CASE UNCHANGED vars
  BY <1>1 DEF vars, harness, children, history, files,
      Sound, Quiet, Running, Alive,
              InTracegen, InCsim, Traced
<1> QED
  BY <1>1, SoundMain, SoundChild DEF Next, Ended

----------------------------------------------------------------------------
(* An undisturbed test that has ended has printed a line, which is that of *)
(* its own trace, of a transpose that is not correct, or of the alarm, or  *)
(* it could not open its trace.f0.                                         *)
Reported ==
  \A r \in Runs \ disturbed :
    /\ output[r] # NoLine => output[r] \in {Counted(r), Fresh, Timeout}
    /\ r < run \/ (r = run /\ pc = "exited") =>
         output[r] # NoLine \/ r \in refused

(* It is so at the beginning, when no test has ended.                      *)
LEMMA InitReported == Init => Reported
BY RunsAreNumbers DEF Init, Reported

(* What is printed is what Sound says, and an assertion that fails would   *)
(* contradict it.                                                          *)
LEMMA ReportedMain ==
  ASSUME Typed, Credited, Sound, Reported, TestTrans \/ sigalrm_handler
  PROVE  Reported'
<1> USE RunsAreNumbers DEF Reported, At, Goto, history
<1>1. CASE Start \/ Validated \/ Simulate
  BY <1>1 DEF Start, Validated, Simulate
<1>2. CASE ReadMarker
  <2>1. run \notin disturbed => pc' # "exited"
    BY <1>2 DEF ReadMarker, Sound, Quiet, Running, Traced
  <2> QED
    BY <1>2, <2>1 DEF ReadMarker
<1>3. CASE Filter
  <2>1. run \notin disturbed => pc' # "exited" \/ run \in refused'
    BY <1>3, PiecesAreThere DEF Filter, Sound, Quiet, Running, Traced
  <2> QED
    BY <1>3, <2>1 DEF Filter
<1>4. CASE Collect
  <2>1. run \notin disturbed => pc' # "exited"
    BY <1>4 DEF Collect, Sound, Quiet, Running, InCsim, Missing
  <2> QED
    BY <1>4, <2>1 DEF Collect
<1>5. CASE Summary
  <2>1. run \notin disturbed => results \in {Counted(run), Fresh}
    BY <1>5 DEF Summary, Sound, Quiet, Running
  <2>2. /\ run \in Runs /\ run' = run /\ UNCHANGED <<disturbed, refused>>
        /\ results # NoLine
        /\ \A r \in Runs : r # run => output'[r] = output[r]
        /\ output'[run] = IF output[run] = NoLine THEN results
                          ELSE output[run]
    BY <1>5 DEF Summary, Printed, Typed, TypeOK, NoLine
  <2> QED
    BY <2>1, <2>2 DEF Typed, TypeOK
<1>6. CASE sigalrm_handler
  <2>1. /\ run \in Runs /\ run' = run /\ UNCHANGED <<disturbed, refused>>
        /\ Timeout # NoLine
        /\ \A r \in Runs : r # run => output'[r] = output[r]
        /\ output'[run] = IF output[run] = NoLine THEN Timeout
                          ELSE output[run]
    BY <1>6 DEF sigalrm_handler, Printed, Typed, TypeOK, NoLine, Timeout
  <2> QED
    BY <2>1 DEF Typed, TypeOK
<1>7. CASE Communicate
  BY <1>7 DEF Communicate, Typed, TypeOK
<1> QED
  BY <1>1, <1>2, <1>3, <1>4, <1>5, <1>6, <1>7 DEF TestTrans

(* No child changes what has been printed.                                 *)
LEMMA ReportedStep ==
  Typed /\ Credited /\ Sound /\ Reported /\ [Next]_vars => Reported'
<1> SUFFICES ASSUME Typed, Credited, Sound, Reported, [Next]_vars
             PROVE  Reported'
  OBVIOUS
<1>1. CASE UNCHANGED vars
  BY <1>1 DEF vars, harness, history, Reported
<1>2. ASSUME NEW r \in Runs, Child(r) PROVE Reported'
  <2>1. disturbed \subseteq disturbed' /\ refused' = refused
    BY <1>2, ChildFrame
  <2> QED
    BY <1>2, <2>1, StatusOfChild DEF Reported
<1> QED
  BY <1>1, <1>2, ReportedMain DEF Next, Ended

(* All of it together.                                                     *)
LEMMA Inductive ==
  Spec => []Typed /\ []Credited /\ []Sound /\ []Reported
BY InitTyped, TypedStep, InitCredited, CreditedStep, InitSound, SoundStep,
   InitReported, ReportedStep, PTL DEF Spec

(* A score is a number.                                                    *)
LEMMA ScoreIsANumber ==
  ASSUME NEW r \in Runs, NEW miss \in Nat
  PROVE  computeMissScore(miss, Tests[r]) \in Int
<1>1. CASE r = 1
  BY <1>1 DEF computeMissScore, Tests
<1>2. CASE r = 2
  BY <1>2 DEF computeMissScore, Tests
<1>3. CASE r = 3
  BY <1>3 DEF computeMissScore, Tests
<1> QED
  BY <1>1, <1>2, <1>3, RunsAreNumbers

(* Full points, but for the rounding, are those of misses in the limit.    *)
LEMMA FullPoints ==
  ASSUME NEW r \in Runs,
         NEW miss \in Nat,
         computeMissScore(miss, Tests[r]) = 10 * Tests[r].max
  PROVE  20 * Tests[r].max * (miss - Tests[r].lower)
           <= Tests[r].upper - Tests[r].lower
<1>1. CASE r = 1
  BY <1>1 DEF computeMissScore, Tests
<1>2. CASE r = 2
  BY <1>2 DEF computeMissScore, Tests
<1>3. CASE r = 3
  BY <1>3 DEF computeMissScore, Tests
<1> QED
  BY <1>1, <1>2, <1>3, RunsAreNumbers

(* The points of an undisturbed test are those of its own trace.           *)
THEOREM Points == Spec => []PointsAreEarned
<1>1. Typed /\ Reported => PointsAreEarned
  <2> SUFFICES ASSUME Typed, Reported, NEW r \in Runs \ disturbed,
                      output[r] # NoLine
               PROVE  /\ output[r] \in {Counted(r), Fresh, Timeout}
                      /\ Score(r) = 10 * Tests[r].max =>
                           20 * Tests[r].max * (Misses[r] - Tests[r].lower)
                             <= Tests[r].upper - Tests[r].lower
    BY DEF PointsAreEarned, Counted
  <2>1. output[r] \in {Counted(r), Fresh, Timeout}
    BY DEF Reported
  <2>2. CASE output[r] = Counted(r)
    <3>1. Misses[r] \in Nat
      BY RunsAreNumbers
    <3>2. /\ output[r].misses = Misses[r] /\ output[r].correct = 1
          /\ computeMissScore(Misses[r], Tests[r]) \in Int
      BY <2>2, <3>1, ScoreIsANumber DEF Counted
    <3>3. Score(r) = computeMissScore(Misses[r], Tests[r])
      BY <3>2 DEF Score
    <3> QED
      BY <2>1, <3>1, <3>3, FullPoints
  <2>3. CASE output[r] \in {Fresh, Timeout}
    <3>1. output[r].correct = 0 /\ output[r].misses \in Nat
      BY <2>3 DEF Fresh, Timeout, INT_MAX
    <3>2. computeMissScore(output[r].misses, Tests[r]) \in Int
      BY <3>1, ScoreIsANumber
    <3>3. Score(r) = 0
      BY <3>1, <3>2 DEF Score
    <3>4. 10 * Tests[r].max # 0
      BY RunsAreNumbers DEF Tests
    <3> QED
      BY <2>1, <3>3, <3>4
  <2> QED
    BY <2>1, <2>2, <2>3
<1> QED
  BY <1>1, Inductive, PTL

(* driver.py dies for want of the line of a test only after that test was  *)
(* disturbed or had no trace.f0: no assertion fails otherwise.             *)
THEOREM CrashCause == Spec => []CrashHasCause
<1>1. Reported => CrashHasCause
  BY RunsAreNumbers DEF Reported, CrashHasCause, Crashed, Done
<1> QED
  BY <1>1, Inductive, PTL
============================================================================
