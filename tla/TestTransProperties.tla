------------------------ MODULE TestTransProperties ------------------------
(***************************************************************************)
(* What the results of the harness may be relied on for.  A test is        *)
(* disturbed if an orphan of an earlier test wrote to a file while it ran, *)
(* if its csim-ref was killed or failed, or if its tracegen was killed     *)
(* under a sh that had become its command.                                 *)
(***************************************************************************)
EXTENDS TestTrans

Timeout == [correct |-> 0, misses |-> 0]

(* An undisturbed test reports the misses of its own whole trace, although *)
(* files of all tests have the same names and are left behind by every     *)
(* test, whole or cut off; although orphans of timed-out tests may be      *)
(* alive; and although the alarm or, where sh reports it, a death of       *)
(* tracegen may end the measurement anywhere.  It gets full points only    *)
(* for misses within the limit, or so few above it that the rounding to    *)
(* tenths hides them (301 for the first test, say): not for the 1427 of    *)
(* the 64x64 transpose, as trans.c:64 expects.                             *)
PointsAreEarned ==
  \A r \in Runs \ disturbed :
    output[r] # NoLine =>
      /\ output[r] \in {[correct |-> 1, misses |-> Misses[r]],
                        Fresh, Timeout}
      /\ Score(r) = 10 * Tests[r].max =>
           20 * Tests[r].max * (Misses[r] - Tests[r].lower)
             <= Tests[r].upper - Tests[r].lower

(* A transpose counts as correct only if tracegen has compared its result  *)
(* with that of correctTrans, when sh stays to report how its command      *)
(* ended.                                                                  *)
CorrectMeansValidated ==
  ~shExecs => \A r \in Runs :
    output[r] # NoLine /\ output[r].correct = 1 => status[r] = "ok"

(* driver.py dies for want of the result line of a test only if that test  *)
(* was disturbed or could not open its trace.f0 for writing.  Otherwise    *)
(* none of the four assertions of test-trans (80, 93, 99, 146) fails, not  *)
(* even in an empty directory.                                             *)
CrashHasCause == \A r \in Runs : Crashed(r) => r \in disturbed \cup refused

----------------------------------------------------------------------------
(* test-trans and driver.py are not held up and the alarm rings.  Nothing  *)
(* is assumed of valgrind and csim-ref, which may hang.                    *)
FairSpec == Spec /\ WF_vars(TestTrans) /\ WF_vars(sigalrm_handler)

(* "Time out and give up after a while" (test-trans.c:242): driver.py gets *)
(* to its end although children hang, unless a sh keeps the pipe open.     *)
DriverFinishes == shExecs => <>Done

----------------------------------------------------------------------------
(* "Checks the correctness [...] of all of the student's transpose         *)
(* functions" (test-trans.c:2): one that was not validated is not correct. *)
NoCreditUnvalidated ==
  \A r \in Runs : output[r] # NoLine /\ output[r].correct = 1 => status[r] = "ok"
============================================================================
