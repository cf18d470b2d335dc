--------------------------- MODULE TshProperties ---------------------------
(***************************************************************************)
(* What must hold of the shell of module Tsh, and what the comments and    *)
(* the tests of the repository say of it.                                  *)
(***************************************************************************)
EXTENDS Tsh

Listed == {jobs[i].pid : i \in Slots} \ {NoPid}

Updating(p) == hpc["SIGCHLD"] = "update" /\ hpid["SIGCHLD"] = p

Waiting(p) == pc \in {"waitfg", "poll"} /\ cur = p

(* No pid is listed twice, so that every helper that looks a job up by pid *)
(* finds the one struct deletejob will clear.                              *)
PidUnique == \A i, k \in Slots :
               jobs[i].pid = jobs[k].pid /\ jobs[i].pid # NoPid => i = k

(* Every job in the table is a child the kernel still knows, except the    *)
(* one whose status sigchld_handler has just collected and is about to     *)
(* delete.  A child that ended before addjob ran would stay in the table   *)
(* forever: this is what blocking SIGCHLD around fork is for.              *)
NoStaleJob == \A p \in Listed : proc[p] # "none" \/ Updating(p)

(* When the table has room for every child, no child is forgotten: what    *)
(* the kernel still knows is listed, but for the child between fork and    *)
(* addjob.                                                                 *)
EveryChildListed ==
  Cardinality(Pids) <= MAXJOBS =>
    \A p \in Pids :
      proc[p] # "none" => p \in Listed \/ (pc = "addjob" /\ cur = p)

(* With that room the shell survives whatever its children do: the struct  *)
(* of a child that stops is found, so sigchld_handler does not write       *)
(* through the NULL of getjobpid.  With less room the result of addjob is  *)
(* not tested and the pointer is NULL.                                     *)
SurvivesWithRoom == Cardinality(Pids) <= MAXJOBS => shell # "crashed"

(* SIGCHLD does not queue, yet no status is lost: while a child has one    *)
(* that was not collected, SIGCHLD is pending or its handler is still in   *)
(* its loop.                                                               *)
NoLostStatus == \A p \in Pids :
                  evt[p] # "none" => \/ "SIGCHLD" \in pending
                                     \/ hpc["SIGCHLD"] # "idle"

(* A job is marked FG only while the main loop waits for it in waitfg.     *)
ForegroundIsAwaited ==
  \A i \in Slots : jobs[i].pid # NoPid /\ jobs[i].state = "FG"
                     => Waiting(jobs[i].pid)

(* A ctrl-c or ctrl-z changes no process but the one the main loop waits   *)
(* for, although the handler uses the pid after the table may have been    *)
(* changed by a SIGCHLD.                                                   *)
OthersUndisturbed ==
  [][\A s \in Forwarded, p \in Pids :
       /\ hpc[s] = "kill" /\ hpc'[s] = "idle"
       /\ <<proc[p], intpend[p]>>' # <<proc[p], intpend[p]>>
       => Waiting(p)]_vars

(* The table, read pid by pid, is the abstract job control.                *)
jobKind == [p \in Pids |-> LET i == getjobpid(jobs, p)
                           IN  IF i = NULL THEN "none" ELSE jobs[i].state]

JC == INSTANCE JobControl WITH job <- jobKind

(* Every step of the shell is a step of abstract job control or changes    *)
(* nothing there: a job starts, stops, is resumed and ends, and at most    *)
(* one live job is in the foreground.                                      *)
ImplementsJobControl == JC!Spec

----------------------------------------------------------------------------
(* Liveness.  The kernel delivers an unmasked pending signal, and neither  *)
(* the main loop nor a handler is preempted forever by other handlers:     *)
(* signals do not arrive infinitely fast.  Children and user owe nothing.  *)
Fairness == /\ SF_vars(Deliver("SIGCHLD"))
            /\ SF_vars(Sigchld)
            /\ SF_vars(\E s \in Forwarded : Handler(s))
            /\ SF_vars(\/ AddJob \/ Announce \/ BgfgCont \/ BgfgSet
                       \/ WaitfgLookup \/ WaitfgReturn)

FairSpec == Spec /\ Fairness

Up == shell = "running"

(* From some point on waitpid has no stop to report.  Otherwise it might   *)
(* forever be handed the stops of another child.  Children that have       *)
(* stopped may stay so, as a job does that ctrl-z has stopped.             *)
StopsEnd == <>[](\A q \in Pids : evt[q] # "stopped")

(* Unless children stop again and again, every child that has ended is     *)
(* reaped, also when one SIGCHLD stood for several ends.                   *)
ZombiesReaped ==
  StopsEnd => \A p \in Pids : (Up /\ proc[p] = "zombie")
                                 ~> (proc[p] # "zombie" \/ ~Up)

(* waitfg returns when the foreground process has ended.                   *)
Ended(p) == p \in Pids => proc[p] \in {"zombie", "none"}

PromptReturns ==
  StopsEnd => (Up /\ pc \in {"waitfg", "poll"} /\ Ended(cur))
                ~> (pc = "prompt" \/ ~Up)

(* ctrl-z gives the prompt back: a stop that is collected while waitfg     *)
(* polls ends the wait, although the handler's ST is one plain write.  A   *)
(* stop collected before do_bgfg writes FG is overwritten: then waitfg     *)
(* polls a job that stays stopped.                                         *)
OthersAreQuiet(p) == <>[](\A q \in Pids \ {p} : evt[q] = "none")

StopReleasesPrompt ==
  \A p \in Pids :
    OthersAreQuiet(p) =>
      (Up /\ Waiting(p) /\ evt[p] = "stopped")
         ~> (pc = "prompt" \/ proc[p] # "stopped" \/ ~Up)

----------------------------------------------------------------------------
(* What the source says and the code does not do.                          *)

(* "At most 1 job can be in the FG state" (tsh.c:35), counting every       *)
(* struct of the table as fgpid does.                                      *)
AtMostOneFG == Cardinality({i \in Slots : jobs[i].state = "FG"}) <= 1

(* sigint_handler: "Catch it and send it along to the foreground job"      *)
(* (tsh.c:396-398).  A foreground child that has not ended gets it.        *)
CtrlCReachesForeground ==
  [][\A p \in Pids :
       /\ hpc["SIGINT"] = "kill" /\ hpc'["SIGINT"] = "idle"
       /\ hpid["SIGINT"] = p /\ proc[p] \in {"forked", "grouped", "running"}
       => proc'[p] = "zombie"]_vars

============================================================================
