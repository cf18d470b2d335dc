-------------------------------- MODULE Tsh --------------------------------
(***************************************************************************)
(* The tiny shell of shell/tsh.c: its read/eval loop, the three signal     *)
(* handlers that interrupt it, and the children it forks.                  *)
(*                                                                         *)
(* The main loop and the handlers are steps of one thread: stack holds the *)
(* handlers entered and not yet returned from, innermost first; only the   *)
(* innermost runs, and the main loop when stack is empty.  A handler       *)
(* may start between any two steps unless its signal is masked.  A stretch *)
(* of code that runs with all signals blocked is one step.                 *)
(*                                                                         *)
(* The kernel and the children are the environment: a pid moves through    *)
(*   none -> forked -> grouped -> running <-> stopped, and to zombie,      *)
(* where forked is a child before setpgid and grouped one before execve.   *)
(***************************************************************************)
EXTENDS JobTable, Sequences, FiniteSets

CONSTANTS JidBound,  \* bound: no job is started once nextjid exceeds it
          Typed,     \* bound: the signals the user of the terminal sends
          KeysAtOnce \* bound: the keys typed and not yet handled

Forwarded == {"SIGINT", "SIGTSTP"}
Signals   == Forwarded \cup {"SIGCHLD"}

ASSUME JidBoundAssumption == JidBound \in Nat \ {0}
ASSUME TypedAssumption == Typed \subseteq Forwarded

VARIABLES shell,     \* "running", "exited" or "crashed"
          pc,        \* where the main loop is
          cur,       \* main: the local variable pid of eval or do_bgfg
          want,      \* main: "FG" or "BG", the state the command asks for
          slot,      \* main: the local variable job of do_bgfg or waitfg
          blocked,   \* main: SIGCHLD is in the signal mask
          pending,   \* signals sent to the shell and not yet delivered
          stack,     \* handlers entered and not returned from
          hpc,       \* handler -> where it is
          hpid,      \* handler -> its local variable pid or fg_pid
          hstat,     \* sigchld_handler: its local variable status
          proc,      \* pid -> what the process is doing
          evt,       \* pid -> wait status not yet collected by waitpid
          intpend    \* pid -> a SIGINT waits for the stopped process

main     == <<pc, cur, want, slot, blocked>>
handlers == <<stack, hpc, hpid, hstat>>
children == <<proc, evt, intpend>>
vars     == <<table, main, handlers, children, shell, pending>>

Statuses  == {"none", "exited", "signaled", "stopped"}

MainType ==
  /\ pc \in {"prompt", "addjob", "announce", "waitfg", "poll", "cont", "set"}
  /\ cur \in Pids \cup {NoPid}
  /\ want \in {"UNDEF", "FG", "BG"}
  /\ slot \in Slots \cup {NULL}
  /\ blocked \in BOOLEAN

HandlerType ==
  /\ stack \in Seq(Signals)
  /\ hpc \in [Signals -> {"idle", "read", "kill", "wait", "update"}]
  /\ hpid \in [Signals -> Pids \cup {NoPid}]
  /\ hstat \in Statuses

ChildrenType ==
  /\ pending \in SUBSET Signals
  /\ proc \in [Pids -> {"none", "forked", "grouped", "running", "stopped",
                        "zombie"}]
  /\ evt \in [Pids -> Statuses]
  /\ intpend \in [Pids -> BOOLEAN]

TypeOK == /\ shell \in {"running", "exited", "crashed"}
          /\ TableType /\ MainType /\ HandlerType /\ ChildrenType

Init ==
  /\ initjobs
  /\ shell = "running"
  /\ pc = "prompt" /\ cur = NoPid /\ want = "UNDEF" /\ slot = NULL
  /\ blocked = FALSE
  /\ pending = {}
  /\ stack = <<>>
  /\ hpc = [s \in Signals |-> "idle"]
  /\ hpid = [s \in Signals |-> NoPid]
  /\ hstat = "none"
  /\ proc = [p \in Pids |-> "none"]
  /\ evt = [p \in Pids |-> "none"]
  /\ intpend = [p \in Pids |-> FALSE]

----------------------------------------------------------------------------
(* What the kernel does to a child.  Every change of state that a parent   *)
(* can see raises SIGCHLD in the shell.                                    *)
Change(p, st, e, ip) == /\ proc' = [proc EXCEPT ![p] = st]
                        /\ evt' = [evt EXCEPT ![p] = e]
                        /\ intpend' = [intpend EXCEPT ![p] = ip]
                        /\ pending' = pending \cup {"SIGCHLD"}

Die(p, e) == Change(p, "zombie", e, FALSE)

Stop(p) == Change(p, "stopped", "stopped", FALSE)

(* A stop that was not collected yet is forgotten when the process goes    *)
(* on, and a SIGINT that arrived in the meantime takes effect.             *)
Continue(p) == IF intpend[p] THEN Die(p, "signaled")
                             ELSE Change(p, "running", "none", FALSE)

(* kill(-p, sig).  A child that has not called setpgid is in no group of   *)
(* that name; one that has not called execve runs the shell's handlers,    *)
(* which do nothing in the child; a stopped process keeps SIGINT pending;  *)
(* a zombie and a pid that is gone are not affected.                       *)
Kill(p, sig) ==
  LET st == IF p \in Pids THEN proc[p] ELSE "none"
  IN  CASE sig = "SIGINT" /\ st = "running" -> Die(p, "signaled")
        [] sig = "SIGINT" /\ st = "stopped" ->
             /\ intpend' = [intpend EXCEPT ![p] = TRUE]
             /\ UNCHANGED <<proc, evt, pending>>
        [] sig = "SIGTSTP" /\ st = "running" -> Stop(p)
        [] sig = "SIGCONT" /\ st = "stopped" -> Continue(p)
        [] OTHER -> UNCHANGED <<children, pending>>

----------------------------------------------------------------------------
(* The main loop.                                                          *)
At(label) == shell = "running" /\ stack = <<>> /\ pc = label

Goto(label) == pc' = label

(* Back in the read loop: the locals of eval, do_bgfg and waitfg are dead. *)
Prompt == Goto("prompt") /\ cur' = NoPid /\ want' = "UNDEF" /\ slot' = NULL

(* Mutant of Eval: SIGCHLD is not blocked around the fork.                 *)
EvalUnblocked(state) ==
  /\ At("prompt")
  /\ nextjid <= JidBound
  /\ \E p \in Pids : /\ proc[p] = "none"
                     /\ cur' = p
                     /\ proc' = [proc EXCEPT ![p] = "forked"]
  /\ want' = state
  /\ Goto("addjob")
  /\ UNCHANGED <<table, slot, blocked, handlers, evt, intpend, shell, pending>>

(* eval: a command that is not built in is forked with SIGCHLD blocked.    *)
Eval(state) ==
  /\ At("prompt")
  /\ nextjid <= JidBound
  /\ \E p \in Pids : /\ proc[p] = "none"
                     /\ cur' = p
                     /\ proc' = [proc EXCEPT ![p] = "forked"]
  /\ want' = state
  /\ blocked' = TRUE
  /\ Goto("addjob")
  /\ UNCHANGED <<table, slot, handlers, evt, intpend, shell, pending>>

(* eval: fork returns -1, which eval does not test.                        *)
EvalForkFails(state) ==
  /\ At("prompt")
  /\ cur' = NoPid
  /\ want' = state
  /\ blocked' = TRUE
  /\ Goto("addjob")
  /\ UNCHANGED <<table, slot, handlers, children, shell, pending>>

(* Mutant of AddJob: a background job is entered as FG.                    *)
AddJobAlwaysFG ==
  /\ At("addjob")
  /\ addjob(cur, "FG")
  /\ blocked' = FALSE
  /\ Goto(IF want = "FG" THEN "waitfg" ELSE "announce")
  /\ UNCHANGED <<cur, want, slot, handlers, children, shell, pending>>

(* eval: add the child to the table with every signal blocked, then        *)
(* restore the mask saved before SIGCHLD was blocked.                      *)
AddJob ==
  /\ At("addjob")
  /\ addjob(cur, want)
  /\ blocked' = FALSE
  /\ Goto(IF want = "FG" THEN "waitfg" ELSE "announce")
  /\ UNCHANGED <<cur, want, slot, handlers, children, shell, pending>>

(* eval: print the jid of a background job, looked up again by pid.        *)
Announce ==
  /\ At("announce")
  /\ Prompt
  /\ UNCHANGED <<table, blocked, handlers, children, shell, pending>>

(* do_bgfg: find the struct the argument names.  A pid argument is turned  *)
(* into a jid first, so every argument is a jid here; one that names no    *)
(* job is refused and changes nothing.                                     *)
BgfgLookup(state) ==
  /\ At("prompt")
  /\ \E jid \in 1 .. JidBound : /\ getjobjid(jobs, jid) # NULL
                                /\ slot' = getjobjid(jobs, jid)
  /\ cur' = jobs[slot'].pid
  /\ want' = state
  /\ Goto("cont")
  /\ UNCHANGED <<table, blocked, handlers, children, shell, pending>>

(* do_bgfg: wake a job that is marked as stopped.                          *)
BgfgCont ==
  /\ At("cont")
  /\ Kill(cur, IF jobs[slot].state = "ST" THEN "SIGCONT" ELSE "none")
  /\ Goto("set")
  /\ UNCHANGED <<table, cur, want, slot, blocked, handlers, shell>>

(* Mutant of BgfgSet: fg marks the job and does not wait for it.           *)
BgfgSetNoWait ==
  /\ At("set")
  /\ setstate(slot, want)
  /\ Prompt
  /\ UNCHANGED <<blocked, handlers, children, shell, pending>>

(* do_bgfg: mark the job.  The struct may have changed hands since the     *)
(* lookup.                                                                 *)
BgfgSet ==
  /\ At("set")
  /\ setstate(slot, want)
  /\ IF want = "FG" THEN Goto("waitfg") /\ UNCHANGED <<cur, want, slot>>
                    ELSE Prompt
  /\ UNCHANGED <<blocked, handlers, children, shell, pending>>

(* waitfg: find the struct of the pid; without one, return at once.        *)
WaitfgLookup ==
  /\ At("waitfg")
  /\ IF getjobpid(jobs, cur) = NULL
     THEN Prompt
     ELSE /\ slot' = getjobpid(jobs, cur)
          /\ Goto("poll")
          /\ UNCHANGED <<cur, want>>
  /\ UNCHANGED <<table, blocked, handlers, children, shell, pending>>

(* Mutant of WaitfgReturn: the state of the job is not tested.             *)
WaitfgReturnEarly ==
  /\ At("poll")
  /\ Prompt
  /\ UNCHANGED <<table, blocked, handlers, children, shell, pending>>

(* waitfg: sleep (a stuttering step) until the job is no longer FG.        *)
WaitfgReturn ==
  /\ At("poll")
  /\ jobs[slot].state # "FG"
  /\ Prompt
  /\ UNCHANGED <<table, blocked, handlers, children, shell, pending>>

(* quit, end of file on stdin.                                             *)
Quit ==
  /\ At("prompt")
  /\ shell' = "exited"
  /\ UNCHANGED <<table, main, handlers, children, pending>>

----------------------------------------------------------------------------
(* The handlers.                                                           *)

(* The kernel enters the handler of a pending signal that is masked        *)
(* neither by eval nor by its own handler being active.                    *)
Deliver(s) ==
  /\ shell = "running"
  /\ s \in pending
  /\ hpc[s] = "idle"
  /\ s = "SIGCHLD" => ~blocked
  /\ pending' = pending \ {s}
  /\ stack' = <<s>> \o stack
  /\ hpc' = [hpc EXCEPT ![s] = IF s = "SIGCHLD" THEN "wait" ELSE "read"]
  /\ UNCHANGED <<table, main, hpid, hstat, children, shell>>

Innermost(s, label) == /\ shell = "running"
                       /\ stack # <<>> /\ Head(stack) = s
                       /\ hpc[s] = label

Return(s) == /\ stack' = Tail(stack)
             /\ hpc' = [hpc EXCEPT ![s] = "idle"]
             /\ hpid' = [hpid EXCEPT ![s] = NoPid]

(* sigint_handler, sigtstp_handler: read the pid of the foreground job...  *)
ForwardRead(s) ==
  /\ Innermost(s, "read")
  /\ hpid' = [hpid EXCEPT ![s] = fgpid(jobs)]
  /\ hpc' = [hpc EXCEPT ![s] = "kill"]
  /\ UNCHANGED <<table, main, stack, hstat, children, shell, pending>>

(* ...and send the signal to its process group, if there is one.           *)
ForwardKill(s) ==
  /\ Innermost(s, "kill")
  /\ Kill(hpid[s], s)
  /\ Return(s)
  /\ UNCHANGED <<table, main, hstat, shell>>

(* sigchld_handler: waitpid finds a child with an uncollected status...    *)
ChldWait ==
  /\ Innermost("SIGCHLD", "wait")
  /\ \E p \in Pids :
       /\ evt[p] # "none"
       /\ hpid' = [hpid EXCEPT !["SIGCHLD"] = p]
       /\ hstat' = evt[p]
       /\ evt' = [evt EXCEPT ![p] = "none"]
       /\ proc' = [proc EXCEPT ![p] = IF @ = "zombie" THEN "none" ELSE @]
  /\ hpc' = [hpc EXCEPT !["SIGCHLD"] = "update"]
  /\ UNCHANGED <<table, main, stack, intpend, shell, pending>>

(* ...or none, and the handler returns.                                    *)
ChldReturn ==
  /\ Innermost("SIGCHLD", "wait")
  /\ \A p \in Pids : evt[p] = "none"
  /\ Return("SIGCHLD")
  /\ UNCHANGED <<table, main, hstat, children, shell, pending>>

(* Mutant of ChldStopped: a stop is taken for a termination.               *)
ChldStoppedDeletes ==
  /\ Innermost("SIGCHLD", "update")
  /\ hstat = "stopped"
  /\ deletejob(hpid["SIGCHLD"])
  /\ hpc' = [hpc EXCEPT !["SIGCHLD"] = "wait"]
  /\ hpid' = [hpid EXCEPT !["SIGCHLD"] = NoPid]
  /\ hstat' = "none"
  /\ UNCHANGED <<main, stack, children, shell, pending>>

(* Mutant of ChldStopped: the stop is not entered in the table.            *)
ChldStoppedIgnores ==
  /\ Innermost("SIGCHLD", "update")
  /\ hstat = "stopped"
  /\ hpc' = [hpc EXCEPT !["SIGCHLD"] = "wait"]
  /\ hpid' = [hpid EXCEPT !["SIGCHLD"] = NoPid]
  /\ hstat' = "none"
  /\ UNCHANGED <<table, main, stack, children, shell, pending>>

(* sigchld_handler: a stopped job is marked through the pointer getjobpid  *)
(* returns, which is NULL if the job never got a struct.                   *)
ChldStopped ==
  /\ Innermost("SIGCHLD", "update")
  /\ hstat = "stopped"
  /\ LET i == getjobpid(jobs, hpid["SIGCHLD"])
     IN  IF i = NULL THEN shell' = "crashed" /\ UNCHANGED table
                     ELSE setstate(i, "ST") /\ UNCHANGED shell
  /\ hpc' = [hpc EXCEPT !["SIGCHLD"] = "wait"]
  /\ hpid' = [hpid EXCEPT !["SIGCHLD"] = NoPid]
  /\ hstat' = "none"
  /\ UNCHANGED <<main, stack, children, pending>>

(* Mutants of ChldTerminated: only WIFSIGNALED leads to deletejob; waitpid *)
(* is called once, not in a loop.                                          *)
ChldTerminatedKeepsExited ==
  /\ Innermost("SIGCHLD", "update")
  /\ hstat \in {"signaled", "exited"}
  /\ IF hstat = "signaled" THEN deletejob(hpid["SIGCHLD"])
                           ELSE UNCHANGED table
  /\ hpc' = [hpc EXCEPT !["SIGCHLD"] = "wait"]
  /\ hpid' = [hpid EXCEPT !["SIGCHLD"] = NoPid]
  /\ hstat' = "none"
  /\ UNCHANGED <<main, stack, children, shell, pending>>

ChldTerminatedOnce ==
  /\ Innermost("SIGCHLD", "update")
  /\ hstat \in {"signaled", "exited"}
  /\ deletejob(hpid["SIGCHLD"])
  /\ Return("SIGCHLD")
  /\ hstat' = "none"
  /\ UNCHANGED <<main, children, shell, pending>>

(* sigchld_handler: a terminated job is deleted, with all signals blocked. *)
ChldTerminated ==
  /\ Innermost("SIGCHLD", "update")
  /\ hstat \in {"signaled", "exited"}
  /\ deletejob(hpid["SIGCHLD"])
  /\ hpc' = [hpc EXCEPT !["SIGCHLD"] = "wait"]
  /\ hpid' = [hpid EXCEPT !["SIGCHLD"] = NoPid]
  /\ hstat' = "none"
  /\ UNCHANGED <<main, stack, children, shell, pending>>

(* sigquit_handler exits wherever the shell is.                            *)
Sigquit ==
  /\ shell = "running"
  /\ shell' = "exited"
  /\ UNCHANGED <<table, main, handlers, children, pending>>

----------------------------------------------------------------------------
(* The environment: the terminal and the children, while the shell runs.   *)
Env == shell = "running" /\ UNCHANGED <<table, main, handlers, shell>>

KeysInFlight == Cardinality(pending \cap Forwarded)
                + Cardinality({s \in Forwarded : hpc[s] # "idle"})

Keyboard(s) == /\ Env
               /\ s \notin pending
               /\ KeysInFlight < KeysAtOnce
               /\ pending' = pending \cup {s}
               /\ UNCHANGED children

Advance(p, from, to) == /\ proc[p] = from
                        /\ proc' = [proc EXCEPT ![p] = to]
                        /\ UNCHANGED <<evt, intpend, pending>>

Setpgid(p) == Env /\ Advance(p, "forked", "grouped")

Execve(p) == Env /\ Advance(p, "grouped", "running")

ExecveFails(p) == Env /\ proc[p] = "grouped" /\ Die(p, "exited")

Exit(p) == Env /\ proc[p] = "running" /\ Die(p, "exited")

(* Signals from other processes, SIGKILL, SIGSTOP or SIGTSTP, SIGCONT.     *)
Killed(p) == /\ Env
             /\ proc[p] \in {"forked", "grouped", "running", "stopped"}
             /\ Die(p, "signaled")

Stopped(p) == Env /\ proc[p] = "running" /\ Stop(p)

Continued(p) == Env /\ proc[p] = "stopped" /\ Continue(p)

----------------------------------------------------------------------------
Main == \/ \E state \in {"FG", "BG"} :
             Eval(state) \/ EvalForkFails(state) \/ BgfgLookup(state)
        \/ AddJob \/ Announce \/ BgfgCont \/ BgfgSet
        \/ WaitfgLookup \/ WaitfgReturn \/ Quit

Handler(s) == ForwardRead(s) \/ ForwardKill(s)

Sigchld == ChldWait \/ ChldReturn \/ ChldStopped \/ ChldTerminated

Child(p) == \/ Setpgid(p) \/ Execve(p) \/ ExecveFails(p) \/ Exit(p)
            \/ Killed(p) \/ Stopped(p) \/ Continued(p)

(* The shell is gone; what its children do then is not of interest.        *)
Gone == shell # "running" /\ UNCHANGED vars

Next == \/ Main
        \/ \E s \in Signals : Deliver(s)
        \/ \E s \in Forwarded : Handler(s)
        \/ \E s \in Typed : Keyboard(s)
        \/ Sigchld
        \/ Sigquit
        \/ \E p \in Pids : Child(p)
        \/ Gone

Spec == Init /\ [][Next]_vars
============================================================================
