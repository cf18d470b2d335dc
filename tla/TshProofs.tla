----------------------------- MODULE TshProofs -----------------------------
(***************************************************************************)
(* Theorems about the shell, for every set of pids, every table size and   *)
(* every choice of the bounds.                                             *)
(***************************************************************************)
EXTENDS TshProperties, JobTableProofs, FiniteSetTheorems

(* The uncollected status of a child agrees with what the child is doing.  *)
EvtMatches ==
  \A p \in Pids :
    \/ evt[p] = "none" /\ proc[p] # "zombie"
    \/ evt[p] = "stopped" /\ proc[p] = "stopped"
    \/ evt[p] \in {"exited", "signaled"} /\ proc[p] = "zombie"

(* A handler that has been entered is on the stack, at a label of its own. *)
Frames == /\ \A s \in Signals :
               hpc[s] # "idle" => \E n \in 1 .. Len(stack) : stack[n] = s
          /\ hpc["SIGCHLD"] \in {"idle", "wait", "update"}
          /\ \A s \in Forwarded : hpc[s] \in {"idle", "read", "kill"}

Base == TypeOK /\ EvtMatches /\ Frames

(* What a signal, or a step of a child, does to the children: none is      *)
(* created or reaped, and a new status raises SIGCHLD.                     *)
KernelMove ==
  /\ ChildrenType'
  /\ EvtMatches'
  /\ \A q \in Pids : proc[q] = "none" <=> proc'[q] = "none"
  /\ pending \subseteq pending'
  /\ \A q \in Pids : evt'[q] # "none" =>
       evt[q] # "none" \/ "SIGCHLD" \in pending'

(* A change of a child that agrees with its wait status is a move of the   *)
(* kernel.                                                                 *)
LEMMA ChangeMove ==
  ASSUME ChildrenType, EvtMatches, NEW p \in Pids, NEW st, NEW e,
         NEW ip \in BOOLEAN, proc[p] # "none",
         \/ st = "zombie" /\ e \in {"exited", "signaled"}
         \/ st = "stopped" /\ e = "stopped"
         \/ st = "running" /\ e = "none",
         Change(p, st, e, ip)
  PROVE  KernelMove
BY DEF ChildrenType, EvtMatches, Change, KernelMove, Signals, Statuses

(* So is a signal sent by kill, whatever its target does with it.          *)
LEMMA KillMove ==
  ASSUME ChildrenType, EvtMatches, NEW p \in Pids \cup {NoPid}, NEW sig,
         Kill(p, sig)
  PROVE  KernelMove
<1> DEFINE st == IF p \in Pids THEN proc[p] ELSE "none"
<1>1. CASE sig = "SIGINT" /\ st = "running"
  BY <1>1, ChangeMove DEF Kill, Die
<1>2. CASE sig = "SIGINT" /\ st = "stopped"
  BY <1>2 DEF Kill, ChildrenType, EvtMatches, KernelMove
<1>3. CASE sig = "SIGTSTP" /\ st = "running"
  BY <1>3, ChangeMove DEF Kill, Stop
<1>4. CASE sig = "SIGCONT" /\ st = "stopped"
  <2>1. Continue(p)
    BY <1>4 DEF Kill
  <2> QED BY <1>4, <2>1, ChangeMove DEF Continue, Die
<1>5. CASE /\ ~(sig = "SIGINT" /\ st = "running")
           /\ ~(sig = "SIGINT" /\ st = "stopped")
           /\ ~(sig = "SIGTSTP" /\ st = "running")
           /\ ~(sig = "SIGCONT" /\ st = "stopped")
  BY <1>5 DEF Kill, ChildrenType, EvtMatches, KernelMove, children
<1> QED BY <1>1, <1>2, <1>3, <1>4, <1>5

(* So is every step of a child of its own; it leaves the shell alone.      *)
LEMMA ChildMove ==
  ASSUME ChildrenType, EvtMatches, NEW p \in Pids, Child(p)
  PROVE  KernelMove /\ UNCHANGED <<table, main, handlers, shell>>
<1>1. UNCHANGED <<table, main, handlers, shell>>
  BY DEF Child, Env, Setpgid, Execve, ExecveFails, Exit, Killed, Stopped,
         Continued
<1> SUFFICES KernelMove
  BY <1>1
<1>2. ASSUME NEW from \in {"forked", "grouped"}, NEW to \in {"grouped", "running"},
             Advance(p, from, to)
      PROVE  KernelMove
  BY <1>2 DEF Advance, ChildrenType, EvtMatches, KernelMove
<1>3. CASE Setpgid(p) \/ Execve(p)
  BY <1>2, <1>3 DEF Setpgid, Execve
<1>4. CASE ExecveFails(p) \/ Exit(p) \/ Killed(p)
  BY <1>4, ChangeMove DEF ExecveFails, Exit, Killed, Die
<1>5. CASE Stopped(p)
  BY <1>5, ChangeMove DEF Stopped, Stop
<1>6. CASE Continued(p)
  BY <1>6, ChangeMove DEF Continued, Continue, Die
<1> QED BY <1>3, <1>4, <1>5, <1>6 DEF Child

----------------------------------------------------------------------------
(* Entering a handler pushes it, returning pops it, and a label change of  *)
(* the innermost handler leaves the stack alone.                           *)
LEMMA DeliverFrames ==
  ASSUME HandlerType, Frames, NEW s \in Signals, Deliver(s)
  PROVE  HandlerType' /\ Frames'
<1>1. /\ stack' = <<s>> \o stack
      /\ hpc' = [hpc EXCEPT ![s] = IF s = "SIGCHLD" THEN "wait" ELSE "read"]
      /\ UNCHANGED <<hpid, hstat>>
  BY DEF Deliver
<1>2. /\ stack' \in Seq(Signals)
      /\ Len(stack) \in Nat
      /\ Len(stack') = Len(stack) + 1
      /\ stack'[1] = s
      /\ \A n \in 1 .. Len(stack) : stack'[n + 1] = stack[n]
  BY <1>1 DEF HandlerType
<1>3. HandlerType'
  BY <1>1, <1>2 DEF HandlerType, Signals, Forwarded
<1>4. ASSUME NEW t \in Signals, hpc'[t] # "idle"
      PROVE  \E n \in 1 .. Len(stack') : stack'[n] = t
  <2>1. CASE t = s
    <3>1. 1 \in 1 .. Len(stack')
      BY <1>2
    <3> QED BY <1>2, <2>1, <3>1
  <2>2. CASE t # s
    <3>1. hpc[t] # "idle"
      BY <1>1, <1>4, <2>2 DEF HandlerType
    <3>2. PICK n \in 1 .. Len(stack) : stack[n] = t
      BY <3>1 DEF Frames
    <3>3. n + 1 \in 1 .. Len(stack') /\ stack'[n + 1] = t
      BY <1>2, <3>2
    <3> QED BY <3>3
  <2> QED BY <2>1, <2>2
<1>5. /\ hpc'["SIGCHLD"] \in {"idle", "wait", "update"}
      /\ \A t \in Forwarded : hpc'[t] \in {"idle", "read", "kill"}
  BY <1>1 DEF Frames, HandlerType, Signals, Forwarded
<1> QED BY <1>3, <1>4, <1>5 DEF Frames

(* The return of the innermost handler pops its frame.                     *)
LEMMA ReturnFrames ==
  ASSUME HandlerType, Frames, NEW s \in Signals, NEW label,
         Innermost(s, label), Return(s), UNCHANGED hstat
  PROVE  HandlerType' /\ Frames'
<1>1. /\ stack' = Tail(stack)
      /\ hpc' = [hpc EXCEPT ![s] = "idle"]
      /\ hpid' = [hpid EXCEPT ![s] = NoPid]
  BY DEF Return
<1>2. Len(stack) \in Nat /\ Len(stack) >= 1 /\ stack[1] = s
  BY DEF Innermost, HandlerType
<1>3. /\ stack' \in Seq(Signals)
      /\ Len(stack') = Len(stack) - 1
      /\ \A n \in 1 .. Len(stack) - 1 : stack'[n] = stack[n + 1]
  BY <1>1, <1>2 DEF HandlerType
<1>4. HandlerType'
  BY <1>1, <1>3 DEF HandlerType
<1>5. ASSUME NEW t \in Signals, hpc'[t] # "idle"
      PROVE  \E n \in 1 .. Len(stack') : stack'[n] = t
  <2>1. t # s /\ hpc[t] # "idle"
    BY <1>1, <1>5 DEF HandlerType
  <2>2. PICK n \in 1 .. Len(stack) : stack[n] = t
    BY <2>1 DEF Frames
  <2>3. n - 1 \in 1 .. Len(stack) - 1 /\ n - 1 + 1 = n
    BY <1>2, <2>1, <2>2
  <2>4. stack'[n - 1] = t
    BY <1>3, <2>2, <2>3
  <2>5. n - 1 \in 1 .. Len(stack')
    BY <1>3, <2>3
  <2> QED BY <2>4, <2>5
<1>6. /\ hpc'["SIGCHLD"] \in {"idle", "wait", "update"}
      /\ \A t \in Forwarded : hpc'[t] \in {"idle", "read", "kill"}
  BY <1>1 DEF Frames, HandlerType, Signals, Forwarded
<1> QED BY <1>4, <1>5, <1>6 DEF Frames

(* A step inside the innermost handler leaves the frames as they are.      *)
LEMMA RelabelFrames ==
  ASSUME HandlerType, Frames, NEW s \in Signals, NEW from, NEW to,
         NEW p \in Pids \cup {NoPid}, Innermost(s, from), from # "idle",
         s = "SIGCHLD" => to \in {"wait", "update"},
         s # "SIGCHLD" => to \in {"read", "kill"},
         hpc' = [hpc EXCEPT ![s] = to], hpid' = [hpid EXCEPT ![s] = p],
         hstat' \in Statuses, UNCHANGED stack
  PROVE  HandlerType' /\ Frames'
BY DEF Innermost, HandlerType, Frames, Signals, Forwarded

(* With no handler on the stack every handler is idle, so the main loop    *)
(* never runs in the middle of one.                                        *)
LEMMA MainAlone ==
  ASSUME HandlerType, Frames, stack = <<>>, NEW s \in Signals
  PROVE  hpc[s] = "idle"
BY DEF HandlerType, Frames

----------------------------------------------------------------------------
(* The inductive invariant.  Base gives the types and the discipline of    *)
(* the handler stack; the rest relates the table to the main loop's        *)
(* locals, to the children and to what the handlers hold.                  *)

LiveStates == \A i \in Slots : jobs[i].pid # NoPid => jobs[i].state # "UNDEF"

(* sigchld_handler between waitpid and the table: a terminated child is    *)
(* gone, a stopped one is not.                                             *)
Collected == hpc["SIGCHLD"] = "update" =>
               /\ hpid["SIGCHLD"] \in Pids
               /\ hstat # "none"
               /\ hstat = "stopped" <=> proc[hpid["SIGCHLD"]] # "none"

(* eval between fork and addjob: the child is not listed yet, and cannot   *)
(* have been reaped.                                                       *)
Forking == pc = "addjob" =>
             /\ blocked
             /\ hpc["SIGCHLD"] = "idle"
             /\ want # "UNDEF"
             /\ cur # NoPid => proc[cur] # "none" /\ cur \notin Listed

(* do_bgfg and waitfg hold a struct that is the job's, or was until the    *)
(* job was deleted.                                                        *)
Holding == /\ pc \in {"cont", "set"} => want # "UNDEF"
           /\ pc \in {"cont", "set", "poll"} =>
                /\ slot \in Slots
                /\ jobs[slot].pid \in {cur, NoPid}
                /\ \A i \in Slots :
                     jobs[i].pid = cur /\ cur # NoPid => i = slot

(* A forwarding handler holds no pid, or that of the job waited for.       *)
KillTargets == \A s \in Forwarded :
                 hpc[s] = "kill" /\ hpid[s] # NoPid => Waiting(hpid[s])

TableInv == PidUnique /\ LiveStates /\ NoStaleJob
MainInv  == Forking /\ Holding /\ ForegroundIsAwaited
HandInv  == Collected /\ KillTargets

Ind == Base /\ TableInv /\ MainInv /\ HandInv

(* Steps of the main loop leave the handlers idle.                         *)
LEMMA MainStep ==
  ASSUME Ind, NEW label, At(label), UNCHANGED handlers
  PROVE  /\ HandlerType' /\ Frames' /\ HandInv'
         /\ \A s \in Signals : hpc[s] = "idle" /\ hpc'[s] = "idle"
<1>1. UNCHANGED <<stack, hpc, hpid, hstat>>
  BY DEF handlers
<1>2. HandlerType' /\ Frames'
  BY <1>1 DEF Ind, Base, TypeOK, HandlerType, Frames
<1>3. \A s \in Signals : hpc[s] = "idle"
  BY MainAlone DEF At, Ind, Base, TypeOK
<1> QED BY <1>1, <1>2, <1>3
        DEF HandInv, Collected, KillTargets, Signals, Forwarded

(* The inductive invariant holds when main has started.                    *)
LEMMA InitInd == Init => Ind
<1> SUFFICES ASSUME Init PROVE Ind
  OBVIOUS
<1>1. TableType
  BY InitjobsType DEF Init
<1>2. MainType /\ HandlerType /\ ChildrenType
  <2>1. pc = "prompt" /\ cur = NoPid /\ want = "UNDEF" /\ slot = NULL
    BY DEF Init
  <2>2. blocked = FALSE
    BY DEF Init
  <2>3. MainType
    BY <2>1, <2>2 DEF MainType
  <2>4. HandlerType
    BY DEF Init, HandlerType, Statuses
  <2>5. ChildrenType
    BY DEF Init, ChildrenType, Statuses
  <2> QED BY <2>3, <2>4, <2>5
<1>3. EvtMatches /\ Frames
  BY DEF Init, EvtMatches, Frames, Signals, Forwarded
<1>4. TableInv /\ MainInv /\ HandInv
  BY DEF Init, initjobs, clearjob, TableInv, PidUnique, LiveStates,
         NoStaleJob, Listed, MainInv, Forking, Holding, ForegroundIsAwaited,
         HandInv, Collected, KillTargets, Signals, Forwarded
<1> QED BY <1>1, <1>2, <1>3, <1>4 DEF Ind, Base, TypeOK, Init
----------------------------------------------------------------------------
(* One lemma per action of the main loop.                                  *)
LEMMA EvalStep ==
  ASSUME Ind, NEW state \in {"FG", "BG"}, Eval(state)
  PROVE  Ind'
<1>1. PICK p \in Pids : /\ proc[p] = "none" /\ cur' = p
                        /\ proc' = [proc EXCEPT ![p] = "forked"]
  BY DEF Eval
<1>2. /\ UNCHANGED <<jobs, nextjid, slot, evt, intpend, shell, pending>>
      /\ want' = state /\ blocked' = TRUE /\ pc' = "addjob"
      /\ At("prompt") /\ UNCHANGED handlers /\ pc = "prompt"
  BY DEF Eval, At, Goto, table
<1>3. /\ HandlerType' /\ Frames' /\ HandInv'
      /\ \A s \in Signals : hpc[s] = "idle" /\ hpc'[s] = "idle"
  BY <1>2, MainStep
<1>4. hpc["SIGCHLD"] = "idle" /\ hpc'["SIGCHLD"] = "idle"
  BY <1>3 DEF Signals
<1>5. TableType' /\ MainType' /\ ChildrenType'
  BY <1>1, <1>2 DEF Ind, Base, TypeOK, TableType, MainType, ChildrenType
<1>6. EvtMatches'
  BY <1>1, <1>2 DEF Ind, Base, TypeOK, EvtMatches, ChildrenType
<1>7. p \notin Listed
  BY <1>1, <1>4 DEF Ind, TableInv, NoStaleJob, Updating
<1>8. TableInv'
  BY <1>1, <1>2, <1>4
     DEF Ind, Base, TypeOK, ChildrenType, TableInv, PidUnique, LiveStates,
         NoStaleJob, Listed, Updating
<1>9. MainInv'
  BY <1>1, <1>2, <1>4, <1>7
     DEF Ind, Base, TypeOK, ChildrenType, MainInv, Forking, Holding,
         ForegroundIsAwaited, Waiting, Listed
<1> QED BY <1>2, <1>3, <1>5, <1>6, <1>8, <1>9 DEF Ind, Base, TypeOK

(* eval preserves it when fork fails,                                      *)
LEMMA EvalForkFailsStep ==
  ASSUME Ind, NEW state \in {"FG", "BG"}, EvalForkFails(state)
  PROVE  Ind'
<1>2. /\ UNCHANGED <<jobs, nextjid, slot, proc, evt, intpend, shell, pending>>
      /\ want' = state /\ blocked' = TRUE /\ pc' = "addjob" /\ cur' = NoPid
      /\ At("prompt") /\ UNCHANGED handlers /\ pc = "prompt"
  BY DEF EvalForkFails, At, Goto, table, children
<1>3. /\ HandlerType' /\ Frames' /\ HandInv'
      /\ \A s \in Signals : hpc[s] = "idle" /\ hpc'[s] = "idle"
  BY <1>2, MainStep
<1>4. hpc["SIGCHLD"] = "idle" /\ hpc'["SIGCHLD"] = "idle"
  BY <1>3 DEF Signals
<1>5. TableType' /\ MainType' /\ ChildrenType' /\ EvtMatches'
  BY <1>2 DEF Ind, Base, TypeOK, TableType, MainType, ChildrenType, EvtMatches
<1>8. TableInv'
  BY <1>2, <1>4
     DEF Ind, TableInv, PidUnique, LiveStates, NoStaleJob, Listed, Updating
<1>9. MainInv'
  BY <1>2, <1>4
     DEF Ind, MainInv, Forking, Holding, ForegroundIsAwaited, Waiting
<1> QED BY <1>2, <1>3, <1>5, <1>8, <1>9 DEF Ind, Base, TypeOK

(* and its call of addjob,                                                 *)
LEMMA AddJobStep ==
  ASSUME Ind, AddJob
  PROVE  Ind'
<1>2. /\ UNCHANGED <<cur, want, slot, proc, evt, intpend, shell, pending>>
      /\ blocked' = FALSE /\ addjob(cur, want) /\ pc = "addjob"
      /\ pc' = IF want = "FG" THEN "waitfg" ELSE "announce"
      /\ At("addjob") /\ UNCHANGED handlers
  BY DEF AddJob, At, Goto, children
<1>3. /\ HandlerType' /\ Frames' /\ HandInv'
      /\ \A s \in Signals : hpc[s] = "idle" /\ hpc'[s] = "idle"
  BY <1>2, MainStep
<1>4. hpc["SIGCHLD"] = "idle" /\ hpc'["SIGCHLD"] = "idle"
  BY <1>3 DEF Signals
<1>5. MainType' /\ ChildrenType' /\ EvtMatches'
  BY <1>2 DEF Ind, Base, TypeOK, MainType, ChildrenType, EvtMatches
<1>6. TableType /\ want \in States /\ want # "UNDEF"
  BY <1>2 DEF Ind, Base, TypeOK, MainType, States, MainInv, Forking
<1>7. CASE UNCHANGED table
  <2>1. TableInv'
    BY <1>2, <1>4, <1>7
       DEF Ind, TableInv, PidUnique, LiveStates, NoStaleJob, Listed,
           Updating, table
  <2>2. MainInv'
    BY <1>2, <1>4, <1>7
       DEF Ind, MainInv, Forking, Holding, ForegroundIsAwaited, Waiting, table
  <2> QED BY <1>2, <1>3, <1>5, <1>6, <1>7, <2>1, <2>2
          DEF Ind, Base, TypeOK, table, TableType
<1>8. ASSUME cur \in Pids, NEW i \in Slots, jobs[i].pid = NoPid,
             jobs' = [jobs EXCEPT ![i] = [pid |-> cur, jid |-> nextjid,
                                          state |-> want]]
      PROVE  TableInv' /\ MainInv'
  <2>1. cur \notin Listed /\ proc[cur] # "none" /\ cur # NoPid
    BY <1>2, <1>8, PidsAssumption DEF Ind, MainInv, Forking
  <2>2. \A k \in Slots : jobs[k].pid # cur
    BY <2>1 DEF Listed
  <2>3. PidUnique' /\ LiveStates'
    BY <1>6, <1>8, <2>1, <2>2
       DEF Ind, TableInv, PidUnique, LiveStates, TableType
  <2>4. NoStaleJob'
    BY <1>2, <1>4, <1>6, <1>8, <2>1
       DEF Ind, TableInv, NoStaleJob, Listed, Updating, TableType
  <2>5. MainInv'
    BY <1>2, <1>6, <1>8
       DEF Ind, MainInv, Forking, Holding, ForegroundIsAwaited, Waiting,
           TableType
  <2> QED BY <2>3, <2>4, <2>5 DEF TableInv
<1>9. TableType'
  BY <1>2, <1>6, AddjobEffect
<1>10. TableInv' /\ MainInv'
  <2>1. CASE UNCHANGED table
    BY <1>7, <2>1 DEF Ind
  <2> QED BY <1>2, <1>6, <1>8, <2>1, AddjobEffect
<1> QED BY <1>2, <1>3, <1>5, <1>9, <1>10 DEF Ind, Base, TypeOK

(* and a return to the prompt while no job is FG,                          *)
LEMMA PromptStep ==
  ASSUME Ind, NEW label, At(label), Prompt, label # "prompt",
         UNCHANGED <<table, blocked, handlers, children, shell, pending>>,
         \A i \in Slots : jobs[i].pid # NoPid => jobs[i].state # "FG"
  PROVE  Ind'
<1>2. /\ UNCHANGED <<jobs, nextjid, blocked, proc, evt, intpend, shell, pending>>
      /\ UNCHANGED handlers
      /\ pc' = "prompt" /\ cur' = NoPid /\ want' = "UNDEF" /\ slot' = NULL
  BY DEF Prompt, Goto, table, children
<1>3. /\ HandlerType' /\ Frames' /\ HandInv'
      /\ \A s \in Signals : hpc[s] = "idle" /\ hpc'[s] = "idle"
  BY <1>2, MainStep
<1>4. hpc["SIGCHLD"] = "idle" /\ hpc'["SIGCHLD"] = "idle"
  BY <1>3 DEF Signals
<1>5. TableType' /\ MainType' /\ ChildrenType' /\ EvtMatches'
  BY <1>2 DEF Ind, Base, TypeOK, TableType, MainType, ChildrenType, EvtMatches
<1>6. TableInv'
  BY <1>2, <1>4
     DEF Ind, TableInv, PidUnique, LiveStates, NoStaleJob, Listed, Updating
<1>7. MainInv'
  BY <1>2 DEF MainInv, Forking, Holding, ForegroundIsAwaited
<1> QED BY <1>2, <1>3, <1>5, <1>6, <1>7 DEF Ind, Base, TypeOK

(* and do_bgfg's look at the table,                                        *)
LEMMA BgfgLookupStep ==
  ASSUME Ind, NEW state \in {"FG", "BG"}, BgfgLookup(state)
  PROVE  Ind'
<1>1. PICK jid \in 1 .. JidBound : /\ getjobjid(jobs, jid) # NULL
                                   /\ slot' = getjobjid(jobs, jid)
  BY DEF BgfgLookup
<1>2. /\ UNCHANGED <<jobs, nextjid, blocked, proc, evt, intpend, shell, pending>>
      /\ want' = state /\ pc' = "cont" /\ cur' = jobs[slot'].pid
      /\ At("prompt") /\ UNCHANGED handlers /\ pc = "prompt"
  BY DEF BgfgLookup, At, Goto, table, children
<1>3. /\ HandlerType' /\ Frames' /\ HandInv'
      /\ \A s \in Signals : hpc[s] = "idle" /\ hpc'[s] = "idle"
  BY <1>2, MainStep
<1>4. hpc["SIGCHLD"] = "idle" /\ hpc'["SIGCHLD"] = "idle"
  BY <1>3 DEF Signals
<1>5. slot' \in Slots
  <2>1. jid \in Nat
    BY <1>1, JidBoundAssumption
  <2> QED BY <1>1, <2>1, GetjobjidProperties
<1>6. cur' \in Pids \cup {NoPid}
  BY <1>2, <1>5 DEF Ind, Base, TypeOK, TableType, Job
<1>7. TableType' /\ MainType' /\ ChildrenType' /\ EvtMatches'
  BY <1>2, <1>5, <1>6
     DEF Ind, Base, TypeOK, TableType, MainType, ChildrenType, EvtMatches
<1>8. TableInv'
  BY <1>2, <1>4
     DEF Ind, TableInv, PidUnique, LiveStates, NoStaleJob, Listed, Updating
<1>9. MainInv'
  BY <1>2, <1>5
     DEF Ind, MainInv, Forking, Holding, ForegroundIsAwaited, Waiting,
         TableInv, PidUnique
<1> QED BY <1>2, <1>3, <1>7, <1>8, <1>9 DEF Ind, Base, TypeOK

(* its SIGCONT,                                                            *)
LEMMA BgfgContStep ==
  ASSUME Ind, BgfgCont
  PROVE  Ind'
<1>2. /\ UNCHANGED <<jobs, nextjid, cur, want, slot, blocked, shell>>
      /\ pc' = "set" /\ pc = "cont" /\ At("cont") /\ UNCHANGED handlers
  BY DEF BgfgCont, At, Goto, table
<1>3. /\ HandlerType' /\ Frames' /\ HandInv'
      /\ \A s \in Signals : hpc[s] = "idle" /\ hpc'[s] = "idle"
  BY <1>2, MainStep
<1>4. hpc["SIGCHLD"] = "idle" /\ hpc'["SIGCHLD"] = "idle"
  BY <1>3 DEF Signals
<1>5. KernelMove
  BY KillMove DEF BgfgCont, Ind, Base, TypeOK, MainType
<1>6. TableType' /\ MainType' /\ ChildrenType' /\ EvtMatches'
  BY <1>2, <1>5 DEF Ind, Base, TypeOK, TableType, MainType, KernelMove
<1>7. TableInv'
  BY <1>2, <1>4, <1>5, PidsAssumption
     DEF Ind, Base, TypeOK, TableType, Job, TableInv, PidUnique, LiveStates,
         NoStaleJob, Listed, Updating, KernelMove
<1>8. MainInv'
  BY <1>2
     DEF Ind, MainInv, Forking, Holding, ForegroundIsAwaited, Waiting
<1> QED BY <1>2, <1>3, <1>6, <1>7, <1>8 DEF Ind, Base, TypeOK

(* and its write of the job's state,                                       *)
LEMMA BgfgSetStep ==
  ASSUME Ind, BgfgSet
  PROVE  Ind'
<1>1. /\ UNCHANGED <<blocked, proc, evt, intpend, shell, pending>>
      /\ setstate(slot, want) /\ At("set") /\ UNCHANGED handlers /\ pc = "set"
  BY DEF BgfgSet, At, children
<1>2. \/ want = "FG" /\ pc' = "waitfg" /\ UNCHANGED <<cur, want, slot>>
      \/ /\ want # "FG" /\ pc' = "prompt"
         /\ cur' = NoPid /\ want' = "UNDEF" /\ slot' = NULL
  BY DEF BgfgSet, Goto, Prompt
<1>3. /\ HandlerType' /\ Frames' /\ HandInv'
      /\ \A s \in Signals : hpc[s] = "idle" /\ hpc'[s] = "idle"
  BY <1>1, MainStep
<1>4. hpc["SIGCHLD"] = "idle" /\ hpc'["SIGCHLD"] = "idle"
  BY <1>3 DEF Signals
<1>5. /\ TableType /\ slot \in Slots /\ want \in {"FG", "BG"}
      /\ jobs[slot].pid \in {cur, NoPid}
  BY <1>1 DEF Ind, Base, TypeOK, MainType, MainInv, Holding
<1>6. /\ TableType'
      /\ \A k \in Slots :
           /\ jobs'[k].pid = jobs[k].pid
           /\ jobs'[k].state = IF k = slot THEN want ELSE jobs[k].state
  BY <1>1, <1>5, SetstateEffect DEF States
<1>7. MainType' /\ ChildrenType' /\ EvtMatches'
  BY <1>1, <1>2
     DEF Ind, Base, TypeOK, MainType, ChildrenType, EvtMatches
<1>8. TableInv'
  BY <1>1, <1>4, <1>5, <1>6
     DEF Ind, TableInv, PidUnique, LiveStates, NoStaleJob, Listed, Updating
<1>9. MainInv'
  BY <1>1, <1>2, <1>5, <1>6
     DEF Ind, MainInv, Forking, Holding, ForegroundIsAwaited, Waiting
<1> QED BY <1>1, <1>3, <1>6, <1>7, <1>8, <1>9 DEF Ind, Base, TypeOK

(* and the entry of waitfg,                                                *)
LEMMA WaitfgLookupStep ==
  ASSUME Ind, WaitfgLookup
  PROVE  Ind'
<1>1. /\ UNCHANGED <<table, blocked, handlers, children, shell, pending>>
      /\ At("waitfg") /\ pc = "waitfg"
  BY DEF WaitfgLookup, At
<1>2. CASE getjobpid(jobs, cur) = NULL
  <2>1. \A i \in Slots : jobs[i].pid # NoPid => jobs[i].state # "FG"
    <3>1. ASSUME NEW i \in Slots, jobs[i].pid # NoPid, jobs[i].state = "FG"
          PROVE  FALSE
      <4>1. jobs[i].pid = cur
        BY <3>1 DEF Ind, MainInv, ForegroundIsAwaited, Waiting
      <4>2. cur \in Pids
        BY <3>1, <4>1 DEF Ind, Base, TypeOK, MainType
      <4> QED BY <1>2, <4>1, <4>2, GetjobpidProperties
    <3> QED BY <3>1
  <2>2. Prompt
    BY <1>2 DEF WaitfgLookup
  <2> QED BY <1>1, <2>1, <2>2, PromptStep
<1>3. CASE getjobpid(jobs, cur) # NULL
  <2>1. slot' = getjobpid(jobs, cur) /\ pc' = "poll" /\ UNCHANGED <<cur, want>>
    BY <1>3 DEF WaitfgLookup, Goto
  <2>2. slot' \in Slots /\ jobs[slot'].pid = cur /\ cur \in Pids
    BY <1>3, <2>1, GetjobpidProperties
  <2>3. /\ UNCHANGED <<jobs, nextjid, blocked, proc, evt, intpend, shell,
                        pending>>
        /\ UNCHANGED handlers
    BY <1>1 DEF table, children
  <2>4. /\ HandlerType' /\ Frames' /\ HandInv'
        /\ \A s \in Signals : hpc[s] = "idle" /\ hpc'[s] = "idle"
    BY <1>1, MainStep
  <2>5. hpc["SIGCHLD"] = "idle" /\ hpc'["SIGCHLD"] = "idle"
    BY <2>4 DEF Signals
  <2>6. TableType' /\ MainType' /\ ChildrenType' /\ EvtMatches'
    BY <2>1, <2>2, <2>3
       DEF Ind, Base, TypeOK, TableType, MainType, ChildrenType, EvtMatches
  <2>7. TableInv'
    BY <2>3, <2>5
       DEF Ind, TableInv, PidUnique, LiveStates, NoStaleJob, Listed, Updating
  <2>8. MainInv'
    BY <1>1, <2>1, <2>2, <2>3
       DEF Ind, MainInv, Forking, Holding, ForegroundIsAwaited, Waiting,
           TableInv, PidUnique
  <2> QED BY <2>3, <2>4, <2>6, <2>7, <2>8 DEF Ind, Base, TypeOK
<1> QED BY <1>2, <1>3

(* its return,                                                             *)
LEMMA WaitfgReturnStep ==
  ASSUME Ind, WaitfgReturn
  PROVE  Ind'
<1>1. /\ UNCHANGED <<table, blocked, handlers, children, shell, pending>>
      /\ At("poll") /\ pc = "poll" /\ jobs[slot].state # "FG" /\ Prompt
  BY DEF WaitfgReturn, At
<1>2. \A i \in Slots : jobs[i].pid # NoPid => jobs[i].state # "FG"
  BY <1>1 DEF Ind, MainInv, ForegroundIsAwaited, Waiting, Holding
<1> QED BY <1>1, <1>2, PromptStep

(* and the report of a background job,                                     *)
LEMMA AnnounceStep ==
  ASSUME Ind, Announce
  PROVE  Ind'
<1>1. /\ UNCHANGED <<table, blocked, handlers, children, shell, pending>>
      /\ At("announce") /\ pc = "announce" /\ Prompt
  BY DEF Announce, At
<1>2. \A i \in Slots : jobs[i].pid # NoPid => jobs[i].state # "FG"
  BY <1>1 DEF Ind, MainInv, ForegroundIsAwaited, Waiting
<1> QED BY <1>1, <1>2, PromptStep

(* quit, SIGQUIT and the stuttering steps change at most shell.            *)
LEMMA ExitStep ==
  ASSUME Ind, shell' \in {"running", "exited", "crashed"},
         UNCHANGED <<table, main, handlers, children, pending>>
  PROVE  Ind'
<1>1. UNCHANGED <<jobs, nextjid, pc, cur, want, slot, blocked, stack, hpc,
                  hpid, hstat, proc, evt, intpend, pending>>
  BY DEF table, main, handlers, children
<1>2. Base'
  BY <1>1 DEF Ind, Base, TypeOK, TableType, MainType, HandlerType,
              ChildrenType, EvtMatches, Frames
<1>3. TableInv' /\ MainInv' /\ HandInv'
  BY <1>1 DEF Ind, TableInv, MainInv, HandInv, PidUnique, LiveStates,
              NoStaleJob, Listed, Updating, Forking, Holding,
              ForegroundIsAwaited, Waiting, Collected, KillTargets
<1> QED BY <1>2, <1>3 DEF Ind

(* and so every step of the main program.                                  *)
LEMMA MainInd ==
  ASSUME Ind, Main
  PROVE  Ind'
<1>1. ASSUME NEW state \in {"FG", "BG"},
             Eval(state) \/ EvalForkFails(state) \/ BgfgLookup(state)
      PROVE  Ind'
  BY <1>1, EvalStep, EvalForkFailsStep, BgfgLookupStep
<1>2. CASE Quit
  BY <1>2, ExitStep DEF Quit
<1> QED BY <1>1, <1>2, AddJobStep, AnnounceStep, BgfgContStep, BgfgSetStep,
           WaitfgLookupStep, WaitfgReturnStep DEF Main
----------------------------------------------------------------------------
(* One lemma per action of the handlers and of the environment.            *)
LEMMA DeliverStep ==
  ASSUME Ind, NEW s \in Signals, Deliver(s)
  PROVE  Ind'
<1>1. /\ UNCHANGED <<jobs, nextjid, pc, cur, want, slot, blocked, hpid, hstat,
                     proc, evt, intpend, shell>>
      /\ pending' = pending \ {s}
      /\ hpc' = [hpc EXCEPT ![s] = IF s = "SIGCHLD" THEN "wait" ELSE "read"]
      /\ s = "SIGCHLD" => ~blocked
      /\ hpc[s] = "idle"
  BY DEF Deliver, table, main, children
<1>2. HandlerType' /\ Frames'
  BY DeliverFrames DEF Ind, Base, TypeOK
<1>3. hpc \in [Signals -> {"idle", "read", "kill", "wait", "update"}]
  BY DEF Ind, Base, TypeOK, HandlerType
<1>4. TableType' /\ MainType' /\ ChildrenType' /\ EvtMatches'
  BY <1>1 DEF Ind, Base, TypeOK, TableType, MainType, ChildrenType, EvtMatches
<1>5. TableInv'
  BY <1>1, <1>3
     DEF Ind, TableInv, PidUnique, LiveStates, NoStaleJob, Listed, Updating
<1>6. MainInv'
  BY <1>1, <1>3
     DEF Ind, MainInv, Forking, Holding, ForegroundIsAwaited, Waiting, Listed
<1>7. HandInv'
  BY <1>1, <1>3
     DEF Ind, HandInv, Collected, KillTargets, Waiting, Signals, Forwarded
<1> QED BY <1>1, <1>2, <1>4, <1>5, <1>6, <1>7 DEF Ind, Base, TypeOK

(* sigint_handler and sigtstp_handler preserve it when they read fgpid,    *)
LEMMA ForwardReadStep ==
  ASSUME Ind, NEW s \in Forwarded, ForwardRead(s)
  PROVE  Ind'
<1>1. /\ UNCHANGED <<jobs, nextjid, pc, cur, want, slot, blocked, stack, hstat,
                     proc, evt, intpend, shell, pending>>
      /\ hpid' = [hpid EXCEPT ![s] = fgpid(jobs)]
      /\ hpc' = [hpc EXCEPT ![s] = "kill"]
      /\ Innermost(s, "read")
  BY DEF ForwardRead, table, main, children
<1>2. fgpid(jobs) # NoPid => Waiting(fgpid(jobs))
  BY FgpidProperties DEF Ind, MainInv, ForegroundIsAwaited
<1>3. fgpid(jobs) \in Pids \cup {NoPid}
  BY FgpidProperties DEF Ind, Base, TypeOK, TableType, Job
<1>4. s \in Signals /\ s # "SIGCHLD"
  BY DEF Signals, Forwarded
<1>5. HandlerType' /\ Frames'
  BY <1>1, <1>3, <1>4, RelabelFrames DEF Ind, Base, TypeOK, HandlerType
<1>6. /\ hpc \in [Signals -> {"idle", "read", "kill", "wait", "update"}]
      /\ hpid \in [Signals -> Pids \cup {NoPid}]
  BY DEF Ind, Base, TypeOK, HandlerType
<1>7. TableType' /\ MainType' /\ ChildrenType' /\ EvtMatches'
  BY <1>1 DEF Ind, Base, TypeOK, TableType, MainType, ChildrenType, EvtMatches
<1>8. hpc'["SIGCHLD"] = hpc["SIGCHLD"] /\ hpid'["SIGCHLD"] = hpid["SIGCHLD"]
  BY <1>1, <1>4, <1>6 DEF Signals
<1>9. TableInv' /\ MainInv'
  BY <1>1, <1>8
     DEF Ind, TableInv, PidUnique, LiveStates, NoStaleJob, Listed, Updating,
         MainInv, Forking, Holding, ForegroundIsAwaited, Waiting
<1>10. HandInv'
  <2>1. Collected'
    BY <1>1, <1>8 DEF Ind, HandInv, Collected
  <2>2. KillTargets'
    BY <1>1, <1>2, <1>4, <1>6
       DEF Ind, HandInv, KillTargets, Waiting, Signals, Forwarded
  <2> QED BY <2>1, <2>2 DEF HandInv
<1> QED BY <1>1, <1>5, <1>7, <1>9, <1>10 DEF Ind, Base, TypeOK

(* Whatever moves the children without creating or reaping one, while the  *)
(* table, the main loop and sigchld_handler stand still.                   *)
LEMMA MoveInv ==
  ASSUME Ind, KernelMove,
         UNCHANGED <<jobs, nextjid, pc, cur, want, slot, blocked, hstat, shell>>,
         hpc'["SIGCHLD"] = hpc["SIGCHLD"], hpid'["SIGCHLD"] = hpid["SIGCHLD"]
  PROVE  /\ TableType' /\ MainType' /\ ChildrenType' /\ EvtMatches'
         /\ TableInv' /\ MainInv' /\ Collected'
<1>1. TableType' /\ MainType' /\ ChildrenType' /\ EvtMatches'
  BY DEF Ind, Base, TypeOK, TableType, MainType, KernelMove
<1>2. \A q \in Pids : proc[q] = "none" <=> proc'[q] = "none"
  BY DEF KernelMove
<1>3. PidUnique' /\ LiveStates'
  BY DEF Ind, TableInv, PidUnique, LiveStates
<1>4. NoStaleJob'
  <2>1. \A p \in Listed : p \in Pids
    BY DEF Listed, Ind, Base, TypeOK, TableType, Job
  <2> QED BY <1>2, <2>1 DEF Ind, TableInv, NoStaleJob, Updating, Listed
<1>5. Forking'
  BY <1>2 DEF Ind, Base, TypeOK, MainType, MainInv, Forking, Listed
<1>6. Holding' /\ ForegroundIsAwaited'
  BY DEF Ind, MainInv, Holding, ForegroundIsAwaited, Waiting
<1>7. Collected'
  BY <1>2 DEF Ind, HandInv, Collected
<1> QED BY <1>1, <1>3, <1>4, <1>5, <1>6, <1>7 DEF TableInv, MainInv

(* and when they forward the signal.                                       *)
LEMMA ForwardKillStep ==
  ASSUME Ind, NEW s \in Forwarded, ForwardKill(s)
  PROVE  Ind'
<1>1. /\ UNCHANGED <<jobs, nextjid, pc, cur, want, slot, blocked, hstat, shell>>
      /\ hpid' = [hpid EXCEPT ![s] = NoPid]
      /\ hpc' = [hpc EXCEPT ![s] = "idle"]
      /\ Innermost(s, "kill") /\ Return(s) /\ Kill(hpid[s], s)
  BY DEF ForwardKill, Return, table, main
<1>2. s \in Signals /\ s # "SIGCHLD"
  BY DEF Signals, Forwarded
<1>3. HandlerType' /\ Frames'
  BY <1>1, <1>2, ReturnFrames DEF Ind, Base, TypeOK
<1>4. /\ hpc \in [Signals -> {"idle", "read", "kill", "wait", "update"}]
      /\ hpid \in [Signals -> Pids \cup {NoPid}]
  BY DEF Ind, Base, TypeOK, HandlerType
<1>5. hpc'["SIGCHLD"] = hpc["SIGCHLD"] /\ hpid'["SIGCHLD"] = hpid["SIGCHLD"]
  BY <1>1, <1>2, <1>4 DEF Signals
<1>6. KernelMove
  BY <1>1, <1>2, <1>4, KillMove DEF Ind, Base, TypeOK
<1>7. KillTargets'
  BY <1>1, <1>2, <1>4
     DEF Ind, HandInv, KillTargets, Waiting, Signals, Forwarded
<1> QED BY <1>1, <1>3, <1>5, <1>6, <1>7, MoveInv DEF Ind, Base, TypeOK, HandInv

(* Every step of a child preserves it,                                     *)
LEMMA ChildStep ==
  ASSUME Ind, NEW p \in Pids, Child(p)
  PROVE  Ind'
<1>1. /\ KernelMove
      /\ UNCHANGED <<jobs, nextjid, pc, cur, want, slot, blocked, stack, hpc,
                     hpid, hstat, shell>>
  BY ChildMove DEF Ind, Base, TypeOK, table, main, handlers
<1>2. HandlerType' /\ Frames' /\ KillTargets'
  BY <1>1
     DEF Ind, Base, TypeOK, HandlerType, Frames, HandInv, KillTargets, Waiting
<1> QED BY <1>1, <1>2, MoveInv DEF Ind, Base, TypeOK, HandInv

(* and every key the user types.                                           *)
LEMMA KeyboardStep ==
  ASSUME Ind, NEW s \in Typed, Keyboard(s)
  PROVE  Ind'
<1>1. /\ pending' = pending \cup {s}
      /\ UNCHANGED <<jobs, nextjid, pc, cur, want, slot, blocked, stack, hpc,
                     hpid, hstat, shell, proc, evt, intpend>>
  BY DEF Keyboard, Env, table, main, handlers, children
<1>2. KernelMove
  BY <1>1, TypedAssumption
     DEF KernelMove, Ind, Base, TypeOK, ChildrenType, EvtMatches, Signals
<1>3. HandlerType' /\ Frames' /\ KillTargets'
  BY <1>1
     DEF Ind, Base, TypeOK, HandlerType, Frames, HandInv, KillTargets, Waiting
<1> QED BY <1>1, <1>2, <1>3, MoveInv DEF Ind, Base, TypeOK, HandInv

(* sigchld_handler preserves it when waitpid returns a child,              *)
LEMMA ChldWaitStep ==
  ASSUME Ind, ChldWait
  PROVE  Ind'
<1>1. PICK p \in Pids :
        /\ evt[p] # "none"
        /\ hpid' = [hpid EXCEPT !["SIGCHLD"] = p]
        /\ hstat' = evt[p]
        /\ evt' = [evt EXCEPT ![p] = "none"]
        /\ proc' = [proc EXCEPT ![p] = IF proc[p] = "zombie" THEN "none"
                                                            ELSE proc[p]]
  BY DEF ChldWait
<1>2. /\ UNCHANGED <<jobs, nextjid, pc, cur, want, slot, blocked, stack,
                     intpend, shell, pending>>
      /\ hpc' = [hpc EXCEPT !["SIGCHLD"] = "update"]
      /\ Innermost("SIGCHLD", "wait") /\ hpc["SIGCHLD"] = "wait"
  BY DEF ChldWait, Innermost, table, main
<1>3. "SIGCHLD" \in Signals
  BY DEF Signals
<1>4. /\ hpc \in [Signals -> {"idle", "read", "kill", "wait", "update"}]
      /\ hpid \in [Signals -> Pids \cup {NoPid}]
      /\ evt \in [Pids -> Statuses]
      /\ proc \in [Pids -> {"none", "forked", "grouped", "running", "stopped",
                            "zombie"}]
  BY DEF Ind, Base, TypeOK, HandlerType, ChildrenType
<1>5. hstat' \in Statuses /\ hstat' # "none"
  BY <1>1, <1>4
<1>6. HandlerType' /\ Frames'
  BY <1>1, <1>2, <1>3, <1>5, RelabelFrames DEF Ind, Base, TypeOK
<1>7. TableType' /\ MainType'
  BY <1>2 DEF Ind, Base, TypeOK, TableType, MainType
<1>8. ChildrenType'
  BY <1>1, <1>2, <1>4 DEF Ind, Base, TypeOK, ChildrenType, Statuses
<1>9. EvtMatches'
  BY <1>1, <1>4 DEF Ind, Base, EvtMatches
<1>10. TableInv'
  <2>1. PidUnique' /\ LiveStates'
    BY <1>2 DEF Ind, TableInv, PidUnique, LiveStates
  <2>2. \A q \in Listed : proc[q] # "none"
    BY <1>2 DEF Ind, TableInv, NoStaleJob, Updating
  <2>3. \A q \in Listed : q \in Pids
    BY DEF Listed, Ind, Base, TypeOK, TableType, Job
  <2>4. NoStaleJob'
    BY <1>1, <1>2, <1>3, <1>4, <2>2, <2>3 DEF NoStaleJob, Updating, Listed
  <2> QED BY <2>1, <2>4 DEF TableInv
<1>11. MainInv'
  BY <1>2
     DEF Ind, MainInv, Forking, Holding, ForegroundIsAwaited, Waiting
<1>12. HandInv'
  <2>1. Collected'
    <3>1. hpc'["SIGCHLD"] = "update" /\ hpid'["SIGCHLD"] = p
      BY <1>1, <1>2, <1>3, <1>4
    <3>2. hstat' = "stopped" <=> proc'[p] # "none"
      BY <1>1, <1>4 DEF Ind, Base, EvtMatches
    <3> QED BY <1>5, <3>1, <3>2 DEF Collected
  <2>2. KillTargets'
    BY <1>1, <1>2, <1>3, <1>4
       DEF Ind, HandInv, KillTargets, Waiting, Signals, Forwarded
  <2> QED BY <2>1, <2>2 DEF HandInv
<1> QED BY <1>2, <1>6, <1>7, <1>8, <1>9, <1>10, <1>11, <1>12
        DEF Ind, Base, TypeOK

(* when waitpid finds no more of them,                                     *)
LEMMA ChldReturnStep ==
  ASSUME Ind, ChldReturn
  PROVE  Ind'
<1>1. /\ UNCHANGED <<jobs, nextjid, pc, cur, want, slot, blocked, hstat,
                     proc, evt, intpend, shell, pending>>
      /\ hpc' = [hpc EXCEPT !["SIGCHLD"] = "idle"]
      /\ hpid' = [hpid EXCEPT !["SIGCHLD"] = NoPid]
      /\ Innermost("SIGCHLD", "wait") /\ Return("SIGCHLD")
      /\ hpc["SIGCHLD"] = "wait" /\ "SIGCHLD" \in Signals
  BY DEF ChldReturn, Return, Innermost, table, main, children, Signals
<1>2. HandlerType' /\ Frames'
  BY <1>1, ReturnFrames DEF Ind, Base, TypeOK
<1>3. /\ hpc \in [Signals -> {"idle", "read", "kill", "wait", "update"}]
      /\ hpid \in [Signals -> Pids \cup {NoPid}]
  BY DEF Ind, Base, TypeOK, HandlerType
<1>4. TableType' /\ MainType' /\ ChildrenType' /\ EvtMatches'
  BY <1>1 DEF Ind, Base, TypeOK, TableType, MainType, ChildrenType, EvtMatches
<1>5. TableInv'
  BY <1>1
     DEF Ind, TableInv, PidUnique, LiveStates, NoStaleJob, Listed, Updating
<1>6. MainInv'
  BY <1>1
     DEF Ind, MainInv, Forking, Holding, ForegroundIsAwaited, Waiting
<1>7. HandInv'
  BY <1>1, <1>3
     DEF Ind, HandInv, Collected, KillTargets, Waiting, Signals, Forwarded
<1> QED BY <1>1, <1>2, <1>4, <1>5, <1>6, <1>7 DEF Ind, Base, TypeOK

(* The two updates of the table: sigchld_handler goes back to its loop.    *)
LEMMA UpdateDone ==
  ASSUME Ind, Innermost("SIGCHLD", "update"),
         hpc' = [hpc EXCEPT !["SIGCHLD"] = "wait"],
         hpid' = [hpid EXCEPT !["SIGCHLD"] = NoPid],
         hstat' = "none",
         UNCHANGED <<main, stack, children, pending>>
  PROVE  /\ HandlerType' /\ Frames' /\ MainType' /\ ChildrenType' /\ EvtMatches'
         /\ HandInv' /\ hpc'["SIGCHLD"] = "wait" /\ pc # "addjob"
<1>1. /\ UNCHANGED <<pc, cur, want, slot, blocked, stack, proc, evt, intpend,
                     pending>>
      /\ hpc["SIGCHLD"] = "update" /\ "SIGCHLD" \in Signals
  BY DEF main, children, Innermost, Signals
<1>2. /\ hpc \in [Signals -> {"idle", "read", "kill", "wait", "update"}]
      /\ hpid \in [Signals -> Pids \cup {NoPid}]
  BY DEF Ind, Base, TypeOK, HandlerType
<1>3. HandlerType' /\ Frames'
  BY <1>1, RelabelFrames DEF Ind, Base, TypeOK, Statuses
<1>4. MainType' /\ ChildrenType' /\ EvtMatches'
  BY <1>1 DEF Ind, Base, TypeOK, MainType, ChildrenType, EvtMatches
<1>5. hpc'["SIGCHLD"] = "wait"
  BY <1>1, <1>2
<1>6. HandInv'
  BY <1>1, <1>2, <1>5
     DEF Ind, HandInv, Collected, KillTargets, Waiting, Signals, Forwarded
<1>7. pc # "addjob"
  BY <1>1 DEF Ind, MainInv, Forking
<1> QED BY <1>3, <1>4, <1>5, <1>6, <1>7

(* when it deletes the job of a child that has ended,                      *)
LEMMA ChldTerminatedStep ==
  ASSUME Ind, ChldTerminated
  PROVE  Ind'
<1> DEFINE p == hpid["SIGCHLD"]
<1>1. /\ UNCHANGED <<pc, cur, want, slot, blocked, proc, shell>>
      /\ hpc["SIGCHLD"] = "update" /\ hstat \in {"signaled", "exited"}
      /\ deletejob(p)
  BY DEF ChldTerminated, Innermost, main, children
<1>2. /\ HandlerType' /\ Frames' /\ MainType' /\ ChildrenType' /\ EvtMatches'
      /\ HandInv' /\ hpc'["SIGCHLD"] = "wait" /\ pc # "addjob"
  BY UpdateDone DEF ChldTerminated
<1>3. TableType
  BY DEF Ind, Base, TypeOK
<1>4. /\ TableType'
      /\ \/ UNCHANGED table /\ getjobpid(jobs, p) = NULL
         \/ \E i \in Slots : /\ jobs[i].pid = p
                             /\ jobs' = [jobs EXCEPT ![i] = clearjob]
  BY <1>1, <1>3, DeletejobEffect
<1>5. p \in Pids /\ p # NoPid
  BY <1>1, PidsAssumption DEF Ind, HandInv, Collected
<1>6. /\ \A k \in Slots : jobs'[k] = jobs[k] \/ jobs'[k] = clearjob
      /\ \A k \in Slots : jobs'[k].pid # p
  <2>1. CASE UNCHANGED table /\ getjobpid(jobs, p) = NULL
    BY <1>5, <2>1, GetjobpidProperties DEF table
  <2>2. CASE \E i \in Slots : /\ jobs[i].pid = p
                             /\ jobs' = [jobs EXCEPT ![i] = clearjob]
    <3>1. PICK i \in Slots : /\ jobs[i].pid = p
                             /\ jobs' = [jobs EXCEPT ![i] = clearjob]
      BY <2>2
    <3>2. \A k \in Slots : jobs[k].pid = p => k = i
      BY <1>5, <3>1 DEF Ind, TableInv, PidUnique
    <3> HIDE DEF p
    <3> QED BY <1>3, <1>5, <3>1, <3>2 DEF TableType, clearjob
  <2> QED BY <1>4, <2>1, <2>2
<1> HIDE DEF p
<1>7. PidUnique' /\ LiveStates'
  BY <1>6 DEF Ind, TableInv, PidUnique, LiveStates, clearjob
<1>8. NoStaleJob'
  <2>1. ASSUME NEW q \in Listed' PROVE proc'[q] # "none"
    <3>1. PICK k \in Slots : jobs'[k].pid = q /\ q # NoPid
      BY DEF Listed
    <3>2. jobs[k].pid = q /\ q # p
      BY <1>6, <3>1 DEF clearjob
    <3>3. q \in Listed
      BY <3>1, <3>2 DEF Listed
    <3> QED BY <1>1, <3>2, <3>3 DEF Ind, TableInv, NoStaleJob, Updating, p
  <2> QED BY <2>1 DEF NoStaleJob
<1>9. MainInv'
  BY <1>1, <1>2, <1>6
     DEF Ind, MainInv, Forking, Holding, ForegroundIsAwaited, Waiting, clearjob
<1> QED BY <1>1, <1>2, <1>4, <1>7, <1>8, <1>9 DEF Ind, Base, TypeOK, TableInv

(* and when it marks a job stopped.                                        *)
LEMMA ChldStoppedStep ==
  ASSUME Ind, ChldStopped
  PROVE  Ind'
<1> DEFINE i == getjobpid(jobs, hpid["SIGCHLD"])
<1>1. /\ UNCHANGED <<pc, cur, want, slot, blocked, proc>>
      /\ hpc["SIGCHLD"] = "update" /\ hstat = "stopped"
      /\ shell' \in {"running", "exited", "crashed"}
  BY DEF ChldStopped, Innermost, main, children, Ind, Base, TypeOK
<1>2. /\ HandlerType' /\ Frames' /\ MainType' /\ ChildrenType' /\ EvtMatches'
      /\ HandInv' /\ hpc'["SIGCHLD"] = "wait" /\ pc # "addjob"
  BY UpdateDone DEF ChldStopped
<1>3. TableType
  BY DEF Ind, Base, TypeOK
<1>4. /\ TableType'
      /\ \A k \in Slots :
           /\ jobs'[k].pid = jobs[k].pid
           /\ jobs'[k].state \in {jobs[k].state, "ST"}
  <2>1. CASE UNCHANGED table
    BY <1>3, <2>1 DEF table, TableType
  <2>2. CASE i # NULL /\ setstate(i, "ST")
    <3>1. i \in Slots
      BY <2>2, GetjobpidProperties
    <3> HIDE DEF i
    <3> QED BY <1>3, <2>2, <3>1, SetstateEffect DEF States
  <2> QED BY <2>1, <2>2 DEF ChldStopped
<1>5. TableInv'
  <2>1. PidUnique' /\ LiveStates'
    BY <1>4 DEF Ind, TableInv, PidUnique, LiveStates
  <2>2. proc[hpid["SIGCHLD"]] # "none"
    BY <1>1 DEF Ind, HandInv, Collected
  <2>3. \A q \in Listed : proc[q] # "none"
    BY <2>2 DEF Ind, TableInv, NoStaleJob, Updating
  <2>4. Listed' = Listed
    BY <1>4 DEF Listed
  <2> QED BY <1>1, <2>1, <2>3, <2>4 DEF TableInv, NoStaleJob
<1>6. MainInv'
  BY <1>1, <1>2, <1>4
     DEF Ind, MainInv, Forking, Holding, ForegroundIsAwaited, Waiting
<1> QED BY <1>1, <1>2, <1>4, <1>5, <1>6 DEF Ind, Base, TypeOK

(* The invariant is inductive.                                             *)
LEMMA IndStep == Ind /\ [Next]_vars => Ind'
<1> SUFFICES ASSUME Ind, [Next]_vars PROVE Ind'
  OBVIOUS
<1>1. ASSUME NEW s \in Forwarded, Handler(s)
      PROVE  Ind'
  BY <1>1, ForwardReadStep, ForwardKillStep DEF Handler
<1>2. CASE Sigchld
  BY <1>2, ChldWaitStep, ChldReturnStep, ChldStoppedStep, ChldTerminatedStep
     DEF Sigchld
<1>3. CASE Sigquit
  BY <1>3, ExitStep DEF Sigquit
<1>4. CASE UNCHANGED vars
  BY <1>4, ExitStep DEF vars, Ind, Base, TypeOK
<1> QED BY <1>1, <1>2, <1>3, <1>4, MainInd, DeliverStep, KeyboardStep,
           ChildStep DEF Next, Gone

(* The inductive invariant holds in every reachable state.                 *)
THEOREM Inductive == Spec => []Ind
BY InitInd, IndStep, PTL DEF Spec

(* Every variable of the shell keeps its type.                             *)
THEOREM TypeCorrect == Spec => []TypeOK
BY Inductive, PTL DEF Ind, Base

(* No pid is in the table twice.                                           *)
THEOREM PidsUnique == Spec => []PidUnique
BY Inductive, PTL DEF Ind, TableInv

(* The table never lists a process that is gone, but for the one that      *)
(* sigchld_handler is deleting.                                            *)
THEOREM NoJobStale == Spec => []NoStaleJob
BY Inductive, PTL DEF Ind, TableInv

(* A job marked FG is the one the main loop waits for.                     *)
THEOREM ForegroundAwaited == Spec => []ForegroundIsAwaited
BY Inductive, PTL DEF Ind, MainInv
----------------------------------------------------------------------------
(* No status is lost.  The property is inductive over Ind.                 *)
THEOREM StatusNotLost == Spec => []NoLostStatus
<1>1. Init => NoLostStatus
  BY DEF Init, NoLostStatus
<1>2. Ind /\ NoLostStatus /\ [Next]_vars => NoLostStatus'
  <2> SUFFICES ASSUME Ind, NoLostStatus, [Next]_vars PROVE NoLostStatus'
    OBVIOUS
  <2>1. ASSUME KernelMove, hpc'["SIGCHLD"] = hpc["SIGCHLD"]
        PROVE  NoLostStatus'
    BY <2>1 DEF NoLostStatus, KernelMove
  <2>2. ASSUME UNCHANGED <<evt, pending>>, UNCHANGED hpc
        PROVE  NoLostStatus'
    BY <2>2 DEF NoLostStatus
  <2>3. CASE Main
    <3>1. CASE BgfgCont
      <4>1. KernelMove
        BY <3>1, KillMove DEF BgfgCont, Ind, Base, TypeOK, MainType
      <4> QED BY <2>1, <3>1, <4>1 DEF BgfgCont, handlers
    <3> QED BY <2>2, <2>3, <3>1
            DEF Main, Eval, EvalForkFails, BgfgLookup, AddJob, Announce,
                BgfgSet, WaitfgLookup, WaitfgReturn, Quit, handlers, children
  <2>4. ASSUME NEW s \in Signals, Deliver(s)
        PROVE  NoLostStatus'
    BY <2>4
       DEF Deliver, NoLostStatus, Ind, Base, TypeOK, HandlerType, children
  <2>5. ASSUME NEW s \in Forwarded, Handler(s)
        PROVE  NoLostStatus'
    <3>1. CASE ForwardRead(s)
      BY <3>1
         DEF ForwardRead, NoLostStatus, Ind, Base, TypeOK, HandlerType,
             children, Forwarded, Signals
    <3>2. CASE ForwardKill(s)
      <4>1. s \in Signals /\ s # "SIGCHLD"
        BY DEF Forwarded, Signals
      <4>2. KernelMove
        BY <3>2, <4>1, KillMove DEF ForwardKill, Ind, Base, TypeOK, HandlerType
      <4>3. hpc'["SIGCHLD"] = hpc["SIGCHLD"]
        BY <3>2, <4>1
           DEF ForwardKill, Return, Ind, Base, TypeOK, HandlerType, Signals
      <4> QED BY <2>1, <4>2, <4>3
    <3> QED BY <2>5, <3>1, <3>2 DEF Handler
  <2>6. CASE ChldWait
    BY <2>6
       DEF ChldWait, NoLostStatus, Ind, Base, TypeOK, HandlerType,
           ChildrenType, Signals
  <2>7. CASE ChldReturn
    BY <2>7 DEF ChldReturn, NoLostStatus, children
  <2>8. CASE ChldStopped \/ ChldTerminated
    BY <2>8
       DEF ChldStopped, ChldTerminated, NoLostStatus, Ind, Base, TypeOK,
           HandlerType, Signals, children
  <2>9. ASSUME NEW p \in Pids, Child(p)
        PROVE  NoLostStatus'
    BY <2>1, <2>9, ChildMove DEF Ind, Base, TypeOK, handlers
  <2>10. ASSUME NEW s \in Typed, Keyboard(s)
         PROVE  NoLostStatus'
    BY <2>10 DEF Keyboard, Env, NoLostStatus, handlers, children
  <2>11. CASE Sigquit \/ UNCHANGED vars
    BY <2>2, <2>11 DEF Sigquit, vars, handlers, children
  <2> QED BY <2>3, <2>4, <2>5, <2>6, <2>7, <2>8, <2>9, <2>10, <2>11
          DEF Next, Sigchld, Gone
<1> QED BY <1>1, <1>2, Inductive, PTL DEF Spec

(* kill(-p) changes nothing of a process other than p.                     *)
LEMMA KillOnly ==
  ASSUME ChildrenType, NEW p, NEW q \in Pids, NEW sig, Kill(p, sig),
         <<proc[q], intpend[q]>>' # <<proc[q], intpend[q]>>
  PROVE  p = q
<1>1. ASSUME NEW st, NEW e, NEW ip, Change(p, st, e, ip)
      PROVE  p = q
  BY <1>1 DEF Change, ChildrenType
<1>2. CASE intpend' = [intpend EXCEPT ![p] = TRUE] /\ UNCHANGED proc
  BY <1>2 DEF ChildrenType
<1>3. CASE UNCHANGED <<children, pending>>
  BY <1>3 DEF children
<1> QED BY <1>1, <1>2, <1>3 DEF Kill, Die, Stop, Continue

(* A forwarded signal changes only the process the main loop waits for:    *)
(* the pid a handler holds is that process's, by KillTargets.              *)
THEOREM OthersAreUndisturbed == Spec => OthersUndisturbed
<1> DEFINE Spared == \A s \in Forwarded, p \in Pids :
                       /\ hpc[s] = "kill" /\ hpc'[s] = "idle"
                       /\ <<proc[p], intpend[p]>>' # <<proc[p], intpend[p]>>
                       => Waiting(p)
<1>1. Ind /\ [Next]_vars => Spared
  <2> SUFFICES ASSUME Ind, [Next]_vars, NEW s \in Forwarded, NEW p \in Pids,
                      hpc[s] = "kill", hpc'[s] = "idle",
                      <<proc[p], intpend[p]>>' # <<proc[p], intpend[p]>>
               PROVE  Waiting(p)
    OBVIOUS
  <2>1. s \in Signals /\ s # "SIGCHLD"
    BY DEF Signals, Forwarded
  <2>2. hpc # hpc' /\ hpc \in [Signals -> {"idle", "read", "kill", "wait",
                                           "update"}]
    BY DEF Ind, Base, TypeOK, HandlerType
  <2>3. \E t \in Forwarded : ForwardKill(t)
    <3>1. ~ Main /\ ~ Sigquit /\ ~ UNCHANGED vars
      BY <2>2
         DEF Main, Eval, EvalForkFails, BgfgLookup, AddJob, Announce,
             BgfgCont, BgfgSet, WaitfgLookup, WaitfgReturn, Quit, Sigquit,
             vars, handlers
    <3>2. ASSUME NEW t \in Signals, Deliver(t)
          PROVE  FALSE
      BY <2>1, <2>2, <3>2 DEF Deliver
    <3>3. ASSUME NEW t \in Forwarded, ForwardRead(t)
          PROVE  FALSE
      BY <2>1, <2>2, <3>3 DEF ForwardRead, Signals
    <3>4. ~ Sigchld
      BY <2>1, <2>2
         DEF Sigchld, ChldWait, ChldReturn, ChldStopped, ChldTerminated, Return
    <3>5. ASSUME NEW q \in Pids, Child(q)
          PROVE  FALSE
      BY <2>2, <3>5, ChildMove DEF Ind, Base, TypeOK, handlers
    <3>6. ASSUME NEW t \in Typed, Keyboard(t)
          PROVE  FALSE
      BY <2>2, <3>6 DEF Keyboard, Env, handlers
    <3> QED BY <3>1, <3>2, <3>3, <3>4, <3>5, <3>6 DEF Next, Handler, Gone
  <2>4. ForwardKill(s)
    BY <2>1, <2>2, <2>3 DEF ForwardKill, Return
  <2>5. Kill(hpid[s], s)
    BY <2>4 DEF ForwardKill
  <2>6. hpid[s] = p
    BY <2>5, KillOnly DEF Ind, Base, TypeOK
  <2> QED BY <2>6, PidsAssumption DEF Ind, HandInv, KillTargets
<1> QED BY <1>1, Inductive, PTL DEF Spec, OthersUndisturbed
----------------------------------------------------------------------------
(* Refinement of JobControl.                                               *)

(* jobKind reads the state of the one struct that holds a pid.             *)
LEMMA KindListed ==
  ASSUME PidUnique, NEW p \in Pids, NEW i \in Slots, jobs[i].pid = p
  PROVE  jobKind[p] = jobs[i].state
<1> DEFINE k == getjobpid(jobs, p)
<1>1. /\ k = NULL => \A m \in Slots : jobs[m].pid # p
      /\ k # NULL => k \in Slots /\ jobs[k].pid = p
  BY GetjobpidProperties
<1>2. k # NULL /\ k = i
  BY <1>1, PidsAssumption DEF PidUnique
<1>3. jobKind[p] = IF k = NULL THEN "none" ELSE jobs[k].state
  BY DEF jobKind
<1> QED BY <1>2, <1>3

(* A pid that is not in the table is no job of the abstract shell,         *)
LEMMA KindUnlisted ==
  ASSUME NEW p \in Pids, \A i \in Slots : jobs[i].pid # p
  PROVE  jobKind[p] = "none"
<1> DEFINE k == getjobpid(jobs, p)
<1>1. k # NULL => k \in Slots /\ jobs[k].pid = p
  BY GetjobpidProperties
<1>2. k = NULL
  BY <1>1
<1>3. jobKind[p] = IF k = NULL THEN "none" ELSE jobs[k].state
  BY DEF jobKind
<1> QED BY <1>2, <1>3

(* The same facts about the next state.                                    *)
LEMMA KindListedNext ==
  ASSUME PidUnique', NEW p \in Pids, NEW i \in Slots, jobs'[i].pid = p
  PROVE  jobKind'[p] = jobs'[i].state
<1> DEFINE k == getjobpid(jobs', p)
<1>1. /\ k = NULL => \A m \in Slots : jobs'[m].pid # p
      /\ k # NULL => k \in Slots /\ jobs'[k].pid = p
  BY GetjobpidProperties
<1>2. k # NULL /\ k = i
  BY <1>1, PidsAssumption DEF PidUnique
<1>3. jobKind'[p] = IF k = NULL THEN "none" ELSE jobs'[k].state
  BY DEF jobKind, getjobpid
<1> QED BY <1>2, <1>3

(* and neither after the step.                                             *)
LEMMA KindUnlistedNext ==
  ASSUME NEW p \in Pids, \A i \in Slots : jobs'[i].pid # p
  PROVE  jobKind'[p] = "none"
<1> DEFINE k == getjobpid(jobs', p)
<1>1. k # NULL => k \in Slots /\ jobs'[k].pid = p
  BY GetjobpidProperties
<1>2. k = NULL
  BY <1>1
<1>3. jobKind'[p] = IF k = NULL THEN "none" ELSE jobs'[k].state
  BY DEF jobKind, getjobpid
<1> QED BY <1>2, <1>3

(* If only one pid's entry changes, that pid's kind is all that changes.   *)
LEMMA KindFrame ==
  ASSUME PidUnique, PidUnique', NEW p \in Pids, NEW kind, jobKind'[p] = kind,
         \A q \in Pids \ {p}, i \in Slots :
           /\ jobs[i].pid = q <=> jobs'[i].pid = q
           /\ jobs[i].pid = q => jobs'[i].state = jobs[i].state
  PROVE  JC!Become(p, kind)
<1>1. ASSUME NEW q \in Pids \ {p}
      PROVE  jobKind'[q] = jobKind[q]
  <2>1. CASE \E i \in Slots : jobs[i].pid = q
    BY <2>1, KindListed, KindListedNext
  <2>2. CASE \A i \in Slots : jobs[i].pid # q
    BY <2>2, KindUnlisted, KindUnlistedNext
  <2> QED BY <2>1, <2>2
<1>2. jobKind' = [q \in Pids |-> jobKind'[q]] /\ jobKind = [q \in Pids |-> jobKind[q]]
  BY DEF jobKind
<1>3. jobKind' = [jobKind EXCEPT ![p] = kind]
  BY <1>1, <1>2
<1> QED BY <1>3 DEF JC!Become

(* The abstract jobs depend on the table only.                             *)
LEMMA KindSame == UNCHANGED jobs => UNCHANGED jobKind
BY DEF jobKind, getjobpid

(* Off waitfg no live job is FG.                                           *)
LEMMA NoneForeground ==
  ASSUME Ind, pc \notin {"waitfg", "poll"}
  PROVE  JC!ForegroundFree
<1>1. ASSUME NEW p \in Pids, jobKind[p] = "FG"
      PROVE  FALSE
  <2>1. PICK i \in Slots : jobs[i].pid = p
    BY <1>1, KindUnlisted
  <2>2. jobs[i].state = "FG"
    BY <1>1, <2>1, KindListed DEF Ind, TableInv
  <2> QED BY <2>1, <2>2, PidsAssumption
          DEF Ind, MainInv, ForegroundIsAwaited, Waiting
<1> QED BY <1>1 DEF JC!ForegroundFree

(* addjob starts an abstract job, or changes none when the table is full.  *)
LEMMA AddJobImplements ==
  ASSUME Ind, Ind', AddJob
  PROVE  [JC!Next]_jobKind
<1>1. /\ TableType /\ want \in {"FG", "BG"} /\ want \in States
      /\ addjob(cur, want) /\ pc = "addjob"
      /\ PidUnique /\ PidUnique'
  BY DEF AddJob, At, Ind, Base, TypeOK, MainType, States, MainInv, Forking,
         TableInv
<1>2. CASE UNCHANGED table
  BY <1>2, KindSame DEF table
<1>3. ASSUME cur \in Pids, NEW i \in Slots, jobs[i].pid = NoPid,
             jobs' = [jobs EXCEPT ![i] = [pid |-> cur, jid |-> nextjid,
                                          state |-> want]]
      PROVE  JC!Next
  <2>1. cur \notin Listed /\ cur # NoPid
    BY <1>1, <1>3, PidsAssumption DEF Ind, MainInv, Forking
  <2>2. \A k \in Slots : jobs[k].pid # cur
    BY <2>1 DEF Listed
  <2>3. jobKind[cur] = "none"
    BY <1>3, <2>2, KindUnlisted
  <2>4. jobs'[i].pid = cur /\ jobs'[i].state = want
    BY <1>1, <1>3 DEF TableType
  <2>5. jobKind'[cur] = want
    BY <1>1, <1>3, <2>4, KindListedNext
  <2>6. \A q \in Pids \ {cur}, k \in Slots :
          /\ jobs[k].pid = q <=> jobs'[k].pid = q
          /\ jobs[k].pid = q => jobs'[k].state = jobs[k].state
    BY <1>1, <1>3, PidsAssumption DEF TableType
  <2>7. JC!Become(cur, want)
    BY <1>1, <1>3, <2>5, <2>6, KindFrame
  <2>8. JC!ForegroundFree
    BY <1>1, NoneForeground
  <2> QED BY <1>1, <1>3, <2>3, <2>7, <2>8 DEF JC!Next, JC!Start
<1> QED BY <1>1, <1>2, <1>3, AddjobEffect

(* do_bgfg's write resumes an abstract job.                                *)
LEMMA BgfgSetImplements ==
  ASSUME Ind, Ind', BgfgSet
  PROVE  [JC!Next]_jobKind
<1>1. /\ TableType /\ slot \in Slots /\ want \in {"FG", "BG"}
      /\ setstate(slot, want) /\ pc = "set"
      /\ PidUnique /\ PidUnique'
  BY DEF BgfgSet, At, Ind, Base, TypeOK, MainType, MainInv, Holding, TableInv
<1>2. \A k \in Slots :
        /\ jobs'[k].pid = jobs[k].pid
        /\ jobs'[k].state = IF k = slot THEN want ELSE jobs[k].state
  BY <1>1, SetstateEffect DEF States
<1> DEFINE p == jobs[slot].pid
<1>3. p \in Pids \cup {NoPid}
  BY <1>1 DEF TableType, Job
<1>4. CASE p \in Pids
  <2>1. jobKind[p] = jobs[slot].state
    BY <1>1, <1>4, KindListed
  <2>2. jobKind'[p] = want
    BY <1>1, <1>2, <1>4, KindListedNext
  <2>3. jobs[slot].state \in {"FG", "BG", "ST"}
    BY <1>1, <1>4, PidsAssumption
       DEF TableType, Job, States, Ind, TableInv, LiveStates
  <2>4. JC!ForegroundFree
    BY <1>1, NoneForeground
  <2>5. jobKind[p] \in {"ST", "BG"}
    BY <1>4, <2>1, <2>3, <2>4 DEF JC!ForegroundFree
  <2>6. \A q \in Pids \ {p}, k \in Slots :
          /\ jobs[k].pid = q <=> jobs'[k].pid = q
          /\ jobs[k].pid = q => jobs'[k].state = jobs[k].state
    BY <1>2
  <2>7. JC!Become(p, want)
    BY <1>1, <1>4, <2>2, <2>6, KindFrame
  <2> QED BY <1>1, <1>4, <2>4, <2>5, <2>7 DEF JC!Next, JC!Resume
<1>5. CASE p = NoPid
  <2>1. ASSUME NEW q \in Pids
        PROVE  jobKind'[q] = jobKind[q]
    <3>1. CASE \E i \in Slots : jobs[i].pid = q
      <4>1. PICK i \in Slots : jobs[i].pid = q
        BY <3>1
      <4>2. i # slot
        BY <1>5, <4>1, PidsAssumption
      <4> QED BY <1>1, <1>2, <4>1, <4>2, KindListed, KindListedNext
    <3>2. CASE \A i \in Slots : jobs[i].pid # q
      BY <1>2, <3>2, KindUnlisted, KindUnlistedNext
    <3> QED BY <3>1, <3>2
  <2>2. /\ jobKind' = [q \in Pids |-> jobKind'[q]]
        /\ jobKind = [q \in Pids |-> jobKind[q]]
    BY DEF jobKind
  <2> QED BY <2>1, <2>2
<1> QED BY <1>3, <1>4, <1>5

(* sigchld_handler's stop suspends an abstract job,                        *)
LEMMA ChldStoppedImplements ==
  ASSUME Ind, Ind', ChldStopped
  PROVE  [JC!Next]_jobKind
<1> DEFINE p == hpid["SIGCHLD"]
           i == getjobpid(jobs, p)
<1>1. TableType /\ PidUnique /\ PidUnique'
  BY DEF Ind, Base, TypeOK, TableInv
<1>2. CASE UNCHANGED table
  BY <1>2, KindSame DEF table
<1>3. CASE i # NULL /\ setstate(i, "ST")
  <2>1. i \in Slots /\ jobs[i].pid = p /\ p \in Pids
    BY <1>3, GetjobpidProperties
  <2> HIDE DEF i, p
  <2>2. \A k \in Slots :
          /\ jobs'[k].pid = jobs[k].pid
          /\ jobs'[k].state = IF k = i THEN "ST" ELSE jobs[k].state
    BY <1>1, <1>3, <2>1, SetstateEffect DEF States
  <2>3. jobKind[p] = jobs[i].state
    BY <1>1, <2>1, KindListed
  <2>4. jobs[i].state \in {"FG", "BG", "ST"}
    BY <1>1, <2>1, PidsAssumption
       DEF TableType, Job, States, Ind, TableInv, LiveStates
  <2>5. jobKind'[p] = "ST"
    BY <1>1, <2>1, <2>2, KindListedNext
  <2>6. \A q \in Pids \ {p}, k \in Slots :
          /\ jobs[k].pid = q <=> jobs'[k].pid = q
          /\ jobs[k].pid = q => jobs'[k].state = jobs[k].state
    BY <2>1, <2>2
  <2>7. JC!Become(p, "ST")
    BY <1>1, <2>1, <2>5, <2>6, KindFrame
  <2> QED BY <2>1, <2>3, <2>4, <2>7 DEF JC!Next, JC!Suspend
<1> QED BY <1>2, <1>3 DEF ChldStopped

(* and its deletejob ends one.                                             *)
LEMMA ChldTerminatedImplements ==
  ASSUME Ind, Ind', ChldTerminated
  PROVE  [JC!Next]_jobKind
<1> DEFINE p == hpid["SIGCHLD"]
<1>1. /\ TableType /\ PidUnique /\ PidUnique' /\ deletejob(p)
  BY DEF Ind, Base, TypeOK, TableInv, ChldTerminated
<1> HIDE DEF p
<1>2. CASE UNCHANGED table
  BY <1>2, KindSame DEF table
<1>3. ASSUME p \in Pids, NEW i \in Slots, jobs[i].pid = p,
             jobs' = [jobs EXCEPT ![i] = clearjob]
      PROVE  JC!Next
  <2>1. jobKind[p] = jobs[i].state
    BY <1>1, <1>3, KindListed
  <2>2. jobs[i].state \in {"FG", "BG", "ST"}
    BY <1>1, <1>3, PidsAssumption
       DEF TableType, Job, States, Ind, TableInv, LiveStates
  <2>3. \A k \in Slots : jobs'[k].pid # p
    BY <1>1, <1>3, PidsAssumption DEF TableType, clearjob, PidUnique
  <2>4. jobKind'[p] = "none"
    BY <1>3, <2>3, KindUnlistedNext
  <2>5. \A q \in Pids \ {p}, k \in Slots :
          /\ jobs[k].pid = q <=> jobs'[k].pid = q
          /\ jobs[k].pid = q => jobs'[k].state = jobs[k].state
    BY <1>1, <1>3, PidsAssumption DEF TableType, clearjob
  <2>6. JC!Become(p, "none")
    BY <1>1, <1>3, <2>4, <2>5, KindFrame
  <2> QED BY <1>3, <2>1, <2>2, <2>6 DEF JC!Next, JC!Finish
<1> QED BY <1>1, <1>2, <1>3, DeletejobEffect

(* Every step but those four leaves the table alone.                       *)
LEMMA TableSteps ==
  ASSUME [Next]_vars, ~ AddJob, ~ BgfgSet, ~ ChldStopped, ~ ChldTerminated,
         Ind
  PROVE  UNCHANGED jobs
<1>1. CASE Main
  BY <1>1 DEF Main, Eval, EvalForkFails, BgfgLookup, Announce, BgfgCont,
              WaitfgLookup, WaitfgReturn, Quit, table
<1>2. ASSUME NEW s \in Signals, Deliver(s)
      PROVE  UNCHANGED jobs
  BY <1>2 DEF Deliver, table
<1>3. ASSUME NEW s \in Forwarded, Handler(s)
      PROVE  UNCHANGED jobs
  BY <1>3 DEF Handler, ForwardRead, ForwardKill, table
<1>4. ASSUME NEW s \in Typed, Keyboard(s)
      PROVE  UNCHANGED jobs
  BY <1>4 DEF Keyboard, Env, table
<1>5. CASE Sigchld \/ Sigquit \/ UNCHANGED vars
  BY <1>5 DEF Sigchld, ChldWait, ChldReturn, Sigquit, vars, table
<1>6. ASSUME NEW p \in Pids, Child(p)
      PROVE  UNCHANGED jobs
  BY <1>6, ChildMove DEF Ind, Base, TypeOK, table
<1> QED BY <1>1, <1>2, <1>3, <1>4, <1>5, <1>6 DEF Next, Gone

(* The shell implements abstract job control.                              *)
THEOREM Refinement == Spec => ImplementsJobControl
<1>1. Init => JC!Init
  <2> SUFFICES ASSUME Init PROVE JC!Init
    OBVIOUS
  <2>1. \A p \in Pids, i \in Slots : jobs[i].pid # p
    BY PidsAssumption DEF Init, initjobs, clearjob
  <2>2. \A p \in Pids : jobKind[p] = "none"
    BY <2>1, KindUnlisted
  <2>3. jobKind = [p \in Pids |-> jobKind[p]]
    BY DEF jobKind
  <2> QED BY <2>2, <2>3 DEF JC!Init
<1>2. Ind /\ Ind' /\ [Next]_vars => [JC!Next]_jobKind
  <2> SUFFICES ASSUME Ind, Ind', [Next]_vars PROVE [JC!Next]_jobKind
    OBVIOUS
  <2>1. CASE UNCHANGED jobs
    BY <2>1, KindSame
  <2> QED BY <2>1, TableSteps, AddJobImplements, BgfgSetImplements,
             ChldStoppedImplements, ChldTerminatedImplements
<1> QED BY <1>1, <1>2, Inductive, PTL
        DEF Spec, ImplementsJobControl, JC!Spec

(* At most one live job is in the foreground, though AtMostOneFG, which    *)
(* counts the structs of dead jobs as well, does not hold.                 *)
THEOREM OneLiveForeground == Spec => []JC!AtMostOneForeground
<1>1. Ind => JC!AtMostOneForeground
  <2> SUFFICES ASSUME Ind, NEW p \in Pids, NEW q \in Pids,
                      jobKind[p] = "FG", jobKind[q] = "FG"
               PROVE  p = q
    BY DEF JC!AtMostOneForeground
  <2>1. ASSUME NEW r \in Pids, jobKind[r] = "FG"
        PROVE  cur = r
    <3>1. PICK i \in Slots : jobs[i].pid = r
      BY <2>1, KindUnlisted
    <3>2. jobs[i].state = "FG"
      BY <2>1, <3>1, KindListed DEF Ind, TableInv
    <3> QED BY <3>1, <3>2, PidsAssumption
            DEF Ind, MainInv, ForegroundIsAwaited, Waiting
  <2> QED BY <2>1
<1> QED BY <1>1, Inductive, PTL
----------------------------------------------------------------------------
(* No child is forgotten while the table has room for all of them.         *)

Known == \A p \in Pids :
           proc[p] # "none" => p \in Listed \/ (pc = "addjob" /\ cur = p)

(* A pid that is not listed leaves a struct free: otherwise MAXJOBS        *)
(* structs would hold different pids out of at most MAXJOBS - 1.           *)
LEMMA RoomLeft ==
  ASSUME IsFiniteSet(Pids), Cardinality(Pids) <= MAXJOBS,
         TableType, PidUnique, NEW p \in Pids, p \notin Listed
  PROVE  freeslot(jobs) # NULL
<1>1. SUFFICES ASSUME \A k \in Slots : jobs[k].pid # NoPid PROVE FALSE
  BY FreeslotProperties
<1> DEFINE f == [k \in Slots |-> jobs[k].pid]
<1>2. f \in [Slots -> Pids \ {p}]
  BY <1>1 DEF TableType, Job, Listed
<1>3. IsFiniteSet(Slots) /\ Cardinality(Slots) = MAXJOBS
  BY FS_Interval, MaxJobsAssumption DEF Slots
<1>4. /\ IsFiniteSet(Pids \ {p})
      /\ Cardinality(Pids \ {p}) = Cardinality(Pids) - 1
  BY FS_RemoveElement
<1>5. Cardinality(Pids \ {p}) < Cardinality(Slots)
  BY <1>3, <1>4, FS_CardinalityType, MaxJobsAssumption
<1>6. PICK i \in Slots, k \in Slots : i # k /\ f[i] = f[k]
  <2> HIDE DEF f
  <2> QED BY <1>2, <1>3, <1>4, <1>5, FS_PigeonHole, Zenon
<1> QED BY <1>1, <1>6 DEF PidUnique

(* The set of listed pids depends on the pids of the table only.           *)
LEMMA ListedFrame ==
  ASSUME \A k \in Slots : jobs'[k].pid = jobs[k].pid
  PROVE  Listed' = Listed
BY DEF Listed

(* While there are no more pids than slots, no step makes a live child     *)
(* unlisted.                                                               *)
LEMMA KnownStep ==
  ASSUME Ind, Ind', [Next]_vars, Known,
         IsFiniteSet(Pids), Cardinality(Pids) <= MAXJOBS
  PROVE  Known'
<1>1. ASSUME UNCHANGED <<proc, pc, cur>>, UNCHANGED jobs
      PROVE  Known'
  BY <1>1 DEF Known, Listed
<1>2. ASSUME KernelMove, UNCHANGED <<cur, jobs>>,
             pc' = pc \/ (pc # "addjob" /\ pc' # "addjob")
      PROVE  Known'
  BY <1>2 DEF Known, Listed, KernelMove
<1>3. ASSUME NEW state, Eval(state)
      PROVE  Known'
  <2>1. PICK p \in Pids : cur' = p /\ proc' = [proc EXCEPT ![p] = "forked"]
    BY <1>3 DEF Eval
  <2>2. UNCHANGED jobs /\ pc = "prompt" /\ pc' = "addjob"
    BY <1>3 DEF Eval, At, Goto, table
  <2> QED BY <2>1, <2>2
          DEF Known, Listed, Ind, Base, TypeOK, ChildrenType
<1>4. ASSUME NEW state, EvalForkFails(state) \/ BgfgLookup(state)
      PROVE  Known'
  <2>1. UNCHANGED <<jobs, proc>> /\ pc = "prompt"
    BY <1>4 DEF EvalForkFails, BgfgLookup, At, table, children
  <2> QED BY <2>1 DEF Known, Listed
<1>5. CASE AddJob
  <2>1. /\ TableType /\ PidUnique /\ want \in States
        /\ addjob(cur, want) /\ pc = "addjob" /\ UNCHANGED <<proc, cur>>
    BY <1>5 DEF AddJob, At, Ind, Base, TypeOK, MainType, States, TableInv,
                children
  <2>2. CASE cur \notin Pids
    <3>1. UNCHANGED table
      BY <2>1, <2>2, AddjobEffect
    <3> QED BY <2>1, <2>2, <3>1 DEF Known, Listed, table
  <2>3. CASE cur \in Pids
    <3>1. cur \notin Listed
      BY <2>1, <2>3, PidsAssumption DEF Ind, MainInv, Forking
    <3>2. freeslot(jobs) # NULL
      BY <2>1, <2>3, <3>1, RoomLeft
    <3>3. PICK i \in Slots :
            /\ jobs[i].pid = NoPid
            /\ jobs' = [jobs EXCEPT ![i] = [pid |-> cur, jid |-> nextjid,
                                            state |-> want]]
      BY <2>1, <2>3, <3>2, AddjobEffect
    <3>4. /\ jobs'[i].pid = cur
          /\ \A k \in Slots \ {i} : jobs'[k] = jobs[k]
      BY <2>1, <3>3 DEF TableType
    <3>5. Listed' = Listed \cup {cur}
      BY <2>3, <3>3, <3>4, PidsAssumption DEF Listed
    <3> QED BY <2>1, <3>5 DEF Known
  <2> QED BY <2>2, <2>3
<1>6. CASE BgfgSet
  <2>1. /\ TableType /\ slot \in Slots /\ want \in States
        /\ setstate(slot, want) /\ pc = "set" /\ pc' # "addjob"
        /\ UNCHANGED proc
    BY <1>6 DEF BgfgSet, At, Goto, Prompt, Ind, Base, TypeOK, MainType,
                MainInv, Holding, States, children
  <2>2. Listed' = Listed
    BY <2>1, SetstateEffect, ListedFrame
  <2> QED BY <2>1, <2>2 DEF Known
<1>7. CASE BgfgCont
  <2>1. KernelMove
    BY <1>7, KillMove DEF BgfgCont, Ind, Base, TypeOK, MainType
  <2> QED BY <1>2, <1>7, <2>1 DEF BgfgCont, At, Goto, table
<1>8. CASE Announce \/ WaitfgLookup \/ WaitfgReturn \/ Quit
  <2>1. UNCHANGED <<jobs, proc>> /\ pc # "addjob"
    BY <1>8 DEF Announce, WaitfgLookup, WaitfgReturn, Quit, At, table, children
  <2> QED BY <2>1 DEF Known, Listed
<1>9. ASSUME NEW s \in Signals, Deliver(s)
      PROVE  Known'
  BY <1>1, <1>9 DEF Deliver, table, main, children
<1>10. ASSUME NEW s \in Forwarded, Handler(s)
       PROVE  Known'
  <2>1. CASE ForwardRead(s)
    BY <1>1, <2>1 DEF ForwardRead, table, main, children
  <2>2. CASE ForwardKill(s)
    <3>1. KernelMove
      BY <2>2, KillMove
         DEF ForwardKill, Ind, Base, TypeOK, HandlerType, Signals
    <3> QED BY <1>2, <2>2, <3>1 DEF ForwardKill, table, main
  <2> QED BY <1>10, <2>1, <2>2 DEF Handler
<1>11. CASE ChldWait
  <2>1. /\ UNCHANGED <<jobs, pc, cur>>
        /\ \A q \in Pids : proc'[q] # "none" => proc[q] # "none"
    BY <1>11 DEF ChldWait, table, main, Ind, Base, TypeOK, ChildrenType
  <2> QED BY <2>1 DEF Known, Listed
<1>12. CASE ChldReturn
  BY <1>1, <1>12 DEF ChldReturn, table, main, children
<1>13. CASE ChldStopped
  <2>1. /\ UNCHANGED <<proc, pc, cur>> /\ TableType
        /\ getjobpid(jobs, hpid["SIGCHLD"]) # NULL =>
             getjobpid(jobs, hpid["SIGCHLD"]) \in Slots
    BY <1>13, GetjobpidProperties DEF ChldStopped, main, children, Ind, Base, TypeOK
  <2>2. Listed' = Listed
    <3>1. CASE UNCHANGED table
      BY <3>1 DEF Listed, table
    <3>2. ASSUME NEW i \in Slots, setstate(i, "ST")
          PROVE  Listed' = Listed
      BY <2>1, <3>2, SetstateEffect, ListedFrame DEF States
    <3> QED BY <1>13, <2>1, <3>1, <3>2 DEF ChldStopped
  <2> QED BY <2>1, <2>2 DEF Known
<1>14. CASE ChldTerminated
  <2> DEFINE d == hpid["SIGCHLD"]
  <2>1. /\ UNCHANGED <<proc, pc, cur>> /\ TableType /\ deletejob(d)
        /\ proc[d] = "none"
    BY <1>14 DEF ChldTerminated, Innermost, main, children, Ind, Base, TypeOK,
                 HandInv, Collected
  <2> HIDE DEF d
  <2>2. ASSUME NEW q \in Listed, q # d
        PROVE  q \in Listed'
    <3>1. PICK k \in Slots : jobs[k].pid = q /\ q # NoPid
      BY <2>2 DEF Listed
    <3>2. jobs'[k].pid = q
      BY <2>1, <2>2, <3>1, DeletejobEffect DEF TableType, table
    <3> QED BY <3>1, <3>2 DEF Listed
  <2> QED BY <2>1, <2>2 DEF Known
<1>15. CASE Sigquit \/ UNCHANGED vars
  BY <1>1, <1>15 DEF Sigquit, vars, table, main, children
<1>16. ASSUME NEW p \in Pids, Child(p)
       PROVE  Known'
  BY <1>2, <1>16, ChildMove DEF Ind, Base, TypeOK, table, main
<1>17. ASSUME NEW s \in Typed, Keyboard(s)
       PROVE  Known'
  BY <1>1, <1>17 DEF Keyboard, Env, table, main, children
<1>18. CASE Main
  BY <1>3, <1>4, <1>5, <1>6, <1>7, <1>8, <1>18 DEF Main
<1>19. CASE Sigchld
  BY <1>11, <1>12, <1>13, <1>14, <1>19 DEF Sigchld
<1> QED BY <1>9, <1>10, <1>15, <1>16, <1>17, <1>18, <1>19 DEF Next, Gone

(* With finitely many pids, and a table that can hold them all, the table  *)
(* and the kernel agree on which children there are.                       *)
THEOREM ChildrenListed ==
  ASSUME IsFiniteSet(Pids)
  PROVE  Spec => []EveryChildListed
<1>1. Init => Known
  BY DEF Init, Known
<1>2. CASE Cardinality(Pids) <= MAXJOBS
  <2>1. Ind /\ Ind' /\ Known /\ [Next]_vars => Known'
    BY <1>2, KnownStep
  <2>2. Known => EveryChildListed
    BY DEF Known, EveryChildListed
  <2> QED BY <1>1, <2>1, <2>2, Inductive, PTL DEF Spec
<1>3. CASE ~ (Cardinality(Pids) <= MAXJOBS)
  <2>1. EveryChildListed
    BY <1>3 DEF EveryChildListed
  <2> QED BY <2>1, PTL
<1> QED BY <1>2, <1>3

(* The only write through a NULL struct is that of ChldStopped, and the    *)
(* child it is about still exists, so it is listed.                        *)
LEMMA SurvivalStep ==
  ASSUME Ind, Known, shell # "crashed", [Next]_vars
  PROVE  shell' # "crashed"
<1>1. CASE ChldStopped
  <2> DEFINE d == hpid["SIGCHLD"]
  <2>1. /\ d \in Pids /\ proc[d] # "none" /\ hpc["SIGCHLD"] = "update"
    BY <1>1 DEF ChldStopped, Innermost, Ind, HandInv, Collected
  <2>2. pc # "addjob"
    BY <2>1 DEF Ind, MainInv, Forking
  <2>3. d \in Listed
    BY <2>1, <2>2 DEF Known
  <2>4. getjobpid(jobs, d) # NULL
    BY <2>1, <2>3, GetjobpidProperties DEF Listed
  <2> QED BY <1>1, <2>4 DEF ChldStopped
<1>2. ASSUME NEW s \in Signals, Deliver(s)
      PROVE  shell' # "crashed"
  BY <1>2 DEF Deliver
<1>3. ASSUME NEW s \in Forwarded, Handler(s)
      PROVE  shell' # "crashed"
  BY <1>3 DEF Handler, ForwardRead, ForwardKill
<1>4. ASSUME NEW s \in Typed, Keyboard(s)
      PROVE  shell' # "crashed"
  BY <1>4 DEF Keyboard, Env
<1>5. CASE Main
  BY <1>5 DEF Main, Eval, EvalForkFails, BgfgLookup, AddJob, Announce,
              BgfgCont, BgfgSet, WaitfgLookup, WaitfgReturn, Quit
<1>6. CASE ChldWait \/ ChldReturn \/ ChldTerminated
  BY <1>6 DEF ChldWait, ChldReturn, ChldTerminated
<1>7. ASSUME NEW p \in Pids, Child(p)
      PROVE  shell' # "crashed"
  BY <1>7 DEF Child, Setpgid, Execve, ExecveFails, Exit, Killed, Stopped,
              Continued, Env
<1>8. CASE Sigquit \/ Gone \/ UNCHANGED vars
  BY <1>8 DEF Sigquit, Gone, vars
<1> QED BY <1>1, <1>2, <1>3, <1>4, <1>5, <1>6, <1>7, <1>8 DEF Next, Sigchld

(* So a table with room for every child keeps the shell from crashing,     *)
(* however children stop and end and wherever signals arrive.              *)
THEOREM SurvivesChildren ==
  ASSUME IsFiniteSet(Pids)
  PROVE  Spec => []SurvivesWithRoom
<1>1. CASE Cardinality(Pids) <= MAXJOBS
  <2> DEFINE Safe == Known /\ shell # "crashed"
  <2>1. Init => Safe
    BY DEF Init, Known
  <2>2. Ind /\ Ind' /\ Safe /\ [Next]_vars => Safe'
    BY <1>1, KnownStep, SurvivalStep
  <2>3. Safe => SurvivesWithRoom
    BY DEF SurvivesWithRoom
  <2> HIDE DEF Safe
  <2> QED BY <2>1, <2>2, <2>3, Inductive, PTL DEF Spec
<1>2. CASE ~ (Cardinality(Pids) <= MAXJOBS)
  <2>1. SurvivesWithRoom
    BY <1>2 DEF SurvivesWithRoom
  <2> QED BY <2>1, PTL
<1> QED BY <1>1, <1>2
============================================================================
