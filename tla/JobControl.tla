----------------------------- MODULE JobControl ----------------------------
(***************************************************************************)
(* What the shell promises of its jobs, whatever signals arrive: a process *)
(* is a job in the foreground, in the background or stopped, or it is no   *)
(* job; at most one job is in the foreground; only a stopped or background *)
(* job is moved by fg or bg, and any job may stop or end.                  *)
(***************************************************************************)
CONSTANT Pids

VARIABLE job         \* pid -> what kind of job it is

Kinds == {"none", "FG", "BG", "ST"}

AtMostOneForeground ==
  \A p, q \in Pids : job[p] = "FG" /\ job[q] = "FG" => p = q

Init == job = [p \in Pids |-> "none"]

Become(p, kind) == job' = [job EXCEPT ![p] = kind]

ForegroundFree == \A p \in Pids : job[p] # "FG"

Start(p, kind) == /\ job[p] = "none"
                  /\ kind = "FG" => ForegroundFree
                  /\ Become(p, kind)

Suspend(p) == job[p] # "none" /\ Become(p, "ST")

Resume(p, kind) == /\ job[p] \in {"ST", "BG"}
                   /\ kind = "FG" => ForegroundFree
                   /\ Become(p, kind)

Finish(p) == job[p] # "none" /\ Become(p, "none")

Next == \E p \in Pids :
          \/ \E kind \in {"FG", "BG"} : Start(p, kind) \/ Resume(p, kind)
          \/ Suspend(p)
          \/ Finish(p)

Spec == Init /\ [][Next]_job
============================================================================
