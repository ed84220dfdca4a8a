------------------------------ MODULE AsyncOps ------------------------------
(***************************************************************************)
(* What the asynchronous runtime of a script thread promises: an operation *)
(* a script has issued is completed once by another thread, only then      *)
(* settled by the script's own thread, and waiting ends only when nothing  *)
(* the script has issued is left unsettled.                                *)
(***************************************************************************)
CONSTANT Ops

VARIABLES
  op,      \* the stage of each operation
  script   \* whether the script's thread is evaluating and waiting, or has returned

vars == <<op, script>>

Init ==
  /\ op = [o \in Ops |-> "idle"]
  /\ script = "running"

Issue(o) ==
  /\ script = "running"
  /\ op[o] = "idle"
  /\ op' = [op EXCEPT ![o] = "pending"]
  /\ UNCHANGED script

Complete(o) ==
  /\ op[o] = "pending"
  /\ op' = [op EXCEPT ![o] = "completed"]
  /\ UNCHANGED script

Settle(o) ==
  /\ script = "running"
  /\ op[o] = "completed"
  /\ op' = [op EXCEPT ![o] = "settled"]
  /\ UNCHANGED script

Return ==
  /\ script = "running"
  /\ \A o \in Ops : op[o] \in {"idle", "settled"}
  /\ script' = "returned"
  /\ UNCHANGED op

Resume ==
  /\ script = "returned"
  /\ script' = "running"
  /\ UNCHANGED op

Next ==
  \/ Return \/ Resume
  \/ \E o \in Ops : Issue(o) \/ Complete(o) \/ Settle(o)

Spec == Init /\ [][Next]_vars
=============================================================================
