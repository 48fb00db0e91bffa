---------------------------- MODULE ReleasePromise ----------------------------
(***************************************************************************)
(* What the release phases promise, with no agent, lease, request or       *)
(* container in it.  A job is pending, running under an attempt, or        *)
(* settled; the command of an attempt has not begun, is running, or is     *)
(* over.  A command begins once, only under the attempt that is running,   *)
(* and no two pre-activation commands of the service run together.  A      *)
(* verdict is given once per attempt; only an operator reopens a job, and  *)
(* never one that succeeded.                                               *)
(***************************************************************************)
EXTENDS Naturals

CONSTANTS Deployments, Phase, PreActivation, MaxAttempt

VARIABLES status, attempt, command

promise == <<status, attempt, command>>

Job == Deployments \X Phase
Attempt == Deployments \X Phase \X (1 .. MaxAttempt)
Settled == {"succeeded", "failed", "timed_out", "outcome_unknown"}

Init ==
    /\ status = [j \in Job |-> "pending"]
    /\ attempt = [j \in Job |-> 0]
    /\ command = [a \in Attempt |-> "unstarted"]

Open(j) ==
    /\ status[j] = "pending"
    /\ status' = [status EXCEPT ![j] = "running"]
    /\ attempt' = [attempt EXCEPT ![j] = @ + 1]
    /\ UNCHANGED command

Begin(a) ==
    /\ command[a] = "unstarted"
    /\ status[<<a[1], a[2]>>] = "running" /\ attempt[<<a[1], a[2]>>] = a[3]
    /\ a[2] = PreActivation =>
         \A b \in Attempt : b[2] = PreActivation => command[b] # "running"
    /\ command' = [command EXCEPT ![a] = "running"]
    /\ UNCHANGED <<status, attempt>>

End(as) ==
    /\ \A a \in as : command[a] = "running"
    /\ command' = [a \in Attempt |-> IF a \in as THEN "over" ELSE command[a]]
    /\ UNCHANGED <<status, attempt>>

(* An outcome is recorded.  At the deadline the command is stopped and the   *)
(* verdict still to come; a success is given to a command that is over.      *)
Settle(j, outcome) ==
    /\ status[j] = "running"
    /\ outcome = "succeeded" =>
         \A a \in Attempt : <<a[1], a[2], a[3]>> = <<j[1], j[2], attempt[j]>>
                              => command[a] = "over"
    /\ status' = [status EXCEPT ![j] = outcome]
    /\ UNCHANGED <<attempt, command>>

(* The deployment's work ended over attempts nobody reported.                *)
Abandon(d) ==
    /\ status' = [j \in Job |-> IF j[1] = d /\ status[j] = "running"
                                THEN "outcome_unknown" ELSE status[j]]
    /\ UNCHANGED <<attempt, command>>

Operator(j) ==
    /\ \/ /\ status[j] \in Settled \ {"succeeded"}
          /\ status' = [status EXCEPT ![j] = "pending"]
       \/ /\ status[j] = "outcome_unknown"
          /\ status' = [status EXCEPT ![j] = "succeeded"]
    /\ UNCHANGED <<attempt, command>>

Next ==
    \/ \E j \in Job : Open(j) \/ Operator(j) \/ \E outcome \in Settled : Settle(j, outcome)
    \/ \E a \in Attempt : Begin(a)
    \/ \E as \in SUBSET Attempt : End(as)
    \/ \E d \in Deployments : Abandon(d)

Spec == Init /\ [][Next]_promise

=============================================================================
