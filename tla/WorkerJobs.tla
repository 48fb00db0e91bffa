------------------------------ MODULE WorkerJobs ------------------------------
(***************************************************************************)
(* Scheduled worker jobs: one command per schedule run, in a container of   *)
(* its own, with a receipt file beside the agent.  Four work items handle a *)
(* run: start_worker_job, inspect_worker_job, stop_worker_job and           *)
(* cleanup_worker_job.  Each handler is a sequence of file and Docker steps *)
(* with an await between any two, so the handlers of one run interleave;    *)
(* the agent may die between any two steps, and the item is leased again.   *)
(*                                                                          *)
(* The control plane is external: it hands out start first, inspect and     *)
(* stop (which may overlap each other) only for a run whose start completed,*)
(* and cleanup last.                                                        *)
(***************************************************************************)
EXTENDS Naturals

CONSTANTS
    Runs,           \* schedule runs
    MaxFaults       \* bound: crashes, lost reports, failed Docker calls

ASSUME JobsAssumption == MaxFaults \in Nat

VARIABLES
    item,       \* control plane: the work item of each kind, for each run
    handler,    \* agent: the handler of each item being worked on
    receipt,    \* disk: the status in the receipt file of each run
    box,        \* Docker: the container of each run
    starts,     \* history: how often each run's command was started
    ended,      \* history: how the command of each run ended
    overlapped, \* history: runs inspected and stopped at once
    faults

vars == <<item, handler, receipt, box, starts, ended, overlapped, faults>>

Kind == {"start", "inspect", "stop", "cleanup"}
Terminal == {"succeeded", "failed", "cancelled", "missing"}
Receipt == {"none", "created", "running"} \cup Terminal

\* ok: Docker's ExitCode is zero, which it also is before any start.
Container == [state: {"absent", "created", "running", "exited"}, ok: BOOLEAN]
Absent == [state |-> "absent", ok |-> TRUE]

Handler == [pc: {"idle", "read", "probe", "adopt", "look", "check", "create",
                 "record", "launch", "mark", "settle", "halt", "remove",
                 "forget", "reply", "fail"},
            read: Receipt, seen: Container]
NoHandler == [pc |-> "idle", read |-> "none", seen |-> Absent]

TypeOK ==
    /\ item \in [Runs -> [Kind -> {"none", "open", "done", "failed"}]]
    /\ handler \in [Runs -> [Kind -> Handler]]
    /\ receipt \in [Runs -> Receipt]
    /\ box \in [Runs -> Container]
    /\ starts \in [Runs -> Nat]
    /\ ended \in [Runs -> {"no", "zero", "nonzero"}]
    /\ overlapped \in SUBSET Runs
    /\ faults \in 0 .. MaxFaults

Init ==
    /\ item = [r \in Runs |-> [k \in Kind |-> IF k = "start" THEN "open" ELSE "none"]]
    /\ handler = [r \in Runs |-> [k \in Kind |-> NoHandler]]
    /\ receipt = [r \in Runs |-> "none"]
    /\ box = [r \in Runs |-> Absent]
    /\ starts = [r \in Runs |-> 0]
    /\ ended = [r \in Runs |-> "no"]
    /\ overlapped = {}
    /\ faults = 0

Fault == faults < MaxFaults /\ faults' = faults + 1

At(r, k, pc) == handler[r][k].pc = pc
Goto(r, k, pc) == handler' = [handler EXCEPT ![r][k].pc = pc]
Saw(r, k, pc) == handler' = [handler EXCEPT ![r][k].pc = pc, ![r][k].seen = box[r]]

----------------------------------------------------------------------------
(* The control plane and Docker.                                            *)

Issue(r, k) ==
    /\ k \in {"inspect", "stop"} => item[r]["start"] = "done" /\ item[r]["cleanup"] = "none"
    /\ k = "cleanup" => /\ item[r]["start"] \in {"done", "failed"}
                        /\ \A other \in {"inspect", "stop"} : item[r][other] # "open"
    /\ k # "start" /\ item[r][k] # "open"
    /\ k = "cleanup" => item[r][k] # "done"
    /\ item' = [item EXCEPT ![r][k] = "open"]
    /\ overlapped' = IF \E other \in {"inspect", "stop"} \ {k} : item[r][other] = "open"
                     THEN overlapped \cup {r} ELSE overlapped
    /\ UNCHANGED <<handler, receipt, box, starts, ended, faults>>

Lease(r, k) ==
    /\ item[r][k] = "open"
    /\ At(r, k, "idle")
    /\ handler' = [handler EXCEPT ![r][k] = [NoHandler EXCEPT !.pc = "read"]]
    /\ UNCHANGED <<item, receipt, box, starts, ended, overlapped, faults>>

Exits(r) ==
    /\ box[r].state = "running"
    /\ \E ok \in BOOLEAN :
         /\ box' = [box EXCEPT ![r] = [state |-> "exited", ok |-> ok]]
         /\ ended' = [ended EXCEPT ![r] = IF ok THEN "zero" ELSE "nonzero"]
    /\ UNCHANGED <<item, handler, receipt, starts, overlapped, faults>>

(* Someone other than the agent removes the container.                      *)
Vanishes(r) ==
    /\ box[r].state # "absent"
    /\ Fault
    /\ box' = [box EXCEPT ![r] = Absent]
    /\ UNCHANGED <<item, handler, receipt, starts, ended, overlapped>>

----------------------------------------------------------------------------
(* What the handlers decide.                                                *)

\* Fault: a container that was never started is judged by its exit code.
RecoveredCreated(c) ==
    IF c.state = "running" THEN "running" ELSE IF c.ok THEN "succeeded" ELSE "failed"

(* recoverWorkerJobReceiptFromContainer, for a container of this run.       *)
Recovered(c) ==
    IF c.state \in {"running", "created"} THEN c.state
    ELSE IF c.ok THEN "succeeded" ELSE "failed"

(* toTerminalWorkerJobReceipt                                               *)
TerminalOf(c) ==
    IF c.state = "absent" THEN "missing" ELSE IF c.ok THEN "succeeded" ELSE "failed"

\* Fault: whatever does not run is started.
NextOfStartAnyStopped(read, c) ==
    CASE c.state = "running" -> "reply"
      [] c.state \in {"created", "exited"} -> "launch"
      [] OTHER -> "settle"

(* What a leased start does about a receipt that is not terminal.           *)
NextOfStart(read, c) ==
    CASE c.state = "running" -> "reply"
      [] read = "created" /\ c.state = "created" -> "launch"
      [] OTHER -> "settle"

----------------------------------------------------------------------------
(* The handlers' steps.                                                     *)

(* A handler that throws is reported failed.                                *)
Throws(r, k) == Goto(r, k, "fail")

\* Fault: a receipt is only looked at for where its container is.
ReadReceiptPath(r, k) ==
    /\ At(r, k, "read")
    /\ IF receipt[r] = "none" /\ k \in {"inspect", "stop"}
       THEN Throws(r, k)
       ELSE handler' = [handler EXCEPT
              ![r][k].read = receipt[r],
              ![r][k].pc = IF receipt[r] = "none" THEN "probe"
                           ELSE IF k = "stop" THEN "halt" ELSE "look"]
    /\ UNCHANGED <<item, receipt, box, starts, ended, overlapped, faults>>

(* readWorkerJobReceipt; a terminal receipt answers start, inspect and stop.*)
ReadReceipt(r, k) ==
    /\ At(r, k, "read")
    /\ IF receipt[r] = "none" /\ k \in {"inspect", "stop"}
       THEN Throws(r, k)
       ELSE handler' = [handler EXCEPT
              ![r][k].read = receipt[r],
              ![r][k].pc = IF receipt[r] = "none" THEN "probe"
                           ELSE IF receipt[r] \in Terminal /\ k # "cleanup" THEN "reply"
                           ELSE IF k = "stop" THEN "halt" ELSE "look"]
    /\ UNCHANGED <<item, receipt, box, starts, ended, overlapped, faults>>

(* recoverMissingWorkerJobReceipt: the container of the deterministic name. *)
Probe(r, k) ==
    /\ At(r, k, "probe")
    /\ Saw(r, k, IF box[r].state # "absent" THEN "adopt"
                 ELSE IF k = "start" THEN "check" ELSE "reply")
    /\ UNCHANGED <<item, receipt, box, starts, ended, overlapped, faults>>

Adopt(r, k) ==
    LET status == Recovered(handler[r][k].seen)
    IN  /\ At(r, k, "adopt")
        /\ receipt' = [receipt EXCEPT ![r] = status]
        /\ handler' = [handler EXCEPT
             ![r][k].read = status,
             ![r][k].pc = IF k = "start" /\ status \in Terminal THEN "reply" ELSE "look"]
        /\ UNCHANGED <<item, box, starts, ended, overlapped, faults>>

(* Inspecting the container of the receipt.                                 *)
Look(r, k) ==
    /\ At(r, k, "look")
    /\ IF k = "cleanup" /\ box[r].state = "running"
       THEN Throws(r, k)
       ELSE Saw(r, k, CASE k = "cleanup" -> "remove"
                        [] k = "start" -> NextOfStart(handler[r][k].read, box[r])
                        [] k = "inspect" /\ box[r].state = "running" -> "reply"
                        [] OTHER -> "settle")
    /\ UNCHANGED <<item, receipt, box, starts, ended, overlapped, faults>>

(* A volume another container is using stops a first start, before anything *)
(* exists.                                                                  *)
CheckHost(r) ==
    /\ At(r, "start", "check")
    /\ Goto(r, "start", "create") \/ Throws(r, "start")
    /\ UNCHANGED <<item, receipt, box, starts, ended, overlapped, faults>>

CreateContainer(r) ==
    /\ At(r, "start", "create")
    /\ IF box[r].state = "absent"
       THEN /\ box' = [box EXCEPT ![r] = [state |-> "created", ok |-> TRUE]]
            /\ Goto(r, "start", "record")
       ELSE Throws(r, "start") /\ UNCHANGED box
    /\ UNCHANGED <<item, receipt, starts, ended, overlapped, faults>>

RecordCreated(r) ==
    /\ At(r, "start", "record")
    /\ receipt' = [receipt EXCEPT ![r] = "created"]
    /\ Goto(r, "start", "launch")
    /\ UNCHANGED <<item, box, starts, ended, overlapped, faults>>

(* startContainer.  The call may throw though the command was started, and  *)
(* a start Docker could not carry out leaves an exit code behind.           *)
Launch(r) ==
    /\ At(r, "start", "launch")
    /\ CASE box[r].state = "absent" -> Throws(r, "start") /\ UNCHANGED <<box, starts, faults>>
         [] box[r].state = "running" -> Goto(r, "start", "mark") /\ UNCHANGED <<box, starts, faults>>
         [] OTHER ->
              \/ /\ box' = [box EXCEPT ![r] = [state |-> "running", ok |-> TRUE]]
                 /\ starts' = [starts EXCEPT ![r] = @ + 1]
                 /\ \/ Goto(r, "start", "mark") /\ UNCHANGED faults
                    \/ Throws(r, "start") /\ Fault
              \/ /\ Throws(r, "start") /\ Fault
                 /\ box' = [box EXCEPT ![r].ok = FALSE]
                 /\ UNCHANGED starts
    /\ UNCHANGED <<item, receipt, ended, overlapped>>

MarkRunning(r) ==
    /\ At(r, "start", "mark")
    /\ receipt' = [receipt EXCEPT ![r] = "running"]
    /\ Goto(r, "start", "reply")
    /\ UNCHANGED <<item, box, starts, ended, overlapped, faults>>

(* stopContainer, then an inspection that only fills in the exit code.      *)
Halt(r) ==
    /\ At(r, "stop", "halt")
    /\ Goto(r, "stop", "settle")
    /\ IF box[r].state = "running"
       THEN \E ok \in BOOLEAN :
              /\ box' = [box EXCEPT ![r] = [state |-> "exited", ok |-> ok]]
              /\ ended' = [ended EXCEPT ![r] = IF ok THEN "zero" ELSE "nonzero"]
       ELSE UNCHANGED <<box, ended>>
    /\ UNCHANGED <<item, receipt, starts, overlapped, faults>>

(* The terminal receipt is written over whatever is there by now.           *)
SettleReceipt(r, k) ==
    /\ At(r, k, "settle")
    /\ receipt' = [receipt EXCEPT ![r] =
                     IF k = "stop" THEN "cancelled" ELSE TerminalOf(handler[r][k].seen)]
    /\ Goto(r, k, "reply")
    /\ UNCHANGED <<item, box, starts, ended, overlapped, faults>>

RemoveContainer(r) ==
    /\ At(r, "cleanup", "remove")
    /\ box' = [box EXCEPT ![r] = Absent]
    /\ Goto(r, "cleanup", "forget")
    /\ UNCHANGED <<item, receipt, starts, ended, overlapped, faults>>

ForgetReceipt(r) ==
    /\ At(r, "cleanup", "forget")
    /\ receipt' = [receipt EXCEPT ![r] = "none"]
    /\ Goto(r, "cleanup", "reply")
    /\ UNCHANGED <<item, box, starts, ended, overlapped, faults>>

(* The Docker call or file operation a handler stands at throws.            *)
StepThrows(r, k) ==
    /\ handler[r][k].pc \notin {"idle", "reply", "fail"}
    /\ Fault
    /\ Throws(r, k)
    /\ UNCHANGED <<item, receipt, box, starts, ended, overlapped>>

(* The terminal report is taken, or lost and the item leased again.         *)
Reply(r, k) ==
    /\ handler[r][k].pc \in {"reply", "fail"}
    /\ handler' = [handler EXCEPT ![r][k] = NoHandler]
    /\ \/ /\ item' = [item EXCEPT ![r][k] = IF At(r, k, "reply") THEN "done" ELSE "failed"]
          /\ UNCHANGED faults
       \/ UNCHANGED item /\ Fault
    /\ UNCHANGED <<receipt, box, starts, ended, overlapped>>

AgentCrash ==
    /\ Fault
    /\ handler' = [r \in Runs |-> [k \in Kind |-> NoHandler]]
    /\ UNCHANGED <<item, receipt, box, starts, ended, overlapped>>

----------------------------------------------------------------------------

Begins(r) == CheckHost(r) \/ CreateContainer(r) \/ RecordCreated(r) \/ Launch(r) \/ MarkRunning(r)

Work(r, k) ==
    \/ Lease(r, k) \/ ReadReceipt(r, k) \/ Probe(r, k) \/ Adopt(r, k) \/ Look(r, k)
    \/ SettleReceipt(r, k) \/ Reply(r, k)
    \/ k = "start" /\ Begins(r)
    \/ k = "stop" /\ Halt(r)
    \/ k = "cleanup" /\ (RemoveContainer(r) \/ ForgetReceipt(r))

Next ==
    \/ \E r \in Runs : \E k \in Kind : Work(r, k) \/ StepThrows(r, k) \/ Issue(r, k)
    \/ \E r \in Runs : Exits(r) \/ Vanishes(r)
    \/ AgentCrash

Spec == Init /\ [][Next]_vars

----------------------------------------------------------------------------
(* Properties.                                                              *)

(* "Refusing to run the command again": crashes between any two steps, lost *)
(* reports and failed Docker calls never start a run's command twice.  The  *)
(* types included.                                                          *)
CommandStartsOnce == TypeOK /\ \A r \in Runs : starts[r] <= 1

(* A receipt says succeeded only of a command that ended with code zero, not *)
(* of a container that never ran or is gone.                                *)
SuccessIsReal == \A r \in Runs : receipt[r] = "succeeded" => ended[r] = "zero"

(* A verdict stands: crashes, re-leases and lost reports never make a        *)
(* handler judge a run again.  Only an inspection and a stop that overlap,  *)
(* each having read the receipt before the other wrote it, do.              *)
VerdictStands ==
    [][\A r \in Runs \ overlapped :
         receipt[r] \in Terminal => receipt'[r] \in {receipt[r], "none"}]_vars

=============================================================================
