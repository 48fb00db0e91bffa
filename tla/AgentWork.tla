------------------------------ MODULE AgentWork ------------------------------
(***************************************************************************)
(* The agent's work loop: polling the control plane for leases, running    *)
(* what it is handed, reporting how it ended, and restarting for an update  *)
(* of the agent itself.                                                     *)
(*                                                                          *)
(*   - queue is the control plane's: the status of every work item and the  *)
(*     number of its last lease;                                            *)
(*   - poll, runner, update and stopping live in the agent's process and    *)
(*     die with it;                                                         *)
(*   - runtime (the container a deploy started) and updater (the container  *)
(*     that replaces the agent) are Docker's and outlive it;                *)
(*   - late holds terminal reports the agent gave up on, still under way.   *)
(*                                                                          *)
(* What a handler does with Docker is not told here, only whether it        *)
(* succeeded and left a container; ReleaseJobs and the worker modules       *)
(* describe handlers.                                                       *)
(***************************************************************************)
EXTENDS Naturals, FiniteSets

CONSTANTS
    Items,              \* the work items of this server
    Updates,            \* those of kind update_agent
    MaxConcurrency,     \* MAX_PARALLEL_AGENT_WORK_ITEMS
    MaxTries,           \* attempts at one terminal report
    MaxLease,           \* bound: leases of one item
    MaxFaults,          \* bound: crashes, lost requests, failed Docker calls
    Courteous,          \* the control plane honours limit and activeWorkItemIds
    Versioned           \* update payloads carry a version

ASSUME WorkAssumption ==
    /\ IsFiniteSet(Items) /\ Updates \subseteq Items
    /\ MaxConcurrency \in Nat \ {0}
    /\ MaxTries \in Nat \ {0}
    /\ MaxLease \in Nat /\ MaxFaults \in Nat
    /\ Courteous \in BOOLEAN /\ Versioned \in BOOLEAN

VARIABLES
    queue,      \* control plane: status and last lease of each item
    poll,       \* the request for leases under way
    runner,     \* the execution of each item in activeWork
    late,       \* terminal reports that may still land
    update,     \* agentUpdatePending and how far the drain got
    stopping,   \* isShuttingDown
    runtime,    \* Docker: the container each item's handler started
    updater,    \* Docker: is an updater about to replace the agent?
    updated,    \* does the agent run the version the updates ask for?
    restarts,   \* history: restarts by the updater
    faults

vars == <<queue, poll, runner, late, update, stopping, runtime, updater, updated,
          restarts, faults>>

Settled == {"completed", "failed"}

NoPoll == [pc |-> "idle", limit |-> 0, told |-> {}, granted |-> {}]
Poll == [pc: {"idle", "asking", "answered"}, limit: 0 .. MaxConcurrency,
         told: SUBSET Items, granted: SUBSET Items]

NoRunner == [pc |-> "idle", lease |-> 0, report |-> "none", valid |-> TRUE,
             reused |-> FALSE, tries |-> 0, delivery |-> "pending", restart |-> FALSE]
Runner == [pc: {"idle", "renew", "prepare", "send"}, lease: 0 .. MaxLease,
           report: {"none", "complete", "fail"}, valid: BOOLEAN, reused: BOOLEAN,
           tries: 0 .. MaxTries - 1,
           delivery: {"pending", "delivered", "unconfirmed", "rejected"},
           restart: BOOLEAN]

NoUpdate == [pc |-> "none", overdue |-> {}]

TypeOK ==
    /\ queue \in [Items -> [status: {"queued", "leased", "expired"} \cup Settled,
                            lease: 0 .. MaxLease]]
    /\ poll \in Poll
    /\ runner \in [Items -> Runner]
    /\ late \subseteq [w: Items, lease: 1 .. MaxLease, report: {"complete", "fail"}]
    /\ update \in [pc: {"none", "draining", "starting", "grace"}, overdue: SUBSET Items]
    /\ runtime \in [Items -> {"none", "started", "removed"}]
    /\ stopping \in BOOLEAN /\ updater \in BOOLEAN /\ updated \in BOOLEAN
    /\ restarts \in Nat
    /\ faults \in 0 .. MaxFaults

Init ==
    /\ queue = [w \in Items |-> [status |-> "queued", lease |-> 0]]
    /\ poll = NoPoll
    /\ runner = [w \in Items |-> NoRunner]
    /\ late = {}
    /\ update = NoUpdate
    /\ stopping = FALSE /\ updater = FALSE /\ updated = FALSE
    /\ runtime = [w \in Items |-> "none"]
    /\ restarts = 0
    /\ faults = 0

Fault == faults < MaxFaults /\ faults' = faults + 1

Active == {w \in Items : runner[w].pc # "idle"}

----------------------------------------------------------------------------
(* createBoundedWorkScheduler                                               *)

(* A tick of the poll loop: one request at a time, for the free places.     *)
Trigger ==
    /\ ~stopping /\ update.pc = "none"
    /\ poll.pc = "idle"
    /\ Cardinality(Active) < MaxConcurrency
    /\ poll' = [pc |-> "asking", limit |-> MaxConcurrency - Cardinality(Active),
                told |-> Active, granted |-> {}]
    /\ UNCHANGED <<queue, runner, late, update, stopping, runtime, updater, updated,
                   restarts, faults>>

(* The control plane hands out leases.  One that does not know the optional *)
(* fields of the request ignores them.                                      *)
Grant(batch) ==
    /\ poll.pc = "asking"
    /\ \A w \in batch : queue[w].status \in {"queued", "expired"} /\ queue[w].lease < MaxLease
    /\ Courteous => Cardinality(batch) <= poll.limit /\ batch \cap poll.told = {}
    /\ queue' = [w \in Items |-> IF w \in batch
                                 THEN [status |-> "leased", lease |-> queue[w].lease + 1]
                                 ELSE queue[w]]
    /\ poll' = [poll EXCEPT !.pc = "answered", !.granted = batch]
    /\ UNCHANGED <<runner, late, update, stopping, runtime, updater, updated, restarts, faults>>

(* The request is lost, or its answer is: the leases are held by nobody.    *)
PollFails ==
    /\ poll.pc # "idle"
    /\ Fault
    /\ poll' = NoPoll
    /\ UNCHANGED <<queue, runner, late, update, stopping, runtime, updater, updated, restarts>>

Begin(ws) ==
    runner' = [w \in Items |-> IF w \in ws
                               THEN [NoRunner EXCEPT !.pc = "renew", !.lease = queue[w].lease]
                               ELSE runner[w]]

\* Fault: the answer is taken to respect the limit.
AcceptAnyNumber ==
    /\ poll.pc = "answered"
    /\ poll' = NoPoll
    /\ Begin(poll.granted \ Active)
    /\ UNCHANGED <<queue, late, update, stopping, runtime, updater, updated, restarts, faults>>

\* Fault: work that is already active is started again.
AcceptActive ==
    /\ poll.pc = "answered"
    /\ poll' = NoPoll
    /\ Begin(IF Cardinality(poll.granted) > poll.limit THEN {} ELSE poll.granted)
    /\ UNCHANGED <<queue, late, update, stopping, runtime, updater, updated, restarts, faults>>

(* The answer arrives.  Too many items are refused whole, one that is still *)
(* being worked on is skipped; the leases they hold run out.                *)
Accept ==
    /\ poll.pc = "answered"
    /\ poll' = NoPoll
    /\ Begin(IF Cardinality(poll.granted) > poll.limit THEN {} ELSE poll.granted \ Active)
    /\ UNCHANGED <<queue, late, update, stopping, runtime, updater, updated, restarts, faults>>

----------------------------------------------------------------------------
(* processWorkItem and executeAndReportAgentWork                            *)

Accepts(w, lease) ==
    queue[w].lease = lease /\ queue[w].status \in {"leased", "expired"}

Close(w, report) ==
    queue' = [queue EXCEPT ![w].status = IF report = "complete" THEN "completed" ELSE "failed"]

\* Fault: an execution that ended keeps its place in activeWork.
LeaveKeepingPlace(w, delivery) ==
    /\ runner' = [runner EXCEPT ![w].pc = "left"]
    /\ UNCHANGED update

(* The execution ends.  An update whose completion was delivered, or may    *)
(* have been, asks for the restart; a second request is ignored.            *)
Leave(w, delivery) ==
    /\ runner' = [runner EXCEPT ![w] = NoRunner]
    /\ update' = IF /\ runner[w].restart
                    /\ delivery \in {"delivered", "unconfirmed"}
                    /\ update.pc = "none"
                 THEN [pc |-> "draining", overdue |-> {}] ELSE update

(* The first renewal decides whether the work begins; one that merely fails *)
(* lets it.                                                                 *)
FirstRenewal(w) ==
    /\ runner[w].pc = "renew"
    /\ \/ /\ queue[w] = [status |-> "leased", lease |-> runner[w].lease]
          /\ runner' = [runner EXCEPT ![w].pc = "prepare"]
          /\ UNCHANGED <<update, faults>>
       \/ /\ queue[w] # [status |-> "leased", lease |-> runner[w].lease]
          /\ Leave(w, "pending")
          /\ UNCHANGED faults
       \/ /\ Fault
          /\ runner' = [runner EXCEPT ![w].pc = "prepare"]
          /\ UNCHANGED update
    /\ UNCHANGED <<queue, poll, late, stopping, runtime, updater, updated, restarts>>

\* Fault: the running version is not looked at.
NeedsRestartAlways == TRUE

(* isAgentUpdateAlreadyApplied, negated.                                    *)
NeedsRestart == ~(Versioned /\ updated)

(* rollbackUnreportableWorkResult: an app's adopted container stays.        *)
RolledBack(w, reused) ==
    IF runtime[w] = "started" /\ ~reused THEN [runtime EXCEPT ![w] = "removed"] ELSE runtime

(* The handler succeeds.  Its result may be one the control plane will      *)
(* reject for its content.  Only an app's result says that it adopted the   *)
(* container of an earlier lease; a worker's never does.                    *)
Succeeds(w) ==
    /\ runner[w].pc = "prepare"
    /\ \E valid \in BOOLEAN, reused \in {FALSE, runtime[w] = "started"} :
         runner' = [runner EXCEPT ![w] =
                     [@ EXCEPT !.pc = "send", !.report = "complete", !.valid = valid,
                               !.reused = reused,
                               !.restart = w \in Updates /\ NeedsRestart]]
    /\ runtime' = IF w \in Updates THEN runtime ELSE [runtime EXCEPT ![w] = "started"]
    /\ UNCHANGED <<queue, poll, late, update, stopping, updater, updated, restarts, faults>>

(* The handler fails, or its result cannot be told without a secret and is  *)
(* rolled back before anything was said of it.                              *)
Fails(w) ==
    /\ runner[w].pc = "prepare"
    /\ runner' = [runner EXCEPT ![w] = [@ EXCEPT !.pc = "send", !.report = "fail"]]
    /\ \/ UNCHANGED runtime
       \/ w \notin Updates /\ runtime[w] # "started"
          /\ runtime' = [runtime EXCEPT ![w] = "removed"]
    /\ UNCHANGED <<queue, poll, late, update, stopping, updater, updated, restarts, faults>>

(* A release phase gave the work back: the control plane requeued it, or    *)
(* will when the lease runs out.                                            *)
Releases(w) ==
    /\ runner[w].pc = "prepare" /\ w \notin Updates
    /\ queue' = IF Accepts(w, runner[w].lease) THEN [queue EXCEPT ![w].status = "queued"] ELSE queue
    /\ Leave(w, "pending")
    /\ UNCHANGED <<poll, late, stopping, runtime, updater, updated, restarts, faults>>

(* recordAgentUpdateCompletionAttempt; what it says of a completion is also *)
(* completionMayBeCommitted.                                                *)
Heard(w, answer) ==
    IF runner[w].report = "fail" THEN runner[w].delivery
    ELSE IF answer = "accepted" THEN "delivered"
    ELSE IF answer = "transient" \/ runner[w].delivery = "unconfirmed" THEN "unconfirmed"
    ELSE "rejected"

ReportAccepted(w) ==
    /\ runner[w].pc = "send"
    /\ Accepts(w, runner[w].lease)
    /\ runner[w].report = "complete" => runner[w].valid
    /\ Close(w, runner[w].report)
    /\ Leave(w, Heard(w, "accepted"))
    /\ UNCHANGED <<poll, late, stopping, runtime, updater, updated, restarts, faults>>

(* No answer, or one that says to try again: the report was taken, is on    *)
(* its way, or never left.                                                  *)
ReportUnanswered(w) ==
    LET r == runner[w]
        valid == r.report = "complete" => r.valid
    IN  /\ r.pc = "send"
        /\ Fault
        /\ \/ Accepts(w, r.lease) /\ valid /\ Close(w, r.report) /\ UNCHANGED late
           \/ /\ late' = IF valid
                         THEN late \cup {[w |-> w, lease |-> r.lease, report |-> r.report]}
                         ELSE late
              /\ UNCHANGED queue
        /\ IF r.tries + 1 = MaxTries
           THEN Leave(w, Heard(w, "transient"))
           ELSE /\ runner' = [runner EXCEPT ![w].tries = @ + 1,
                                            ![w].delivery = Heard(w, "transient")]
                /\ UNCHANGED update
        /\ UNCHANGED <<poll, stopping, runtime, updater, updated, restarts>>

(* 404 or 409: the lease is gone, or an earlier try was taken.              *)
ReportSuperseded(w) ==
    /\ runner[w].pc = "send"
    /\ ~Accepts(w, runner[w].lease)
    /\ Leave(w, Heard(w, "refused"))
    /\ UNCHANGED <<queue, poll, late, stopping, runtime, updater, updated, restarts, faults>>

(* 422 for the content of this result, or for any after it was taken.       *)
Rejected(w) ==
    /\ runner[w].pc = "send" /\ runner[w].report = "complete"
    /\ \/ Accepts(w, runner[w].lease) /\ ~runner[w].valid
       \/ queue[w] = [status |-> "completed", lease |-> runner[w].lease]

\* Fault: the last answer decides alone.
ReportRejectedAfterAny(w) ==
    /\ Rejected(w)
    /\ runtime' = RolledBack(w, runner[w].reused)
    /\ runner' = [runner EXCEPT ![w] = [@ EXCEPT !.report = "fail", !.tries = 0,
                                                 !.delivery = Heard(w, "refused")]]
    /\ UNCHANGED <<queue, poll, late, update, stopping, updater, updated, restarts, faults>>

(* Only when no earlier try can have been taken is what the work started    *)
(* rolled back and the failure reported instead.                            *)
ReportRejected(w) ==
    /\ Rejected(w)
    /\ IF runner[w].delivery = "unconfirmed"
       THEN Leave(w, Heard(w, "refused")) /\ UNCHANGED runtime
       ELSE /\ runtime' = RolledBack(w, runner[w].reused)
            /\ runner' = [runner EXCEPT ![w] = [@ EXCEPT !.report = "fail", !.tries = 0,
                                                         !.delivery = Heard(w, "refused")]]
            /\ UNCHANGED update
    /\ UNCHANGED <<queue, poll, late, stopping, updater, updated, restarts, faults>>

LateReport(m) ==
    /\ late' = late \ {m}
    /\ IF Accepts(m.w, m.lease) THEN Close(m.w, m.report) ELSE UNCHANGED queue
    /\ UNCHANGED <<poll, runner, update, stopping, runtime, updater, updated, restarts, faults>>

Held(w) ==
    \/ runner[w].pc # "idle" /\ runner[w].lease = queue[w].lease
    \/ poll.pc = "answered" /\ w \in poll.granted

(* Renewals keep the lease of an execution; only lost ones let it run out.  *)
LeaseExpires(w) ==
    /\ queue[w].status = "leased"
    /\ IF Held(w) THEN Fault ELSE UNCHANGED faults
    /\ queue' = [queue EXCEPT ![w].status = "expired"]
    /\ UNCHANGED <<poll, runner, late, update, stopping, runtime, updater, updated, restarts>>

----------------------------------------------------------------------------
(* startAgentUpdaterAfterDrain, the updater and the end of the process      *)

\* Fault: a poll under way is not waited for.
DrainedButPolling ==
    /\ update.pc = "draining"
    /\ Active = {}
    /\ update' = [update EXCEPT !.pc = "starting"]
    /\ UNCHANGED <<queue, poll, runner, late, stopping, runtime, updater, updated, restarts, faults>>

(* Nothing is under way, a poll included: the updater may start.            *)
Drained ==
    /\ update.pc = "draining"
    /\ Active = {} /\ poll.pc = "idle"
    /\ update' = [update EXCEPT !.pc = "starting"]
    /\ UNCHANGED <<queue, poll, runner, late, stopping, runtime, updater, updated, restarts, faults>>

(* Ten minutes went by; no request lives as long, so only work is overdue.  *)
DrainTimesOut ==
    /\ update.pc = "draining"
    /\ Active # {} /\ poll.pc = "idle"
    /\ update' = [pc |-> "starting", overdue |-> Active]
    /\ UNCHANGED <<queue, poll, runner, late, stopping, runtime, updater, updated, restarts, faults>>

UpdaterStarts ==
    /\ update.pc = "starting"
    /\ updater' = TRUE
    /\ update' = [update EXCEPT !.pc = "grace"]
    /\ UNCHANGED <<queue, poll, runner, late, stopping, runtime, updated, restarts, faults>>

(* ensureContainer throws, before or after the updater really started.      *)
UpdaterFails ==
    /\ update.pc = "starting"
    /\ Fault
    /\ updater' \in BOOLEAN
    /\ update' = NoUpdate
    /\ UNCHANGED <<queue, poll, runner, late, stopping, runtime, updated, restarts>>

UpdaterDies ==
    /\ updater
    /\ Fault
    /\ updater' = FALSE
    /\ UNCHANGED <<queue, poll, runner, late, update, stopping, runtime, updated, restarts>>

(* The updater did not restart the agent: work goes on.  It died, or is     *)
(* slower than the grace.                                                   *)
GraceElapses ==
    /\ update.pc = "grace"
    /\ IF updater THEN Fault ELSE UNCHANGED faults
    /\ update' = NoUpdate
    /\ UNCHANGED <<queue, poll, runner, late, stopping, runtime, updater, updated, restarts>>

(* SIGTERM, from the updater's docker stop or anyone else's.                *)
Stop ==
    /\ ~stopping
    /\ IF updater THEN UNCHANGED faults ELSE Fault
    /\ stopping' = TRUE
    /\ UNCHANGED <<queue, poll, runner, late, update, runtime, updater, updated, restarts>>

Reborn ==
    /\ poll' = NoPoll
    /\ runner' = [w \in Items |-> NoRunner]
    /\ update' = NoUpdate
    /\ stopping' = FALSE

(* The process exits, its work done or nine seconds gone, and is started    *)
(* again: by the updater as the new version, by Docker as the old one.      *)
Exit ==
    /\ stopping
    /\ Reborn
    /\ updated' = (updated \/ updater)
    /\ restarts' = IF updater THEN restarts + 1 ELSE restarts
    /\ updater' = FALSE
    /\ UNCHANGED <<queue, late, runtime, faults>>

Crash ==
    /\ Fault
    /\ Reborn
    /\ UNCHANGED <<queue, late, runtime, updater, updated, restarts>>

----------------------------------------------------------------------------

Sends(w) ==
    ReportAccepted(w) \/ ReportUnanswered(w) \/ ReportSuperseded(w) \/ ReportRejected(w)

Executes(w) ==
    FirstRenewal(w) \/ Succeeds(w) \/ Fails(w) \/ Releases(w) \/ Sends(w)

Updating == Drained \/ DrainTimesOut \/ UpdaterStarts \/ UpdaterFails \/ GraceElapses

Next ==
    \/ Trigger \/ PollFails \/ Accept
    \/ \E batch \in SUBSET Items : Grant(batch)
    \/ \E w \in Items : Executes(w) \/ LeaseExpires(w)
    \/ \E m \in late : LateReport(m)
    \/ Updating \/ UpdaterDies \/ Stop \/ Exit \/ Crash

Spec == Init /\ [][Next]_vars

(* The loops tick, the process and the updater get to run, Docker and it   *)
(* answer, and a control plane asked again and again hands out what it has. *)
Grantable == {w \in Items : queue[w].status \in {"queued", "expired"} /\ queue[w].lease < MaxLease}

Fairness ==
    /\ WF_vars(Trigger) /\ WF_vars(Accept) /\ WF_vars(updater /\ Stop) /\ WF_vars(Exit)
    /\ SF_vars(\E batch \in SUBSET Items :
         (Grantable \ poll.told # {} => batch # {}) /\ Grant(batch))
    /\ WF_vars(Updating)
    /\ \A w \in Items : /\ WF_vars(Executes(w))
                        /\ WF_vars(LeaseExpires(w) /\ UNCHANGED faults)

FairSpec == Spec /\ Fairness

----------------------------------------------------------------------------
(* Properties.                                                              *)

(* No more work is executed at once than the agent was configured for,      *)
(* whatever the control plane hands out while places come free.  The types  *)
(* included.                                                                *)
BoundedConcurrency == TypeOK /\ Cardinality(Active) <= MaxConcurrency

(* An execution under way is never started over by a second lease of the    *)
(* same item, even from a control plane that ignores activeWorkItemIds.     *)
NeverStartedOver ==
    [][\A w \in Items :
         runner[w].pc \in {"prepare", "send"} /\ runner'[w].pc # "idle"
           => runner'[w].lease = runner[w].lease /\ runner'[w].pc # "renew"]_vars

(* A lost completion reply never authorizes a rollback: the container of a  *)
(* deploy the control plane recorded as completed is there.                 *)
CompletedRuns ==
    \A w \in Items \ Updates : queue[w].status = "completed" => runtime[w] = "started"

(* An update restarts the agent once, however often its completion report   *)
(* is lost and the item leased again; and when the updater stops an agent   *)
(* that still waits out the grace it gave it, that interrupts only work     *)
(* that had been running for the whole drain: nothing leased since, and no  *)
(* poll unanswered.  An updater that comes later than that finds an agent   *)
(* which takes work again, and is not spoken of.                            *)
RestartInterruptsNothingNew ==
    [][/\ restarts' <= 1
       /\ update.pc = "grace" /\ updater /\ ~updater' /\ restarts' # restarts
            => Active \subseteq update.overdue /\ poll.pc = "idle"]_vars

(* Every item ends, or has used up the leases the model allows it.          *)
EveryItemEnds ==
    \A w \in Items : <>[](queue[w].status \in Settled \/ queue[w].lease = MaxLease)

=============================================================================
