----------------------------- MODULE ReleaseJobs -----------------------------
(***************************************************************************)
(* The release phases of the deployments of ONE service: the pre-activation *)
(* job (a migration) and the verification, each run by the agent in a       *)
(* one-off container under a claim the control plane records.               *)
(*                                                                          *)
(* Four parties share the state:                                            *)
(*   - the control plane keeps the work queue (work) and one record per     *)
(*     deployment and phase (rec);                                          *)
(*   - the agent runs at most one runner per leased deployment (runner);    *)
(*   - Docker keeps one container per attempt (box), which outlives the     *)
(*     agent and exits on its own;                                          *)
(*   - requests the agent gave up waiting for may still land (late).        *)
(*                                                                          *)
(* A lease is not numbered.  A runner holds the last lease handed out for   *)
(* its deployment, because the scheduler never runs a work item twice at    *)
(* once (see WorkScheduler), so "current" and "older" are all that          *)
(* decideReleaseJobClaim can tell apart.                                    *)
(***************************************************************************)
EXTENDS Naturals, FiniteSets

CONSTANTS
    Deployments,    \* the deployments of the service
    Planned,        \* the phases each deployment's release plan configures
    MaxAttempt,     \* bound: attempts of one phase (an operator's retries)
    MaxFaults,      \* bound: crashes, failed Docker calls, lost requests
    StopMayFail,    \* may a container outlive Docker's stop?
    SettleRaces     \* may a job be settled behind the back of a runner that
                    \* has read Docker and not yet started its container?

PreActivation == "pre_activation"
Verification == "verification"
Phase == {PreActivation, Verification}

ASSUME ReleaseAssumption ==
    /\ Planned \in [Deployments -> SUBSET Phase]
    /\ MaxAttempt \in Nat \ {0}
    /\ MaxFaults \in Nat
    /\ StopMayFail \in BOOLEAN
    /\ SettleRaces \in BOOLEAN

VARIABLES
    work,       \* control plane: the deploy work item of each deployment
    rec,        \* control plane: the record of each job
    runner,     \* agent: what processes each leased deployment
    box,        \* Docker: the container of each attempt
    late,       \* claims and reports the agent stopped waiting for
    active,     \* the deployments whose candidate took the traffic
    starts,     \* history: how often the command of each attempt was started
    faults

vars == <<work, rec, runner, box, late, active, starts, faults>>

Job == Deployments \X Phase
Box == Deployments \X Phase \X (1 .. MaxAttempt)
JobOf(b) == <<b[1], b[2]>>

Outcome == {"succeeded", "failed", "timed_out", "outcome_unknown"}
Status == {"pending", "running"} \cup Outcome
Policy == {"none", "keep", "rollback"}
WorkStatus == {"queued", "leased", "expired", "succeeded", "failed", "cancelled"}
Ended == {"succeeded", "failed", "cancelled"}

Record == [status: Status, attempt: 0 .. MaxAttempt,
           by: {"none", "current", "older"}, policy: Policy]

Container == [state: {"missing", "vanished", "created", "running", "exited"},
              overdue: BOOLEAN, ok: BOOLEAN]
Absent == [state |-> "missing", overdue |-> FALSE, ok |-> FALSE]

Pc == {"idle", "defer", "deferClaim", "build", "gate", "claim", "settle",
       "sweep", "create", "start", "resume", "await", "report", "discard",
       "scrap", "activate", "rollback", "complete", "fail"}

Runner == [pc: Pc, phase: Phase, attempt: 0 .. MaxAttempt,
           seen: SUBSET Deployments, retried: BOOLEAN,
           outcome: Outcome \cup {"none"}, policy: Policy]

NoRunner == [pc |-> "idle", phase |-> PreActivation, attempt |-> 0,
             seen |-> {}, retried |-> FALSE, outcome |-> "none",
             policy |-> "none"]

Claim == [kind: {"claim"}, d: Deployments, p: Phase, seen: SUBSET Deployments]
Report == [kind: {"report"}, d: Deployments, p: Phase, attempt: 1 .. MaxAttempt,
           outcome: Outcome, policy: Policy]

TypeOK ==
    /\ work \in [Deployments -> WorkStatus]
    /\ rec \in [Job -> Record]
    /\ runner \in [Deployments -> Runner]
    /\ box \in [Box -> Container]
    /\ late \in SUBSET (Claim \cup Report)
    /\ active \in SUBSET Deployments
    /\ starts \in [Box -> Nat]
    /\ faults \in 0 .. MaxFaults

Init ==
    /\ work = [d \in Deployments |-> "queued"]
    /\ rec = [j \in Job |-> [status |-> "pending", attempt |-> 0,
                             by |-> "none", policy |-> "none"]]
    /\ runner = [d \in Deployments |-> NoRunner]
    /\ box = [b \in Box |-> Absent]
    /\ late = {}
    /\ active = {}
    /\ starts = [b \in Box |-> 0]
    /\ faults = 0

----------------------------------------------------------------------------
(* The decisions of release-phases.ts.                                      *)

\* Fault: a lease that finds the attempt running starts it over.
DecideClaimStartsOver(r) ==
    CASE r.status \in {"pending", "running"} -> "run"
      [] r.status = "succeeded" -> "skip"
      [] OTHER -> "halt"

DecideClaim(r) ==
    CASE r.status = "pending" -> "run"
      [] r.status = "running" -> IF r.by = "current" THEN "run" ELSE "resume"
      [] r.status = "succeeded" -> "skip"
      [] OTHER -> "halt"

DecideReport(r, attempt, outcome) ==
    IF attempt # r.attempt THEN "reject"
    ELSE IF r.status = "running" THEN "record"
    ELSE IF r.status = outcome THEN "duplicate"
    ELSE "reject"

\* Fault: a job that succeeded may be retried.
DecideResolutionAnyRetry(status, resolution) ==
    CASE resolution = "retry" /\ status \in Outcome -> "pending"
      [] resolution = "mark_succeeded" /\ status = "outcome_unknown" -> "succeeded"
      [] OTHER -> "refused"

DecideResolution(status, resolution) ==
    CASE resolution = "retry" /\ status \in {"failed", "timed_out", "outcome_unknown"} -> "pending"
      [] resolution = "mark_succeeded" /\ status = "outcome_unknown" -> "succeeded"
      [] OTHER -> "refused"

\* Fault: the exit code alone decides.
ClassifyExitByCode(c) == IF c.ok THEN "succeeded" ELSE "failed"

(* A run that lasted its timeout timed out, whatever it exited with.        *)
ClassifyExit(c) ==
    IF c.overdue THEN "timed_out" ELSE IF c.ok THEN "succeeded" ELSE "failed"

\* Fault: an unknown outcome is treated like a failed one.
ConsequencesOfUnknown(p, outcome) ==
    IF p = PreActivation \/ outcome = "succeeded" THEN {"none"} ELSE {"keep", "rollback"}

(* What a verification result may do to the release now serving; whether    *)
(* the previous one could take the traffic back is the agent's probe.       *)
Consequences(p, outcome) ==
    IF p = PreActivation \/ outcome = "succeeded" THEN {"none"}
    ELSE IF outcome = "outcome_unknown" THEN {"keep"}
    ELSE {"keep", "rollback"}

(* The deployments whose pre-activation job a new attempt must not overlap. *)
Blockers(d, seen) ==
    seen \cup {o \in Deployments \ {d} :
                 /\ rec[<<o, PreActivation>>].status \in {"running", "outcome_unknown"}
                 /\ work[o] # "cancelled"}

----------------------------------------------------------------------------
(* The control plane's endpoints.  Each is a handler run whole when the     *)
(* request lands; both need the lease to be the active one.                 *)

AnswerClaim(d, p, seen) ==
    LET r == rec[<<d, p>>]
    IN  IF p = PreActivation /\ \/ r.status = "pending" /\ Blockers(d, seen) # {}
                                \/ r.status = "succeeded" /\ d \in seen
        THEN "wait" ELSE DecideClaim(r)

Opened(r) == [r EXCEPT !.status = "running", !.attempt = @ + 1, !.by = "current"]

Recorded(r, outcome, policy) == [r EXCEPT !.status = outcome, !.policy = policy]

LandClaim(d, p, seen) ==
    LET answer == AnswerClaim(d, p, seen)
    IN  /\ work[d] = "leased"
        /\ rec' = IF answer = "run" /\ rec[<<d, p>>].status = "pending"
                  THEN [rec EXCEPT ![<<d, p>>] = Opened(@)]
                  ELSE rec
        /\ work' = IF answer = "wait" THEN [work EXCEPT ![d] = "queued"] ELSE work

LandReport(d, p, attempt, outcome, policy) ==
    LET decision == DecideReport(rec[<<d, p>>], attempt, outcome)
    IN  /\ work[d] = "leased"
        /\ decision # "reject"
        /\ rec' = IF decision = "record"
                  THEN [rec EXCEPT ![<<d, p>>] = Recorded(@, outcome, policy)]
                  ELSE rec

(* A request the agent gave up on lands after all: its answer is lost, its  *)
(* effect is not.  A lease handed out since makes it a 409 (LeaseWork).     *)
LateClaim(m) ==
    /\ m \in late /\ m.kind = "claim"
    /\ LandClaim(m.d, m.p, m.seen)
    /\ late' = late \ {m}
    /\ UNCHANGED <<runner, box, active, starts, faults>>

LateReport(m) ==
    /\ m \in late /\ m.kind = "report"
    /\ LandReport(m.d, m.p, m.attempt, m.outcome, m.policy)
    /\ late' = late \ {m}
    /\ UNCHANGED <<work, runner, box, active, starts, faults>>

(* The lease ran out: renewals stopped with the agent, or never arrived.    *)
LeaseExpires(d) ==
    /\ work[d] = "leased"
    /\ runner[d].pc # "idle" => faults < MaxFaults
    /\ faults' = IF runner[d].pc = "idle" THEN faults ELSE faults + 1
    /\ work' = [work EXCEPT ![d] = "expired"]
    /\ UNCHANGED <<rec, runner, box, late, active, starts>>

(* Runners whose reading of Docker a settlement would make stale, and those *)
(* about to start a container.                                              *)
Window == {d \in Deployments :
             runner[d].pc \in {"deferClaim", "claim", "sweep", "create", "start", "resume"}}

MaySettle == SettleRaces \/ (Window = {} /\ late = {})

(* A newer deployment takes the place of work nobody holds: whatever its    *)
(* job was doing is considered settled.                                     *)
Supersede(d) ==
    /\ work[d] \in {"queued", "expired"}
    /\ MaySettle
    /\ work' = [work EXCEPT ![d] = "cancelled"]
    /\ rec' = [j \in Job |-> IF j[1] = d /\ rec[j].status = "running"
                             THEN [rec[j] EXCEPT !.status = "outcome_unknown"]
                             ELSE rec[j]]
    /\ UNCHANGED <<runner, box, late, active, starts, faults>>

(* An operator resolves the pre-activation job that stopped a deployment,   *)
(* which puts the deployment back in the queue.                             *)
Resolve(d, resolution) ==
    LET j == <<d, PreActivation>>
        next == DecideResolution(rec[j].status, resolution)
    IN  /\ work[d] = "failed"
        /\ MaySettle
        /\ next # "refused"
        /\ next = "pending" => rec[j].attempt < MaxAttempt
        /\ rec' = [rec EXCEPT ![j].status = next]
        /\ work' = [work EXCEPT ![d] = "queued"]
        /\ UNCHANGED <<runner, box, late, active, starts, faults>>

----------------------------------------------------------------------------
(* Docker.                                                                  *)

Exits(b) ==
    /\ box[b].state = "running"
    /\ \E ok \in BOOLEAN :
         box' = [box EXCEPT ![b].state = "exited", ![b].ok = ok]
    /\ UNCHANGED <<work, rec, runner, late, active, starts, faults>>

DeadlinePasses(b) ==
    /\ box[b].state = "running" /\ ~box[b].overdue
    /\ box' = [box EXCEPT ![b].overdue = TRUE]
    /\ UNCHANGED <<work, rec, runner, late, active, starts, faults>>

(* Someone other than the agent removes a container (a prune).              *)
Vanishes(b) ==
    /\ box[b].state \in {"created", "running", "exited"}
    /\ faults < MaxFaults
    /\ faults' = faults + 1
    /\ box' = [box EXCEPT ![b] = [Absent EXCEPT !.state = "vanished"]]
    /\ UNCHANGED <<work, rec, runner, late, active, starts>>

Without(containers) == [b \in Box |-> IF b \in containers THEN Absent ELSE box[b]]

Stopped(containers) ==
    [b \in Box |-> IF b \in containers THEN [box[b] EXCEPT !.state = "exited"] ELSE box[b]]

SettledAttempts(d, p) ==
    {b \in Box : JobOf(b) = <<d, p>> /\ box[b].state \in {"created", "exited"}}

OthersExited(d, p) ==
    {b \in Box : /\ b[1] # d
                 /\ p = Verification => b[2] = Verification
                 /\ box[b].state \in {"created", "exited"}}

BoxOf(d) == <<d, runner[d].phase, runner[d].attempt>>

----------------------------------------------------------------------------
(* The runner of one leased deployment.                                     *)

Goto(d, pc) ==
    runner' = [runner EXCEPT ![d] = [@ EXCEPT !.pc = pc, !.seen = {}, !.retried = FALSE]]
Enter(d, pc, p) == runner' = [runner EXCEPT ![d] = [NoRunner EXCEPT !.pc = pc, !.phase = p]]
Leave(d) == runner' = [runner EXCEPT ![d] = NoRunner]

LeaseWork(d) ==
    /\ work[d] \in {"queued", "expired"}
    /\ runner[d].pc = "idle"
    /\ work' = [work EXCEPT ![d] = "leased"]
    /\ rec' = [j \in Job |-> IF j[1] = d /\ rec[j].by = "current"
                             THEN [rec[j] EXCEPT !.by = "older"] ELSE rec[j]]
    /\ late' = {m \in late : m.d # d}
    /\ Enter(d, IF PreActivation \in Planned[d] THEN "defer" ELSE "build", PreActivation)
    /\ UNCHANGED <<box, active, starts, faults>>

(* Before the build, only what runs is worth a claim.                       *)
Enquire(d, seen) ==
    LET pc == CASE runner[d].pc = "gate" -> "claim"
                [] runner[d].pc = "defer" /\ seen = {} -> "build"
                [] OTHER -> "deferClaim"
    IN  runner' = [runner EXCEPT ![d] = [@ EXCEPT !.pc = pc, !.seen = seen]]

\* Fault: what still runs is stopped when overdue but never told to the claim.
ReadRunningJobsUntold(d) ==
    LET overdue == {b \in Box : box[b].state = "running" /\ box[b].overdue}
    IN  /\ runner[d].pc \in {"defer", "gate"}
        /\ box' = Stopped(overdue)
        /\ Goto(d, IF runner[d].pc = "gate" THEN "claim" ELSE "build")
        /\ UNCHANGED <<work, rec, late, active, starts, faults>>

\* Fault: a job past its deadline is left to the runner that started it.
ReadRunningJobsPassive(d) ==
    LET p == runner[d].phase
        seen == {b[1] : b \in {c \in Box : box[c].state = "running" /\ (c[1] = d => c[2] = p)}}
    IN  /\ runner[d].pc \in {"defer", "gate"}
        /\ Enquire(d, seen)
        /\ UNCHANGED <<work, rec, box, late, active, starts, faults>>

(* readRunningJobs: which jobs the claim would wait on still run; one past  *)
(* its own deadline is stopped first.                                       *)
ReadRunningJobs(d) ==
    LET p == runner[d].phase
        blocking == {b \in Box : /\ box[b].state = "running"
                                 /\ b[1] = d => b[2] = p}
        overdue == {b \in blocking : box[b].overdue}
    IN  /\ runner[d].pc \in {"defer", "gate"}
        /\ \E hung \in SUBSET overdue :
             LET seen == {b[1] : b \in blocking \ (overdue \ hung)}
             IN  /\ hung # {} => StopMayFail
                 /\ box' = Stopped(overdue \ hung)
                 /\ Enquire(d, seen)
        /\ UNCHANGED <<work, rec, late, active, starts, faults>>

Build(d) ==
    /\ runner[d].pc = "build"
    /\ \/ /\ UNCHANGED active
          /\ Enter(d, IF PreActivation \in Planned[d] THEN "gate" ELSE "activate", PreActivation)
       \/ UNCHANGED active /\ Goto(d, "fail")
       \* An earlier lease reported this release rolled back: when the previous
       \* one can serve, traffic is returned to it and the release goes no further.
       \/ /\ rec[<<d, Verification>>].policy = "rollback"
          /\ active' = active \ {d}
          /\ Goto(d, "fail")
    /\ UNCHANGED <<work, rec, box, late, starts, faults>>

Claiming == {"deferClaim", "claim"}

(* The claim is answered.                                                   *)
Claims(d) ==
    LET p == runner[d].phase
        answer == AnswerClaim(d, p, runner[d].seen)
    IN  /\ runner[d].pc \in Claiming
        /\ LandClaim(d, p, runner[d].seen)
        /\ CASE answer = "wait" -> Leave(d)
             [] answer # "wait" /\ runner[d].pc = "deferClaim" -> Goto(d, "build")
             [] OTHER ->
                  runner' = [runner EXCEPT
                    ![d] = [NoRunner EXCEPT
                       !.pc = CASE answer = "run" -> "sweep"
                                [] answer = "resume" -> "resume"
                                [] OTHER -> "settle",
                       !.phase = p,
                       !.attempt = rec'[<<d, p>>].attempt,
                       !.outcome = CASE answer = "skip" -> "succeeded"
                                     [] answer = "halt" -> rec[<<d, p>>].status
                                     [] OTHER -> "none"]]
        /\ UNCHANGED <<box, late, active, starts, faults>>

(* No answer within the request's deadline: the claim may still land.       *)
ClaimTimesOut(d) ==
    /\ runner[d].pc \in Claiming
    /\ faults < MaxFaults
    /\ faults' = faults + 1
    /\ late' = late \cup {[kind |-> "claim", d |-> d, p |-> runner[d].phase,
                           seen |-> runner[d].seen]}
    /\ runner' = [runner EXCEPT ![d].retried = TRUE]
    /\ UNCHANGED <<work, rec, box, active, starts>>

\* Fault: an unreported attempt's container goes whatever its phase.
ThrowDiscards(d) ==
    Goto(d, IF runner[d].pc \in {"create", "start", "resume", "await", "report"} THEN "scrap"
            ELSE IF runner[d].phase = PreActivation THEN "fail" ELSE "complete")

(* Where a phase that threw ends: a pre-activation job stops the deployment *)
(* with its container kept, a verification never does, and one already      *)
(* under way is discarded first.                                            *)
Throw(d) ==
    Goto(d, IF runner[d].phase = PreActivation THEN "fail"
            ELSE IF runner[d].pc \in {"create", "start", "resume", "await", "report"}
                 THEN "scrap" ELSE "complete")

(* 409: the lease is gone.  After a retry that means an earlier try was     *)
(* answered wait, so the work is given back.                                *)
ClaimRefused(d) ==
    /\ runner[d].pc \in Claiming
    /\ work[d] # "leased"
    /\ IF runner[d].retried /\ runner[d].phase = PreActivation THEN Leave(d) ELSE Throw(d)
    /\ UNCHANGED <<work, rec, box, late, active, starts, faults>>

(* The retry budget is spent on an unreachable control plane.               *)
GivesUp(d) ==
    /\ runner[d].pc \in Claiming \cup {"report"}
    /\ runner[d].retried
    /\ IF runner[d].phase = PreActivation THEN Leave(d) ELSE Throw(d)
    /\ UNCHANGED <<work, rec, box, late, active, starts, faults>>

(* What follows a phase whose result is known.                              *)
AfterPhase(d) ==
    CASE runner[d].outcome = "succeeded" /\ runner[d].phase = PreActivation ->
           Enter(d, "activate", PreActivation)
      [] runner[d].outcome # "succeeded" /\ runner[d].phase = PreActivation -> Goto(d, "fail")
      [] runner[d].phase = Verification /\ runner[d].policy = "rollback" -> Goto(d, "rollback")
      [] OTHER -> Goto(d, "complete")

(* skip or halt: what the settled phase's attempts left behind goes.        *)
SettlePhase(d) ==
    /\ runner[d].pc = "settle"
    /\ box' = Without(SettledAttempts(d, runner[d].phase))
    /\ AfterPhase(d)
    /\ UNCHANGED <<work, rec, late, active, starts, faults>>

(* removeOtherDeploymentsExitedJobs                                         *)
SweepOthers(d) ==
    /\ runner[d].pc = "sweep"
    /\ box' = Without(OthersExited(d, runner[d].phase))
    /\ Goto(d, "create")
    /\ UNCHANGED <<work, rec, late, active, starts, faults>>

(* removeSettledAttempts, then createContainer under the attempt's name.    *)
CreateBox(d) ==
    /\ runner[d].pc = "create"
    /\ box[BoxOf(d)].state # "running"
    /\ box' = [Without(SettledAttempts(d, runner[d].phase)) EXCEPT
                 ![BoxOf(d)] = [Absent EXCEPT !.state = "created"]]
    /\ Goto(d, "start")
    /\ UNCHANGED <<work, rec, late, active, starts, faults>>

(* startContainer on a container that was created; one found exited would   *)
(* be started again by Docker, one running is left alone.                   *)
StartBox(d) ==
    LET b == BoxOf(d)
    IN  /\ runner[d].pc = "start"
        /\ box[b].state \in {"created", "running", "exited"}
        /\ box' = [box EXCEPT ![b] = [Absent EXCEPT !.state = "running"]]
        /\ starts' = IF box[b].state = "running" THEN starts
                     ELSE [starts EXCEPT ![b] = @ + 1]
        /\ Goto(d, "await")
        /\ UNCHANGED <<work, rec, late, active, faults>>

ReportOf(d, outcome, policy) ==
    runner' = [runner EXCEPT ![d] = [@ EXCEPT !.pc = "report", !.outcome = outcome,
                                              !.policy = policy]]

(* Creating or starting failed and the container shows no start: the job    *)
(* failed without a command having run.  That a container is gone by the    *)
(* time it is started is such a failure too.                                *)
StartFails(d) ==
    /\ runner[d].pc \in {"create", "start"}
    /\ box[BoxOf(d)].state \in {"missing", "vanished", "created"}
    /\ \/ faults < MaxFaults /\ faults' = faults + 1
       \/ runner[d].pc = "start" /\ box[BoxOf(d)].state # "created" /\ UNCHANGED faults
    /\ ReportOf(d, "failed", IF runner[d].phase = Verification THEN "keep" ELSE "none")
    /\ UNCHANGED <<work, rec, box, late, active, starts>>

(* decideReleaseJobRecovery: never a new container for a claimed attempt.   *)
ResumeAttempt(d) ==
    /\ runner[d].pc = "resume"
    /\ Goto(d, IF box[BoxOf(d)].state = "created" THEN "start" ELSE "await")
    /\ UNCHANGED <<work, rec, box, late, active, starts, faults>>

\* Fault: a container that is gone is taken to have ended well.
AwaitExitOfMissing(d) ==
    LET c == box[BoxOf(d)]
        outcome == IF c.state = "exited" THEN ClassifyExit(c) ELSE "succeeded"
    IN  /\ runner[d].pc = "await"
        /\ c.state \in {"exited", "missing", "vanished"}
        /\ \E policy \in Consequences(runner[d].phase, outcome) : ReportOf(d, outcome, policy)
        /\ UNCHANGED <<work, rec, box, late, active, starts, faults>>

AwaitExit(d) ==
    LET c == box[BoxOf(d)]
        outcome == IF c.state = "exited" THEN ClassifyExit(c) ELSE "outcome_unknown"
    IN  /\ runner[d].pc = "await"
        /\ c.state \in {"exited", "missing", "vanished"}
        /\ \E policy \in Consequences(runner[d].phase, outcome) : ReportOf(d, outcome, policy)
        /\ UNCHANGED <<work, rec, box, late, active, starts, faults>>

(* At the deadline the container is stopped; one that survives the stop has *)
(* no outcome.                                                              *)
StopAtDeadline(d) ==
    LET b == BoxOf(d)
    IN  /\ runner[d].pc = "await"
        /\ box[b].state = "running" /\ box[b].overdue
        /\ \/ /\ box' = Stopped({b})
              /\ \E policy \in Consequences(runner[d].phase, "timed_out") :
                   ReportOf(d, "timed_out", policy)
           \/ /\ StopMayFail
              /\ UNCHANGED box
              /\ \E policy \in Consequences(runner[d].phase, "outcome_unknown") :
                   ReportOf(d, "outcome_unknown", policy)
        /\ UNCHANGED <<work, rec, late, active, starts, faults>>

(* The report is acknowledged, for the first time or again.                 *)
Reports(d) ==
    /\ runner[d].pc = "report"
    /\ LandReport(d, runner[d].phase, runner[d].attempt, runner[d].outcome, runner[d].policy)
    /\ Goto(d, "discard")
    /\ UNCHANGED <<work, box, late, active, starts, faults>>

ReportTimesOut(d) ==
    /\ runner[d].pc = "report"
    /\ faults < MaxFaults
    /\ faults' = faults + 1
    /\ late' = late \cup {[kind |-> "report", d |-> d, p |-> runner[d].phase,
                           attempt |-> runner[d].attempt,
                           outcome |-> runner[d].outcome, policy |-> runner[d].policy]}
    /\ runner' = [runner EXCEPT ![d].retried = TRUE]
    /\ UNCHANGED <<work, rec, box, active, starts>>

ReportRefused(d) ==
    /\ runner[d].pc = "report"
    /\ \/ work[d] # "leased"
       \/ DecideReport(rec[<<d, runner[d].phase>>], runner[d].attempt, runner[d].outcome) = "reject"
    /\ Throw(d)
    /\ UNCHANGED <<work, rec, box, late, active, starts, faults>>

(* Only now that the outcome is recorded may the evidence go; a container   *)
(* Docker will not remove is left for a later sweep.                        *)
DiscardBox(d) ==
    /\ runner[d].pc = "discard"
    /\ \/ box' = Without({BoxOf(d)}) /\ UNCHANGED faults
       \/ UNCHANGED box /\ faults < MaxFaults /\ faults' = faults + 1
    /\ AfterPhase(d)
    /\ UNCHANGED <<work, rec, late, active, starts>>

(* discardUnreportedVerification, best effort; the deployment is kept.      *)
ScrapVerification(d) ==
    /\ runner[d].pc = "scrap"
    /\ \/ box' = Without({BoxOf(d)}) /\ UNCHANGED faults
       \/ UNCHANGED box /\ faults < MaxFaults /\ faults' = faults + 1
    /\ Goto(d, "complete")
    /\ UNCHANGED <<work, rec, late, active, starts>>

(* A Docker call under a phase throws.  A start may have taken effect.      *)
DockerFails(d) ==
    /\ runner[d].pc \in {"defer", "gate", "settle", "sweep", "create", "start",
                         "resume", "await"}
    /\ faults < MaxFaults
    /\ faults' = faults + 1
    /\ \/ UNCHANGED <<box, starts>>
       \/ /\ runner[d].pc = "start" /\ box[BoxOf(d)].state = "created"
          /\ box' = [box EXCEPT ![BoxOf(d)].state = "running"]
          /\ starts' = [starts EXCEPT ![BoxOf(d)] = @ + 1]
    /\ Throw(d)
    /\ UNCHANGED <<work, rec, late, active>>

(* The candidate starts, becomes ready and takes the traffic, or not.       *)
Activate(d) ==
    /\ runner[d].pc = "activate"
    /\ \/ /\ active' = active \cup {d}
          /\ IF Verification \in Planned[d] THEN Enter(d, "gate", Verification)
                                            ELSE Goto(d, "complete")
       \/ UNCHANGED active /\ Goto(d, "fail")
    /\ UNCHANGED <<work, rec, box, late, starts, faults>>

(* The reported rollback: traffic returns to the previous release, or the   *)
(* route does not move and the new one is kept.                             *)
RollBack(d) ==
    /\ runner[d].pc = "rollback"
    /\ \/ active' = active \ {d} /\ Goto(d, "fail")
       \/ UNCHANGED active /\ Goto(d, "complete")
    /\ UNCHANGED <<work, rec, box, late, starts, faults>>

(* What becomes of a record when the work of its deployment ends.           *)
Closed(r, ending) ==
    [r EXCEPT !.status = IF @ = "running" THEN "outcome_unknown" ELSE @,
              !.policy = IF @ = "rollback" /\ ending = "complete" THEN "keep" ELSE @]

(* The terminal report.  The control plane takes it from a lease nothing    *)
(* else has claimed, and settles an attempt left running as unknown; a      *)
(* completion after a recorded rollback corrects it to keep.                *)
EndWork(d) ==
    /\ runner[d].pc \in {"complete", "fail"}
    /\ IF work[d] \in {"leased", "expired"}
       THEN /\ work' = [work EXCEPT ![d] =
                          IF runner[d].pc = "complete" THEN "succeeded" ELSE "failed"]
            /\ rec' = [j \in Job |-> IF j[1] = d THEN Closed(rec[j], runner[d].pc)
                                               ELSE rec[j]]
       ELSE UNCHANGED <<work, rec>>
    /\ Leave(d)
    /\ UNCHANGED <<box, late, active, starts, faults>>

(* The terminal report never arrives, or the agent dies: what it was doing  *)
(* is lost, what Docker and the control plane keep is not.                  *)
EndLost(d) ==
    /\ runner[d].pc \in {"complete", "fail"}
    /\ faults < MaxFaults
    /\ faults' = faults + 1
    /\ Leave(d)
    /\ UNCHANGED <<work, rec, box, late, active, starts>>

AgentCrash ==
    /\ faults < MaxFaults
    /\ faults' = faults + 1
    /\ \E d \in Deployments : runner[d].pc # "idle"
    /\ runner' = [d \in Deployments |-> NoRunner]
    /\ UNCHANGED <<work, rec, box, late, active, starts>>

----------------------------------------------------------------------------

Progress(d) ==
    \/ ReadRunningJobs(d) \/ Build(d) \/ Claims(d) \/ ClaimRefused(d)
    \/ GivesUp(d) \/ SettlePhase(d) \/ SweepOthers(d) \/ CreateBox(d)
    \/ StartBox(d) \/ StartFails(d) \/ ResumeAttempt(d) \/ AwaitExit(d)
    \/ StopAtDeadline(d) \/ Reports(d) \/ ReportRefused(d) \/ DiscardBox(d)
    \/ ScrapVerification(d) \/ Activate(d) \/ RollBack(d) \/ EndWork(d)

Mishap(d) == ClaimTimesOut(d) \/ ReportTimesOut(d) \/ DockerFails(d) \/ EndLost(d)

ControlPlane(d) ==
    \/ LeaseExpires(d) \/ Supersede(d)
    \/ \E resolution \in {"retry", "mark_succeeded"} : Resolve(d, resolution)

Docker(b) == Exits(b) \/ DeadlinePasses(b) \/ Vanishes(b)

Next ==
    \/ \E d \in Deployments : LeaseWork(d) \/ Progress(d) \/ Mishap(d) \/ ControlPlane(d)
    \/ \E b \in Box : Docker(b)
    \/ \E m \in late : LateClaim(m) \/ LateReport(m)
    \/ AgentCrash

Spec == Init /\ [][Next]_vars

----------------------------------------------------------------------------
(* Properties.                                                              *)

(* The one rule of release-phases.ts: a job with side effects never runs    *)
(* twice for the same attempt.  However leases, crashes, lost answers and   *)
(* operators interleave, Docker starts the command of an attempt once.      *)
AtMostOncePerAttempt == \A b \in Box : starts[b] <= 1

(* Two pre-activation commands of one service are never running at once.    *)
OneMigrationAtATime ==
    \A b1, b2 \in Box :
        b1[2] = PreActivation /\ b2[2] = PreActivation
        /\ box[b1].state = "running" /\ box[b2].state = "running" => b1 = b2

(* While an attempt whose command was started is unreported, its container  *)
(* is still there for the next lease to read, unless someone else took it.  *)
EvidenceKept ==
    \A b \in Box :
        /\ b[2] = PreActivation
        /\ rec[JobOf(b)].status = "running" /\ rec[JobOf(b)].attempt = b[3]
        /\ starts[b] > 0
        => box[b].state # "missing"

(* A migration the agent reports as succeeded is one its container proves:  *)
(* the command exited zero inside its timeout.  Only an operator may say so *)
(* otherwise, and never while the attempt is running.                       *)
SuccessIsReal ==
    [][\A b \in Box :
         /\ b[2] = PreActivation
         /\ rec[JobOf(b)].status = "running" /\ rec[JobOf(b)].attempt = b[3]
         /\ rec'[JobOf(b)].status = "succeeded"
         => \/ box[b].state = "exited" /\ box[b].ok /\ ~box[b].overdue
            \/ box[b].state = "vanished"]_vars

(* A recorded verdict is final for its attempt: no late report, duplicate,  *)
(* resumed lease or terminal report rewrites it; only the operator does.    *)
VerdictStable ==
    [][\A j \in Job :
         /\ rec[j].status \in Outcome
         /\ rec'[j].status # rec[j].status
         => /\ work[j[1]] = "failed" /\ j[2] = PreActivation
            /\ rec[j].status # "succeeded"]_vars

(* Traffic is taken from a release only after its verification is recorded  *)
(* as definitely failed and rolled back, never over an unknown outcome.     *)
RollbackOnlyOnFailure ==
    [][\A d \in active \ active' :
         /\ rec[<<d, Verification>>].status \in {"failed", "timed_out"}
         /\ rec[<<d, Verification>>].policy = "rollback"]_vars

----------------------------------------------------------------------------
(* Why an attempt starts once: the inductive invariant, part by part.       *)

(* What a container says of its command.                                    *)
Containers ==
    \A b \in Box :
        /\ box[b].state = "created" => starts[b] = 0
        /\ box[b].state \in {"running", "exited"} => starts[b] > 0

(* Attempts are numbered by the claims that open them.                      *)
Attempts ==
    /\ \A j \in Job : rec[j].status = "pending" => rec[j].attempt < MaxAttempt
    /\ \A j \in Job : rec[j].status = "running" => rec[j].attempt > 0
    /\ \A b \in Box : b[3] > rec[JobOf(b)].attempt => starts[b] = 0

Claimed == {"sweep", "create", "start", "resume", "await", "report", "discard", "scrap"}

Runners ==
    \A d \in Deployments :
        /\ runner[d].pc \in {"defer", "deferClaim", "build", "activate"}
             => runner[d].phase = PreActivation
        /\ runner[d].pc \in Claimed
             => /\ runner[d].attempt > 0
                /\ runner[d].attempt <= rec[<<d, runner[d].phase>>].attempt
        /\ runner[d].pc = "report" => runner[d].outcome \in Outcome

(* A runner told to run its attempt is the first to.                        *)
Fresh ==
    \A d \in Deployments :
        runner[d].pc \in {"sweep", "create", "start"} => starts[BoxOf(d)] = 0

(* The phases a lease has not been answered for yet.                        *)
Ahead(r) ==
    {p \in Phase :
       /\ r.pc # "idle"
       /\ \/ r.phase # p /\ p = Verification
          \/ r.phase = p /\ r.pc \in {"defer", "deferClaim", "build", "gate", "claim"}}

(* An attempt its own lease asks about again has not been started.          *)
AskedAgain ==
    \A d \in Deployments : \A p \in Ahead(runner[d]) :
        LET r == rec[<<d, p>>]
        IN  r.status = "running" /\ r.by = "current" => starts[<<d, p, r.attempt>>] = 0

InductiveInvariant ==
    /\ TypeOK
    /\ AtMostOncePerAttempt
    /\ Containers
    /\ Attempts
    /\ Runners
    /\ Fresh
    /\ AskedAgain

----------------------------------------------------------------------------
(* Fairness: an idle agent leases what is queued, a runner takes its next   *)
(* step, the lease of a dead one runs out and time passes for a container.  *)
(* Nothing makes a command exit, a lost request land or an operator act.    *)
Fairness ==
    /\ \A d \in Deployments :
         /\ WF_vars(LeaseWork(d)) /\ WF_vars(Progress(d))
         /\ WF_vars(LeaseExpires(d) /\ runner[d].pc = "idle")
    /\ \A b \in Box : WF_vars(DeadlinePasses(b))

FairSpec == Spec /\ Fairness

(* A deployment that waits in the queue ends, whatever crashes or hangs, or *)
(* an operator is asked about another deployment's lost outcome; provided   *)
(* Docker's stop of a container, tried again and again, works in the end.   *)
Stops ==
    /\ \E d \in Deployments : ReadRunningJobs(d) \/ StopAtDeadline(d)
    /\ \E b \in Box : box[b].state = "running" /\ box'[b].state # "running"

NobodyWaitsForever ==
    SF_vars(Stops) =>
    \A d \in Deployments :
        work[d] = "queued" ~>
            \/ work[d] \in Ended
            \/ \E o \in Deployments \ {d} :
                 work[o] = "failed" /\ rec[<<o, PreActivation>>].status = "outcome_unknown"

(* The promise the phases keep, read off the record and the containers.     *)
Promise == INSTANCE ReleasePromise WITH
    status <- [j \in Job |-> rec[j].status],
    attempt <- [j \in Job |-> rec[j].attempt],
    command <- [b \in Box |-> IF starts[b] = 0 THEN "unstarted"
                              ELSE IF box[b].state = "running" THEN "running" ELSE "over"]

(* Every step the agent, Docker and the control plane take is one the       *)
(* promise allows or does not show.                                         *)
KeepsPromise == Promise!Spec

=============================================================================
